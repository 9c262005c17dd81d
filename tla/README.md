# Verification of codebase-memory-mcp

TLA+ models of the parts of codebase-memory-mcp (`src/MCP`) whose correctness
depends on the order of steps: the indexing pipeline and the SQLite file it
rebuilds, the graph it computes, the files that readers, writers and teammates
share, the jobs that start it, the git watcher, and the process whose threads
share one index lock and are shut down at any moment. TLC checks the models on small
instances; TLAPS proves the central invariants for every value of the
constants.

All paths below are relative to `src/MCP/src/` unless they begin with `src/`.

## 1. Inventory

The repository is a code-intelligence server: it parses source trees into a
graph, keeps one SQLite file per project in a cache directory and answers
queries over MCP (JSON-RPC on stdin/stdout). A dashboard (`src/Dashboard`)
shows the graph in a browser.

| Component | State it keeps | Operations that change it | Interacts with |
|---|---|---|---|
| Indexing pipeline (`pipeline/pipeline.c`, `pipeline_incremental.c`) | `cbm_pipeline_t`: mode, file list, graph buffer, `cancelled`, `saved_adr` | `cbm_pipeline_run`: discover, route, extract, dump, persist rows; `cbm_pipeline_cancel` | discovery, extraction, graph buffer, store |
| Graph buffer and SQLite writer (`graph_buffer/`, `src/MCP/internal/cbm/sqlite_writer.c`) | nodes and edges in memory; B-tree pages being written | load from a file, purge by file, merge, dump (page 1 last) | pipeline |
| Store (`store/store.c`) | one SQLite connection | schema, `file_hashes`, `project_summaries` (ADR), integrity check, queries | pipeline, MCP server, UI |
| Discovery (`discover/`) | ignore rules | directory walk with the filters of a mode | pipeline |
| Git watcher (`watcher/watcher.c`) | table of `project_state_t` (baseline, last HEAD, next poll), `stopped` | watch, unwatch, touch, poll, stop | git, `watcher_index_fn`, MCP server |
| Server process (`main.c`, lock in `pipeline/pipeline.c`) | `g_shutdown`, `g_pipeline_busy`, the threads | lock, try-lock, unlock, `request_shutdown`, joins and frees | everything |
| MCP server (`mcp/mcp.c`) | cached store, `active_pipeline`, auto-index thread id, session | tools (`index_repository`, `delete_project`, `manage_adr`, ...), `initialize`, `notifications/cancelled` | lock, pipeline, watcher, store |
| HTTP UI (`ui/http_server.c`, `httpd.c`) | stop flag, four index-job slots | `/rpc`, `/api/index`, `/api/project`, `/api/adr` | a second MCP server, child processes |
| Artifact (`pipeline/artifact.c`) | two files in the repository | export, import, bootstrap | pipeline, MCP server |
| Worker pool (`pipeline/worker_pool.c`, `pass_parallel.c`) | next index, per-worker buffers | parallel for | extraction |
| Extraction and resolution (`pipeline/pass_*.c`, `registry.c`, `src/MCP/internal/cbm/`) | none between files but the registry | parse a file, resolve calls | graph buffer |
| Cypher, semantic search, layout, traces, git context | none | queries | store |
| CLI (`cli/cli.c`) | editor configuration files | install, one-shot tools | pipeline |
| Dashboard API and UI (`src/Dashboard`) | job list | start and poll index jobs, chat, file reads | HTTP UI, database |

How they interact: calls on one thread (tool call, pipeline, graph buffer,
store), shared memory between threads (`g_pipeline_busy`, `g_shutdown`,
`active_pipeline`, the watch list), callbacks (`watcher_index_fn`), files
shared between processes (the SQLite file, the repository, the artifact), and
signals.

Hard behaviours, and where they are taken up (`PROJECT.json`, "hazards", gives
each at its line):

* *interleaving*: five kinds of threads around one spinlock, a signal handler
  on top of any of them, the UI's deletion and index jobs outside the lock, the
  watch list changed during a poll;
* *partial failure*: a run that is cancelled, fails or cannot read a file
  between its purge and its dump; a failed run after HEAD was stored;
* *crash recovery*: the database is unlinked, truncated, written, and only then
  gets its rows; the watchdog calls `exit(0)` in the middle;
* *stale state*: mtimes taken at another moment than contents, HEAD read at
  another moment than the tree, pointers read before they are freed;
* *liveness*: every run ends, a dirty tree is indexed, a shutdown ends.

What makes each component correct:

* pipeline: the row of a file names the version its graph was parsed from
  (this is what makes "unchanged" mean "already indexed"); a run that nobody
  disturbs brings the graph of the tree up to date; the merge loses no file it
  did not visit; the user's ADR survives; every run ends.
* watcher: between two polls, an index that is behind its tree will be noticed.
* lock and shutdown: writers exclude each other, the lock is never left taken,
  a shutdown reaches the run it means to cancel and ends.
* graph: a full run stores the graph of the texts, whatever the number of
  workers and their order; an incremental run arrives at the same edges; no
  node outlives its file.
* store: a call is answered from the file of its project, and not from one that
  its own server has replaced; the file a run wrote is the one with the name.
* artifact: what is imported is one consistent pair, and a late or foreign one
  does not outlive the run that follows it.
* jobs: a slot has one job, which ends; what is reported is what happened; the
  page ends up showing it.

## 2. Modules

| Module | Models | Uses |
|---|---|---|
| `IndexPipeline` | one project's repository, SQLite file and pipeline run | |
| `IndexPipelineProofs` | theorems about it | `IndexPipeline`, TLAPS |
| `Watcher` | the watcher thread, the watch list, repositories, the lock as the watcher sees it | |
| `WatcherProofs` | theorems about it | `Watcher`, TLAPS |
| `Server` | threads, lock, shutdown, joins and frees | instance of `IndexGate` |
| `IndexGate` | abstract specification of what the lock promises | |
| `ServerProofs` | theorems about `Server`, and that it implements `IndexGate` | `Server`, TLAPS |
| `GraphBuffer` | the graph buffer, as operators | instances of `Loop` |
| `GraphBuild` | what a run computes: passes, registry, workers, merge, incremental repair | `GraphBuffer` |
| `Loop` | a loop over a sequence, and induction over it | TLAPS |
| `GraphBuildProofs` | theorems about `GraphBuild`, lemmas about `GraphBuffer` | `GraphBuild`, TLAPS |
| `ProjectStore` | the SQLite files of the projects, who has them open, who replaces them | |
| `ProjectStoreProofs` | theorems about it | `ProjectStore`, TLAPS |
| `Artifact` | import and export of the compressed database beside runs | |
| `ArtifactProofs` | theorems about it | `Artifact`, TLAPS |
| `IndexJobs` | the job tables of the UI server and of the Dashboard, and its page | |
| `IndexJobsProofs` | theorems about it | `IndexJobs`, TLAPS |
| `MC...` | model values and sets for TLC | the module of that name |

The modules look at one system from different distances. `IndexPipeline` opens
up a run into its steps and follows one file; to `Watcher`, `Server`,
`ProjectStore` and `Artifact` a run is a few steps around the lock;
`GraphBuild` asks what the run computes and leaves out that it may fail. What
they share is stated once and assumed elsewhere: that a run ends
(`RunTerminates`) is the fairness of the others, that runs of one process
exclude each other (`Server`) is the variable `lock` of the others.

A definition beginning with "Faulty variant" in its comment is not part of any
specification: it is a plausible mistake in the definition next to it, and each
property listed with a passing run in `PROJECT.json` is violated when the
variant takes that definition's place ("mutants").

### IndexPipeline

*State.* `disk` is the repository (the version of each file, 0 when absent);
`dbState`, `dbNodes`, `dbRows`, `dbAdr` the SQLite file: absent, empty schema,
unreadable, or complete, with the version each file's graph was parsed from,
the version each `file_hashes` row names, and the ADR. `pc`, `mode`, `route`,
`files`, `gbuf`, `toParse`, `toPersist`, `carried`, `savedAdr`, `cancelled`,
`rc` are the run. `suspect`, `dbSuspect`, `disturbed`, `missing`,
`adrAtStart`, `hidden` are history that only properties read (`faults` counts
against a bound). `hidden` are the files that the comparison of rows with the
disk could not find when the run started: the row, or the lack of one, agreed
with the disk, and the graph did not.

*Actions.* `Discover`, `Route*`, `DeleteDb` are `cbm_pipeline_run` up to and
including `try_incremental_or_delete_db`; `Classify`, `Load` are
`cbm_pipeline_run_incremental` up to the purge; `Structure`, `Parse`,
`ParseFails`, `Resolved`, `AbortFull`, `CutIncremental`, `Predump` are the
passes of the two routes with their cancellation checks; `ReplaceDb`,
`DumpOpen`, `DumpFinish`, `PersistOpen`, `PersistRow`, `PersistDone` are
`dump_and_persist(_hashes)` down to the single upsert. `DiscoverFails`,
`LoadFails`, `DumpFails` and `Crash` are failures; `Edit`, `Remove`,
`WriteAdr`, `HttpDelete`, `Quarantine`, `Cancel` the rest of the world.

*Abstractions.* The content of a file is a version number, and mtime+size
identify it (a change that keeps both is outside the model, as it is outside
the program's sight). The graph of a file is the version it was parsed from;
edges between files are not told apart. The extraction of a file is one step:
the passes that read a file a second time are folded into the first reading.
A database file of zero bytes, between `fopen` and the first page, counts as
unreadable. Memory allocation succeeds.

### Watcher

*State.* `work`, `commit` are the working tree and HEAD of each repository,
`indexed` the version each database was built from, `table` and `states` the
watch list and every `project_state_t` ever allocated (a freed one is one that
`table` no longer leads to), `wpc`, `todo`, `cur` the thread, its snapshot and
the state being polled, `lock` the index lock. `excuse` is history: for each
project, why its index may lag behind without the watcher knowing.

*Actions.* `PollOnce`, `PollProject`, `PollEnds` are `cbm_watcher_poll_once`;
`Baseline` is `init_baseline`; `ReadHead`, `ReadDirty`, `ReadClean` are
`check_changes`; `IndexSkipped`, `IndexStarts`, `RunReads`, `RunEnds`,
`RunFails` are `watcher_index_fn` of `main.c`; `Reread` is what `poll_project`
does with its result. Each git call and each run can fail.

*Abstractions.* A commit is named by the content of its tree; a run reads the
whole tree at one instant (how it reads is `IndexPipeline`'s subject); time is
reduced to `due`; `git rev-parse` in a repository without a commit prints the
word `HEAD`, which is a value like any other.

### Server and IndexGate

*State.* `pc` of each thread (`main`, `http`, `watcher`, `watchdog` and a set
`Autos` of auto-index threads), `busy` for `g_pipeline_busy`, `serial`,
`active`, `cancelled` for main's pipelines and `srv->active_pipeline`,
`sd`, `on`, `target` for `request_shutdown`: its next statement, the thread it
runs on, the pointer it read.

*Actions.* One per statement of `request_shutdown` that another thread can
observe, one per lock, unlock, join and free; a tool call is split at the lock,
at the assignments of `active_pipeline` and at the free of its pipeline. A
thread below the signal handler stands still (`Runs`).

*Abstractions.* What happens inside a run is one step (`RunEnds`). A closed or
exhausted stdin ends the message loop. Index jobs of the UI are other processes
with a lock of their own and survive the server. The thread that looks for
updates is left out: it touches neither the lock nor the shutdown, and is
joined like the others.

`IndexGate` is what a caller of the lock may rely on, in three actions: a
thread enters when nobody is inside, or, after the gate has been forced, beside
at most one other; a thread leaves; the gate is forced once. `Server`
implements it with `inside <- Inside`, `forced <- Released`.

### GraphBuffer and GraphBuild

*State.* A buffer is the sequence of its nodes, a set of edges between ids, and
the next id; `Upsert`, `Insert`, `DeleteByFile`, `Merge`, `Dump`, `Load` are
the functions of `graph_buffer.c`. `text` is the repository: for each file
what it defines, calls, requests and publishes. `db` is the stored graph by
names; `gbuf`, `registry`, `todo`, `saved` are a run; `next`, `at`, `local`,
`shared` its workers. `indexed`, `calm`, `exact` are history.

*Actions.* `StartFull`, `StartIncremental` prepare a run up to the passes
(structure, or load, capture of inbound edges, purge, seeding of the registry);
`DefinePasses` and `CallPasses` are the sequential route; `Take`, `Extract`, `MergeExtracted`,
`BuildRegistry`, `ResolveFile`, `MergeResolved` the parallel one, a worker's
file per step; `Finish` restores edges and stores the graph; `Edit` changes a
file between runs. What a pass does with the files one after the other is a
`Fold` of `Loop`, instantiated with the pass's step on one file.

*Abstractions.* A qualified name is a triple; what matters is which files share
one: a file named `x.ts` beside `x.js`, or a package file named after its
directory. Import maps and types do not take part in the resolution, which
chooses by uniqueness, same module and order, the fallback of
`registry.c`; its limit on the candidates of one name (`REG_MAX_CANDIDATES`,
`registry.c:723`) is left out, so the theorems are about names with fewer
definitions. A call has its file as source, as `calls_find_source`
(`pass_calls.c:405`) gives it for code outside of functions. The size of a file orders the parallel run (`BySize`); an edit
keeps that order. The constants are assumed to be what discovery and extraction
give: each file once in either order, finitely many definitions, channels,
routes and calls in a text, and a directory that is not a file.

### ProjectStore

*State.* `file` are the files that exist, with a name or only with an open
descriptor, `path` which of them a project's name refers to, `open`,
`current`, `pc`, `req` the two MCP servers with their cached connection, `lock`
and `run` the run. `retired` and `intruded` are history.

*Actions.* `Hit`, `Miss`, `CheckOk`, `CheckNoProject`, `CheckFails`,
`Quarantine` are `resolve_store`; `Evict` the idle eviction; `LookForAdr`,
`ImportAdr`, `StoreAdr` are `manage_adr`; `Delete`, `HttpDelete`, `HttpAdr` the
deletions and the UI's own ADR handlers; `IndexBegins`, `WatcherBegins`,
`Run*`, `Dump*`, `Persist` the run as the files see it; `Crash` ends the
process.

*Abstractions.* Files are interchangeable, so a new one is the first that is
unused, and one that nobody refers to is forgotten: any number of them follow
each other. A connection that SQLite has opened on a file that is then
truncated is not followed further than its next check.

### Artifact

*State.* The files: `db`, `zst`, `meta`, `import` (the temporary file of an
import), `vacuum` (that of an export); `lock` per process; for each client
`pc`, what it holds in memory (`got`, `limit`), `mine` (the name still refers
to the file its dump writes). `done`, `raced`, `unpaired` are history: a
project is in `raced` from the moment an import replaces the file of a dump
until a full run deletes the database while nothing else is going on and the
artifact is sound (`Cured`).

*Actions.* `Check` to `Install` are `try_artifact_bootstrap` and
`cbm_artifact_import`; `Acquire` to `Leave` the run under the lock, `Clear` to
`EndExport` the export at its end; `Cancel`, `ZstFails`, `MetaFails`, `Crash`
are failures; `Edit`, `Delete` the world. `Init` begins with every artifact a
clone can bring: none, damaged, of the same or of another checkout path.

*Abstractions.* A database is three values: the project it is of, the version
its graph shows, the version its rows stand for. The rows of another checkout
carry mtimes that no file here has. An older process may have exported before:
`zst` and `meta` start as one pair.

### IndexJobs

*State.* `server` says which of the two tables the behaviour is about; `status`
is the table, `processes` the children with the thread or the handlers that
watch them; `inFlight`, `shown`, `hadRunning` the page. `succeeded`
(the slots whose job has ended with exit code 0), `owed`, `spawnFailed` and
`lost` (the slots whose start threw) are history.

*Actions.* `UiStart`, `UiFork`, `UiForkFails`, `UiReap`, `UiFinish`, `UiKill`
are the C server, `DashStart`, `DashError`, `DashClose` the Dashboard, `Poll`
and `Receive` its page; `ChildEnds` is any end of a child. `DashStartThrows` is
the start that marks its slot and then throws (a name or a mode that is not a
string, an error that `spawn` does not defer): `server.ts` answers 500, and the
slot stays running without a child.

*Abstractions.* The log file that children of one server share, and the text
of an error, are left out. A slot's `running` is written before its thread
exists, as in the code.

## 3. Runs

TLC runs with deadlock checking except where the process or the thread may
really end.

| Run | Instance | Shows |
|---|---|---|
| `index_core` | 2 files, one of them left out by fast modes; 1 edit, 1 ADR, 1 failure or crash | `TypeOK`, `RowsMatchNodes`, `QuietRunIsExact`, `MergeIsAdditive`, `FullRunKeepsAdr` over any sequence of runs |
| `index_three_files` | 3 files, two left out by fast modes; removals; 1 failure; fair | both outcomes of the half-more rule of `pipeline.c:886`; `RowsMatchNodes`, `MergeIsAdditive`, `RunTerminates` |
| `watcher_core` | 1 repository, 2 versions, 2 allocated states, 1 run of another thread, 1 failure | `TypeOK`, `NothingForgotten` |
| `watcher_progress` | the same with 1 state; fair | `DirtyIsIndexed`, `StopEnds` |
| `server_core` | 1 auto-index thread, 2 tool calls; fair | `TypeOK`, `Exclusion`, `NoStaleLock`, `CancelTakesEffect`, `ImplementsGate`, `ShutdownEnds` |
| `server_relaunch` | 2 auto-index threads (symmetric), 1 tool call, 1 index job | `Exclusion` with more contenders, `ReturnIsClean` |
| `graph_build` | 3 files, two of which share all names; 4 texts, 2 edits, 2 runs, 2 workers; sequential and parallel | `TypeOK`, `FullRunIsExact`, `IncrementalIsExact`, `OwnerDefines`, `EdgesSurvive` |
| `project_store` | 2 projects, one watched and used from both servers; 4 files at a time; fair | `TypeOK`, `AnswersOwnProject`, `SeesOwnChanges`, `RunOutputIsVisible`, `SilentClientReleases` |
| `artifact_core` | 2 clients of one process, 2 projects, 2 versions, 3 calls, 1 fault | `TypeOK`, `RowsTellTruth`, `AnswersHold`, `PairMatches` |
| `index_jobs` | 2 slots, 2 children, 2 answers under way; fair | `TypeOK`, `SlotsExclusive`, `DashboardTellsTruth`, `JobsEnd`, `StatusConverges` |
| `index_adr_lost` | 2 files, 1 edit, 1 ADR | refutes `ReindexKeepsAdr` |
| `artifact_persistence` | 2 clients, 1 project, 2 calls | refutes `PersistenceWrites` |

*Bounds.* Runs are not bounded: any number of them follow each other, so the
states that a sequence of full, fast, cancelled and crashed runs can leave
behind all occur. What is bounded are edits, versions, failures, allocated
states, calls. Two files suffice for each relation between "visited", "on
disk", "has a row", "was parsed"; the third is for the routing rule, the only
place where a count matters. One edit separates any two reads of a file; a
version is only ever compared for equality. One failure per behaviour: two
failures in different runs are separated by a run that goes through, which
starts afresh from the database. For the watcher, two versions give every
relation of tree, HEAD, last HEAD and index, and two allocated states a
re-registration during a poll. One project is enough for what one thread does
to it: projects meet only in the snapshot, where a re-registered name already
gives two states. (Several projects, and roots without git, are covered by the
proofs.) For the server, three contenders for the lock
are what `AtMostTwo` needs. In `graph_build` two files share their names and
the third tells an unchanged bystander from both; two runs are a full and an
incremental one, or two full ones, and two edits make a rename or a change with
a removal; two workers give every split of three files. In `project_store` two
servers and the watcher are all there are; the second project is there to be
switched to, and four files are one per reference that can be out of date. In
`artifact_core` two clients are a run and an import beside it, or two imports;
three calls let one follow a pair that raced (exports of two processes are not
in this run, see `OwnArtifact` in section 4); versions are compared for
equality and size only. Two slots of `index_jobs` are a free and a taken one,
and every slot of a table is alike. The proofs remove these bounds for the
safety properties they state.

*Fairness.* `IndexPipeline.FairSpec`: a run that can take its next step takes
it; no fairness of failures, edits or starts. `Watcher.FairSpec`: the watcher
thread is scheduled, time passes (`Due`), and a run of another thread ends
(that is `RunTerminates`). `Server.FairSpec`: each thread is scheduled and each
run ends, the handler's statements follow each other; nobody has to call,
signal or cancel. `ProjectStore.FairSpec`: the loop on stdin wakes up when its
client is silent (`poll` has a timeout), nothing else. `IndexJobs.FairSpec`:
children end, threads and handlers run, and the page's interval timer fires and
its answers arrive, in any order; nobody has to start or kill a job. The
spinlock is unfair, and no property relies on a turn for
every thread: the calls that contend are finitely many, and after a shutdown no
new ones begin.

## 4. What the runs found

Passing: rows and graphs agree, with exactly the exceptions named at
`RowsMatchNodes`; from any state that crashes, deletions by the UI and
quarantines leave, a full run that nothing interferes with stores the tree
exactly, and an incremental one does so but for the files it cannot see
(`hidden`): those of the exceptions whose rows agree with the disk, among them
a file that a crash left without a row and that was removed before the run;
an incremental run in a fast mode drops nothing that only a full run visits;
the issue-516 capture keeps the ADR on the full route; every run and every
shutdown ends; a forced unlock costs one intruder and never more, because the
unlock of the first holder opens the gate for one only when one has left.

A full run computes the graph of the texts for every order of the workers, but
for channel edges (below); an incremental one reaches the same edges when no
name is ambiguous, and never leaves a definition behind whose file lost it; a
call never meets a file of another project or one its own server replaced;
damaged and foreign artifacts, and those that come in before or after the dump
of a run, are repaired by the run that follows the import (one that comes in
during a dump stays, until a full run happens to rebuild the database);
job slots are not given away while their last thread or handler is alive, as
long as every child of the Dashboard could be started, and each job ends but
those whose start threw.

Refuted, each with a run and an entry under "findings":

* the incremental route drops the ADR (`ReindexKeepsAdr`);
* a call with `persistence` answers "indexed" and writes no artifact when the
  project is indexed already (`PersistenceWrites`).

The modules state further claims of comments and headers that the code does
not meet. They have no run of their own; each is refuted by making it the only
INVARIANT or PROPERTY (marked P) of the configuration named here, without its
SYMMETRY:

| Claim | Stated at | Configuration | What happens |
|---|---|---|---|
| `CancelHidesNothing` | `pipeline_incremental.c:7` "Persists updated hashes" of what was re-parsed | `IndexAdrLost.cfg` | after a cancellation files that were purged but not parsed get current rows, so later runs skip them (`pipeline_incremental.c:830`) |
| `SuccessMeansDumped` | `pipeline.h:55` | `IndexAdrLost.cfg` | a full run cancelled before the dump returns 0 without a database (`pipeline.c:1103`) |
| `EditIsNoticed` | `pipeline_incremental.c:76` | `IndexAdrLost.cfg` | a file edited after it was parsed gets a current row from the second `stat` (`pipeline_incremental.c:457`) |
| `GoneIsPurged` | `pipeline_incremental.c:150` "orphaned graph nodes" | `IndexCore.cfg` | after a crash between two row upserts a file has a graph and no row; when it is removed, no incremental run purges it, since `find_deleted_files` reads rows only (`pipeline_incremental.c:221`) |
| `IncrementalKeepsDb` | `pipeline_incremental.c:4` | `IndexAdrLost.cfg` | the database is unlinked and rewritten (`pipeline_incremental.c:638`) |
| `SkipIsRetried` | `main.c:160` "Watcher will retry on next poll cycle" | `WatcherCore.cfg` | a run skipped for a taken lock counts as success (`main.c:164`); HEAD is already stored (`watcher.c:396`, `451`), so a clean commit is never indexed |
| `PolledStateIsLive` | `watcher.c:483` "Snapshot project pointers under lock, then poll without holding it" | `WatcherCore.cfg` | a name registered again during its poll has its state freed under the poll (`watcher.c:302`, called from `mcp.c:4898`, `4923`) |
| `FailureIsRetried` | `watcher.c:450` | `WatcherCore.cfg` | HEAD was stored before the run that failed (`watcher.c:396`) |
| `MoveDuringRunIsNoticed` | `watcher.h:4` | `WatcherCore.cfg`, `MaxVersion = 3` | HEAD is read again after the run (`watcher.c:451`) |
| `OneRunAtATime` | `pipeline.c:51` "Prevents concurrent pipeline runs on the same DB file" | `ServerRelaunch.cfg` | `request_shutdown` gives back a lock it does not hold (`main.c:83`) and a waiting run starts beside the one going on |
| `RegistersWithLive` | `mcp.c:4896` "Register with watcher for ongoing change detection" | `ServerRelaunch.cfg` | the watcher is freed (`main.c:539`) before the auto-index thread is joined |
| `AnyRunIsCancelled` | `main.c:75` | `ServerRelaunch.cfg` | runs of the watcher, the auto-index and the UI server are in no pointer the shutdown reads |
| `CancelsInProgress` | `main.c:75` | `ServerRelaunch.cfg` | off the main thread, the pipeline may be freed between the read and the store |
| `OneRunOfAnyProcess` | `pipeline.h:82` | `ServerRelaunch.cfg` | an index job runs in another process |
| `CancelReachesRun` (P) | `mcp.c:3096` | `ServerCore.cfg` | the reader of the cancellation is the thread that runs the pipeline |
| `IdsUnique` | `pipeline_internal.h:404`, `graph_buffer.h:53` | `GraphBuild.cfg` | `shared_ids` starts from the buffer's next id before the merges advance it (`pipeline.c:752`, `835`); channel nodes made in between (`pass_parallel.c:922`) and nodes of the resolve workers get the same ids, and edges end at the wrong node |
| `DefinitionsPresent` | | `GraphBuild.cfg` | when one of two files with the same stem is removed or changed, the definitions the other shares with it go and do not come back until it changes |
| `RenameKeepsEdges` (P) | `pipeline_incremental.c:321` | `GraphBuild.cfg` | a definition moved to another file keeps its name and loses its inbound edges: the capture asks whether the old file was deleted |
| `ContainmentKept` (P) | `pipeline_incremental.c:352` | `GraphBuild.cfg`, `ModuleOf <- PackageOfC`, `Stem <- OwnStem` | the folder of a package file is the file's module and is purged with it, and with it the containment of its siblings |
| `SamePick` | `pipeline_incremental.c:521` | `GraphBuild.cfg`, `Stem <- OwnStem`, `ModuleOf <- OwnStem`, `Texts <- Rivals`, `Repositories <- TwoLibraries`, `Workers = 1` | among ambiguous definitions an incremental run picks by the order of the stored nodes |
| `AdrVisibleToBoth` | `mcp.c:4683` | `ProjectStore.cfg`, `Calls <- AllCalls`, `Browsed = {}` | an ADR is written to a file that a run of another thread has unlinked |
| `QuarantinesOnlyCorrupt` | `mcp.c:917` | `ProjectStore.cfg`, `Calls <- AllCalls` | between the check that failed and the rename a run may have put a complete database there |
| `BootstrapOnlyIfAbsent` (P) | `mcp.c:2905` | `ArtifactCore.cfg`, `Projects <- OneProject` | the database that was absent when it was looked for is there when the import installs its own |
| `RowsAlwaysTellTruth` | `mcp.c:3095` | the same | an import that lands in the middle of a dump: the rows of the run go into the imported database |
| `AnswersAlwaysHold` | `mcp.c:3126` | the same | the same import stays: the run has answered "indexed", and later runs find the rows up to date |
| `CorruptRefused` | `artifact.c:625` | the same | two imports share `.import_tmp`: one checks what the other then replaces |
| `PairMatches`, `OwnArtifact` | `artifact.c:387` | `ArtifactCore.cfg`, `Process <- Apart`, `MaxFaults = 0`; `OneProject` for the first | the lock is a process's own: two processes mix the two files of one artifact, and through `cbm_artifact_tmp.db` the databases of two projects |
| `UiTellsTruth` | `http_server.c:129` | `IndexJobs.cfg` | the second `waitpid` leaves the status word 0, and a failed job is done (`http_server.c:890`) |
| `EveryJobEnds` (P) | `index.ts:97` "all index slots busy" | `IndexJobs.cfg` | a start that throws after `job.status = "running"` (`index.ts:101`) leaves a slot without a child; nothing ends it, and with every slot lost no job can be started |
| `DashboardAlwaysTellsTruth` | | `IndexJobs.cfg` | `close` after `error` writes to a slot that has been given to a new job |
| `PageReloads` (P) | `useIndexStatus.ts` | `IndexJobs.cfg` | an older answer that arrives late clears or sets `hadRunningRef`, or a short job falls between two polls: the projects are not reloaded |

Seen on the way, without a claim it contradicts: the UI's MCP server never
evicts its cached connection; the import of a legacy `adr.md` (`mcp.c:4705`)
can bring back an older ADR after a run has dropped the newer; `GET /api/adr`
creates databases without a project, which query opens avoid (`mcp.c:910`);
`delete_project` does not unwatch, so the watcher may index the project again;
a file that is new in an incremental run has no containment edge until a full
run; parallel runs order nodes by schedule; `merge_update_existing`
(`graph_buffer.c:1066`) lacks the label guard of `cbm_gbuf_upsert_node`; an
artifact from a checkout under another path carries another project name, so
its import is followed by a full run; after a failed metadata write the artifact
is gone and incremental runs stop exporting it; a full run without persistence
leaves an older artifact in place.

The passing properties contain these as named exceptions: `suspect` and
`hidden` in `IndexPipeline`, `excuse` in `Watcher`, `Released` and the clause on `on` of
`CancelTakesEffect` in `Server`, `exact`, `calm` and `Ambiguous` in
`GraphBuild`, `intruded` in `ProjectStore`, `raced` and `unpaired` in
`Artifact`, `spawnFailed` and `lost` in `IndexJobs`.

## 5. Proofs

TLAPS proves the theorems below for every value of the constants, from the
named assumptions of the modules (the bounds are natural numbers, the fast-mode
files are among the files, the auto-index threads are not the other threads,
the marks of an absent or damaged file are no databases).

* `IndexPipelineProofs!TypeCorrect`, `RowsCorrect` (`RowsMatchNodes`). The
  property says nothing while a run is under way and is not inductive. The
  strengthening follows, for each file, the version its row is going to name
  (`Due`: what the second `stat` will find, or the carried row): before the
  load the stored graph of a kept file is that version (`LoadInv`), from the
  load on the buffer holds it (`BufferInv`), and while rows are written the
  database holds the buffer and the rows written so far match it
  (`PersistInv`). An edit changes `Due` of a settled file, which is why such a
  file becomes `suspect`.
* `IndexPipelineProofs!MergeCorrect` (`MergeIsAdditive`), `AdrKept`
  (`FullRunKeepsAdr`), `QuietRunsAreExact` (`QuietRunIsExact`), each from an
  invariant of its own on top of the one above. `MergeInv`: a file leaves the
  buffer only when `find_deleted_files` returned it, and then it was off the
  disk at some moment of the run, which `missing` records. `AdrInv`: from the
  deletion of the old file to the opening of the new one the ADR is in the run
  alone, before and after in the database. `QuietInv`: without a disturbance
  the repository and the stored rows stay as they were at the start, so until
  the classification the files that rows would overlook (`Overlooked`) are
  among `hidden`; from the load on the buffer is right about every file that is
  parsed already and every file that is gone, except the hidden ones on the
  incremental route.
* `WatcherProofs!TypeCorrect`, `ForgetsNothing` (`NothingForgotten`). The
  strengthening speaks of every position of the thread: for each tracked
  project without an excuse, the index is current, or the tree is dirty, or
  HEAD has moved from the recorded one, or the thread stands between having
  noticed and having read the tree. Its hard case is a state that is freed and
  replaced while it is being polled: the poll then works on a state no project
  leads to, and the new state starts without a baseline.
* `ServerProofs!TypeCorrect`, `ExclusionHolds`, `LockIsNeverStale`,
  `ServerImplementsGate`. The inductive invariant `GateInv` counts the threads
  inside: none when the lock is free and was never forced, at most one when it
  is free or was never forced, at most two otherwise, and somebody when it is
  taken. `Exclusion` does not mention the lock and is not inductive: a free
  lock with two inside would let in a third. The refinement maps each step of
  `Server` to the entry or exit of the thread that moved, to the forcing, or to
  a stutter (`StepKinds`).
* `ServerProofs!ReturnLeavesNobody` (`ReturnIsClean`): `JoinInv` says at each
  place of main() which joins are behind it, and `EndedStays` that a thread
  which has ended does not move again. `CancelReaches` (`CancelTakesEffect`):
  `CancelInv` adds that the pipeline `request_shutdown` has read is past the
  lock, because a later one that waits for it has a number of its own.
* `ProjectStoreProofs!StoreTypeCorrect`, `CallsStayInTheirProject`
  (`AnswersOwnProject`), `OwnChangesSeen` (`SeesOwnChanges`), `RunOutputStays`
  (`RunOutputIsVisible`). The invariant `StoreInv` says how the phase of a run
  determines the lock and its record (`RunShape`), that a name leads to a file
  of its own project and no two names to one file (`NamedFiles`), that the file
  of a run that nobody intruded on still has the name (`RunFile`), and what a
  server knows of its connection in each position (`Connections`). The facts
  about forgetting an unreferenced file and about the first unused one are
  lemmas.
* `IndexJobsProofs!JobsTypeCorrect`, `OneJobPerSlot` (`SlotsExclusive`),
  `DashboardVerdicts` (`DashboardTellsTruth`). `JobsInv`: a child is its
  slot's only one and the slot is running as long as it exists (`Owners`,
  `Alone`), and a running slot that no throw has lost has one (`Served`);
  a slot is on record as `succeeded` exactly when its child has ended with 0
  (`Codes2`); a finished slot has a true status (`VerdictsTrue`).
* `ArtifactProofs!ArtifactTypeCorrect`, for any processes; for the clients of
  one process (`SameProcess`) `RowsAreTrue` (`RowsTellTruth`), `AnswersStay`
  (`AnswersHold`), `PairStays` (`PairMatches`). `ContentInv` says of every file, of what each client carries
  and of the temporary copy of the client with the lock that it is `Sound` for
  its project, and a full run that is alone with a raced project makes it so
  again (`ContentCleared`); `DumpInv` that nothing but a racing import comes between a dump
  and its rows; `AnswerInv` that a database replaced after a run wrote its rows
  is followed by the run of the call that replaced it, which still waits;
  `PairInv` that between its two files an export has the first in place. The
  assumption is needed: two processes mix the files of one artifact (section 4).
* `GraphBuildProofs!TypeCorrect`, `OwnersCorrect` (`OwnerDefines`), for any
  files, texts and workers. The passes are loops over sequences of any length,
  and the library's induction theorems take an operator as a parameter. `Loop`
  has the step of the loop as a CONSTANT instead: its lemmas (`FoldStages`,
  `FoldStays`, from the least number at which a loop would leave its stages)
  hold for every INSTANCE, one per pass. On top of them, what each pass keeps
  and what it adds (`...Leads`) are lemmas about buffers. `Owns` adds to the
  type invariant where each phase stands (`RunOK`: the files to do exist, each
  once, and have their nodes; the workers are idle outside their phases) and
  that in every buffer, the workers' included, a definition belongs to a file
  of this run or to one that did not change (`OwnersOK`): `OwnerDefines` speaks
  of the database alone, and what `Finish` stores comes from the buffer.
* `GraphBuildProofs!EdgesSurviveTheRun` (`EdgesSurvive`). It speaks of one
  step, `Finish`, and of what the purge and the passes left for it. `RestKept`
  says that the nodes and edges of unchanged files which the load brought stay
  through the passes, first of all with their ids, and `IdsOK` that no file or
  definition shares its id with another node: `Dump` names an end by the last
  node with its id. That is where `shared_ids` could do harm (section 4): ids
  are dealt twice, but only to channels and routes. Edges into changed files
  come back through `saved`.
* `GraphBuildProofs!FullRunsAreExact` (`FullRunIsExact`), for any files, texts,
  number of workers and schedule. `Means(b, X)` says that the edges of a
  buffer, read as pairs of names, are those of `X`; lemmas (`...Comes`) say
  what each pass adds to such an `X`. `Exactly` follows the phases of a run
  of either kind, from the edges it begins with (`Base`): what the main buffer
  means so far (`EdgesOK`), that every name in the registry has a node
  (`RegistryOK`), that each file before `next_file_idx` is done or a worker is
  at it, and for the second round which edges each worker has found, in names
  of the main buffer (`DefsOK`, `CallsOK`: the union over the workers is what
  all files call, whoever took which), that the dump finds the right node for
  every id but a channel's (`LastOK`), and what the run is about (`BegunOK`).
  The two merges are the hard steps: a worker's ids are its own, and an edge of
  a worker may end at a node that another worker has made under the same name
  (`MergeMeans`).
* `GraphBuildProofs!IncrementalRunsAreExact` (`IncrementalIsExact`), from the
  same `Exactly`, in which an incremental run begins with the stored edges
  between what no edit touched. `ShapeOK` says that while only bodies were
  edited the texts have the files and definitions of the indexed ones, and
  `StoredOK` that the database then is `Faithful` to the indexed texts at all
  times, not only when it is `Current`: the property speaks of states without
  pending edits and is not inductive. When a run ends (`IncrementalAgrees`) an
  edge of the new meaning is found by a pass, or was stored and purged and is
  captured, or was stored and kept; and what is kept is an edge of an
  unchanged file, which means the same as before. That rests on two facts
  about names that are clear: every name has one file, which is the file of its
  node (`Placed`, a part of `Owns`), so the purge takes what belongs to changed
  files and nothing else; and a name resolves by the set of names in the
  registry alone (`ResolveAlone`), so the registry of an incremental run, in
  another order, gives the same answers (`SteadyRegistry`). Both fail for
  ambiguous names, as section 4 shows.

Each proof has one step per action; facts used by several are lemmas
(`MovesKeep`, `MovesIn`, `MovesOut` say what a move of one thread does to
`Inside`).

Only model-checked: the liveness properties (`RunTerminates`, `DirtyIsIndexed`,
`StopEnds`, `ShutdownEnds`, `SilentClientReleases`, `JobsEnd`,
`StatusConverges`), which rest on fairness and are outside what the prover
handles; the refutations.

## 6. Not modelled

`PROJECT.json` lists every component with its status. Left out for good: the
extraction library, the Cypher engine, semantic search, layout, the installer
and the dashboard's components compute results from inputs without shared
state; their cases are languages and formats. They, the generated tables of the
language servers and the grammars are most of the lines of the repository. The
queries of the store (`store.c`) are SQL over one connection; glob matching and
the language tables are string work.

Left out of the modules that exist: edits during a run outside `IndexPipeline`;
the cancellation between two items of the worker pool; import maps and type
inference in the resolution; the write of the two artifact files is one step
each (`write_file_atomic`); the log file of index jobs.

## 7. Plan

Done: `IndexPipeline`, `Watcher`, `Server` with `IndexGate`, then
`ProjectStore`, `GraphBuffer` with `GraphBuild`, `Artifact`, `IndexJobs`, in the
order in which a wrong step would cost the user most.

Open, in order of importance:

1. A composition of `Watcher` and `ProjectStore` in which a project is deleted
   while it is watched, and in which the ignore rules change between runs.
2. That `IndexPipeline` implements a database that changes in one step when
   nothing fails.
3. The resolution of `registry.c` with import maps, as operators checked
   against a reference definition.
