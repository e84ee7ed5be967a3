# Verification of trellis-dash

trellis-dash is a local observer.  One Go process watches the `.trellis`
directory and the Git repository of each registered project, indexes them into a
SQLite cache, and serves the cache over a REST API to a React page that polls
small revision numbers and reloads what changed.  Nothing of it is distributed;
what makes it hard is that everything moves at once: the user's editor and agents
write the files while they are scanned, handlers and workers share the cache, the
page has requests in flight while the data changes, other programs (git,
codegraph, codex) write what the process reads, and the process itself is stopped
and killed.

This directory holds TLA+ modules of those parts, TLC runs that check them on
small instances, and TLAPS proofs of what they check, for instances of any size.  Paths below are relative to the
repository; a property's comment in its module names the lines it is about, and
`PROJECT.json` maps every definition to the code it stands for.

## 1. Inventory

| Component | State | Operations | Talks to |
|---|---|---|---|
| Project supervisor (`internal/app/supervisor.go`) | the map of runners, each with its context, worker, watcher, pending changes | `Start`, `Stop`, `Register`, `Ensure`, `Remove`, `Rescan`; the worker's scans and Git refreshes | scanner, inspector, watchers, store |
| Process (`cmd/trellis-dashboard/main.go`) | what stage it is in | start, register the configured projects, serve, shut down | all |
| Project API (`internal/api/projects.go`) | `projectsMu` | create, delete, rescan, revisions | store, supervisor |
| Project registry (`internal/store/project_registry.go`, `store.go`) | `projects` table, sidecar file | upsert, delete, open and recover, check before opening | file system |
| Index cache (`internal/store/snapshot.go`) | rows, resource hashes and revisions of each project | one transaction per kind of change | supervisor |
| Store queries (`internal/store/queries.go`) | none | reads for handlers; Git snapshots | handlers |
| Trellis scanner (`internal/trellis`) | none | `Scan`, `ScanTask`, `ScanSessions`, ..., `RevalidateContextEntries` | files |
| Watchers (`internal/watcher`, `internal/streamwalk`) | watched paths, or the stamps of the last poll | event loop, metadata polling | files, supervisor |
| Git inspector (`internal/gitstate`) | a semaphore of command slots | `Snapshot`, `Push`, `Diff`, `Commits` | git |
| Git API (`internal/api/git.go`, `git_cache.go`) | cache of results | diff, commits, push | inspector, store |
| CodeGraph operations (`internal/codegraph/sync.go`) | one record per project | `Start`, `run`, `Operation` | codegraph command, page |
| CodeGraph reader (`internal/codegraph/reader.go`) | cache of checked schemas | `Fingerprint`, `open`, queries | the index another program writes |
| Codex usage (`internal/codexusage`) | entries of parsed logs, in memory and in a file | `Summary` | logs Codex writes |
| HTTP caching and polling (`internal/api/tasks.go`, `response.go`, `frontend/src/api/client.ts`, `frontend/src/hooks`) | response and ETag cache, last revisions | fetch, poll, invalidate, retry | handlers |
| Pages (`frontend/src/pages`) | the pages of a list read so far, the operation that is followed | infinite queries, load more, refetch | handlers, polling |
| Configuration, security checks, directory picker, embedded files | none that outlives a request | | |

Hard behaviour, and what makes each part correct:

- **Supervisor.**  Runners are replaced, removed and stopped while their
  workers scan.  Never two workers of one project; nothing left behind by
  `Remove` and `Stop`; an accepted rescan is answered; calls return.
- **API and process.**  Clients disconnect in the middle of a handler, rescans
  do not take the mutex.  What is stored is observed; what was deleted stays
  quiet; rows come from the registered root.
- **Registry.**  Two files and no transaction over both.  A mutation answered
  with success survives, a failed one never happened, a crash settles it.
- **Index.**  Scans read for a long time while files change, incremental scans
  do several transactions and may stop between them, changes are lost on errors.
  Hashes that skip work are true, what changes is announced, and the cache ends
  up showing the disk.
- **Watchers.**  A poll or a walk sees a tree that never existed at one moment.
  No change is missed for good.
- **Scanner.**  Full and incremental scans, and the revalidation of stored
  entries, each recompute a part of one result.  What they piece together is what
  a full scan finds, and tasks never share a key.
- **Polling.**  Several caches between store and screen.  A current ETag never
  vouches for an old body, and the page ends up showing what is stored.
- **Lists.**  They are read page after page while tasks move and events arrive
  and are pruned.  No event is missed or doubled, and the board settles on what is
  stored.
- **Git.**  Several commands make one snapshot, several snapshots share the
  slots, results are cached under a revision.  Nobody waits for ever; what is
  cached belongs to its key; "pushed" is true.
- **CodeGraph and Codex.**  The files belong to other programs that write when
  they like.  One command per index, an operation that ends and is reported, a
  cache that is true.

The full list of hazards, each at its line and with the properties that watch
it, is in `PROJECT.json`.

## 2. Modules and the code

| Module | Models | Composes |
|---|---|---|
| `Supervisor` | `internal/app/supervisor.go`: runners, workers, watchers, callers | |
| `ProjectLifecycle` | `main.go` and `internal/api/projects.go` around the supervisor, with crashes and restarts | EXTENDS `Supervisor` |
| `IndexCache` | the worker's scans as they interleave with changes, every transaction of `snapshot.go` | implements `RevisionedStore` |
| `TrellisScan` | what `internal/trellis` computes: keys, context entries, sessions, phases; by full scans, incremental scans and revalidation | |
| `Indexing` | the two halves of indexing | EXTENDS `IndexCache`, INSTANCE of `TrellisScan` |
| `RevisionedStore` | abstract: no view changes unless a revision that covers it goes up, and which revision covers what | |
| `RevisionPolling` | handlers of six views with ETags, the client's cache, React Query, revision polling | INSTANCE of `RevisionedStore`, for what the store announces |
| `Paging` | `ListTasks` by offset, `ListActivity` by event, `pruneActivity`, the infinite queries of `TasksPage` and `ActivityPage` under polling | |
| `ProjectRegistry` | the sidecar, the database and its WAL, `Open`, crashes | implements `RegistryPromise` |
| `RegistryPromise` | abstract: what a mutation's answer means | |
| `MetadataPolling` | the watcher of macOS and the BSDs | |
| `EventWatching` | the fsnotify watcher of Linux and Windows | |
| `Watcher` | `Watcher.run`, which takes one of the two by the platform | INSTANCEs of both |
| `GitSnapshot` | `Inspector.Snapshot` with its slots and workers | |
| `GitPush` | `Inspector.Push` | |
| `GitCache` | `git_cache.go`, `getDiff`, the snapshots that raise the revision | |
| `GitService` | what the process does with repositories: snapshots, pushes, diffs | EXTENDS `GitSnapshot`, INSTANCEs of `GitPush` and `GitCache` |
| `CodeGraphSync` | `sync.go`, the two handlers, `CodeGraphPage.tsx` | |
| `OpenPage` | a page with state of its own: the CodeGraph page, or one with a list | EXTENDS `CodeGraphSync`, INSTANCE of `Paging` |
| `CodeGraphReader` | `reader.go` against a writer of the index, and the polling of its fingerprint | |
| `CodexUsage` | `service.go`, `cache.go`, `parser.go` | |

`Indexing`, `GitService`, `OpenPage` and `Watcher` join modules that share no
state: a behaviour is one of the first or one of another, chosen at the start,
while the others stand still.  So a run of theirs checks each of the joined modules
by itself, within its own bounds; it shows nothing of their interaction, which
is in the modules where there is any (a push's effect on the cached diffs is a
step of `GitCache`, what a scan finds is the version it reads in `IndexCache`).

Each `...Proof` module holds the theorems about the modules it EXTENDS:
`LifecycleProof` (`ProjectLifecycle` and the `Supervisor` it extends),
`StoreProof` (`Indexing`, and beside it `ProjectRegistry`),
`GitServiceProof`, `PollingProof` (`RevisionPolling`),
`OpenPageProof`, `WatcherProof`, `CodeGraphReaderProof` and `CodexUsageProof`;
section 5 says what they prove.

An `MC...` module holds what TLC needs (symmetry sets, the constants of an
instance); the `.cfg` files beside it are the runs.

How code becomes state and steps:

- A Go function that runs under a mutex or in one SQLite transaction is one
  action.  A function that reads a file, waits on a channel, runs a command or
  reads the store twice has one action for each of these, in the order of the
  code, with a program counter (`pc`, `phase`, `job`) between them.  An early
  return or an error is a branch of the action it happens in.
- **Supervisor.**  `runners` is the map, `phase[r]` the worker goroutine of
  runner `r`, `watching[r]` its watcher, `previous[r]` the runner whose `done`
  it waits for, `cancelled[r]` its context, `pc[c]` where a caller of the API
  is.  `register` is shared by `Register`, `Ensure`, `Start` and `Rescan`, as in
  the code.  `ProjectLifecycle` adds `stored` (the projects table), `indexed`
  (the root the cached rows come from) and `mu` (`projectsMu`), and two history
  variables: `skipped`, projects stored and never registered, and `revived`,
  projects a rescan registered although they had been deleted or moved.
- **IndexCache.**  `disk` is what the files say, `rows`, `flowRow`, `sessRow`,
  `specsRow`, `gitRow` what the cache says, `hash` and `rev` the hashes that
  skip work and the revisions that announce it, `job`, `left` and `snap` the scan
  in progress.  A step that reads the cache and writes it in a later transaction
  of the same worker is merged where only that worker writes those rows.
- **TrellisScan.**  `tree` is the files, `index` what the scans have found,
  `unseen` what changed since it was last looked at.  A scan is one step here, with
  all that the code computes in it: keys (`assignUniqueTaskKeys`), entries and
  their duplicates, sessions and which of two is newer, the derived phase.
- **RevisionPolling.**  `views` are those of the page that is open, chosen at the
  start.  A part of the store carries the number of the last
  transaction that changed it.  A handler is `ReadParts`/`ReadEarly`,
  `ReadRevisions`, `ReadLate`; the client is `Receive`, `ReceiveNotModified`,
  `Fail`, `Evict`, `Retry`; the hook is `PollRead`, `PollDeliver`, `PollLost`.
- **Paging.**  `column` is a column of the board in the order of the query,
  `log` the stored events, `pages` what the page shows, `fetch` the fetch of all
  or of one more page.  Counting and selecting are two steps, as in `ListTasks`;
  a page of events is one.
- **ProjectRegistry.**  A mutation is `Ask`ed, writes the sidecar, commits or
  puts the old sidecar back; `Open` checks, migrates and recovers.  The main
  database file and its WAL are apart because the check before opening ignores
  the WAL.
- **Watchers.**  `MetadataPolling` visits path after path, each stat a step.
  `EventWatching` keeps the queue of fsnotify (a set of events, each with the number
  of its change, which is their order), the walk in progress and the debounce
  timer.
- **Git.**  `GitSnapshot` has one action for each command's slot, run and end;
  what git prints is the value of the repository at the moment of the command.
  `GitPush` has the three commands of a push.  `GitCache` is the single flight:
  `Hit`, `Join` or `Miss`, load, store, wait.
- **CodeGraph, Codex.**  Stat, open, check, query, deliver; lookup, record, run,
  end; discover, parse, save, add up.

`PROJECT.json` lists what is modelled in full, in part or not at all.

## 3. Runs

One run for each module, or modules joined, that has a specification of its own,
with its safety and its liveness properties, and one for each finding.  The
passing runs explore the whole state space of their instance; each takes from a
few seconds to two and a half minutes.

| Run | Module | What it shows | Instance |
|---|---|---|---|
| `lifecycle` | `Supervisor` | no two workers, nothing left behind by `Remove` and `Stop`, accepted rescans answered; every call returns, every registered runner starts or is cancelled | 1 project, 2 callers, 2 runners; fair |
| `api_lifecycle` | `ProjectLifecycle` | rows from the own root, a deleted project stays quiet, a stored one is observed | 1 project (and the zero project), 2 roots, `main` and 2 clients that create, delete, rescan and disconnect, 2 runners, crashes |
| `rescan_revives` | `ProjectLifecycle` | the first finding below | the same without disconnects |
| `index` | `Indexing` | the hashes are true, what changes is announced (`RevisionedStore`), the cache ends up showing the disk; keys are unique, scans piece together what a full scan finds | the cache: 1 task, 2 versions of a file, 2 edits, 1 failure, fair; the scanner: a task name active and archived, manifests of up to 2 lines on 1 target, 2 sessions, 2 changes |
| `polling` | `RevisionPolling` | a current ETag never vouches for an old body; the page ends up current in what its ETags cover | the list of tasks, the sessions, the detail, the workflow, the dashboard, the Git status, each on a page of its own; 2 transactions, 1 failure; fair |
| `list_phase` | `RevisionPolling` | the second finding below | the lists of tasks and of sessions, 1 transaction, no failure; fair |
| `registry` | `ProjectRegistry` | the registry keeps `RegistryPromise` | 2 ids, 2 roots, 3 mutations, 1 failed write, any number of crashes |
| `watching` | `Watcher` | what a poll missed is announced by a directory it saw; every change is reported; an idle event loop that no error has ended has missed nothing and watches everything | 4 edits while polling with 1 failure, 6 edits under fsnotify; polls are fair |
| `git` | `GitService` | slots are kept, quiet repositories exact, errors deterministic, snapshots end; what a push calls pushed is in the upstream of its branch; one load, the bound, fresh answers, requests end | 1 snapshot of 2 files and 2 worktrees on 2 slots, 1 edit, 1 failure; pushes with 2 branches, 2 refs, 2 commits; 2 requests for diffs, each made once, 1 entry, 1 root, 1 edit among 3 contents of which two have one hash, 1 recreation; fair |
| `open_page` | `OpenPage` | one command at a time and recorded, operations end and are seen, also when a status or the answer to a start is lost; no event missed or doubled, the board shows what is stored, lists converge | 2 commands, 2 tabs, 1 failure; 3 tasks, or events up to number 5 of which 3 are kept, pages of 1 entry, 2 transactions; fair |
| `codegraph_reader` | `CodeGraphReader` | answers not older than the question, the schema cache true; the page follows | 1 request at a time, 2 commits, 1 loss of the shared memory; fair |
| `codex_usage` | `CodexUsage` | nothing missed, nothing twice, entries true to their fingerprint | 1 log of 2 whole lines, 2 callers, 2 failures, restarts |

Why the bounds are enough.  Every hazard listed needs one writer and one or two
readers, and one change at each step of the reader; the bounds give each of them
at least that, and one more where the order of two changes matters.  Two runners
are one that is replaced and one that replaces it; what a third one adds, a
runner that waits for one that waits, is covered by the proofs, which hold for any
number; so is what larger numbers add to the other modules, as far as section 5 goes.  A project deleted and created again, and revived by a rescan, takes two
runners as well.  Two mutations give a registry a past, a present and a future
value; a third lets one follow a recovery.  Six edits let a directory of two
levels be created, removed and created again while the first creation is still
being walked.  One snapshot is enough because `SnapshotEnds` never assumes that
a slot becomes free: others may hold them for ever.  A page of one entry puts a
border between any two neighbours, three tasks or three kept events give a list
more than two pages, and with the second transaction one falls before and one
after a page.  A name active and archived is a collision of keys, two lines a
duplicate, two sessions a choice of the newer.  Counters (runners created,
edits, transactions, events, commits, failures) are bounded by constants named
`Max...`, `PollEdits` and `EventEdits` in the guards; nothing else is.  Larger
instances that are no run of the project, since they take longer, hold as well:
`RevisionPolling` with lists and workflow on one page, `Paging` with 3 transactions
and pages of 2, `TrellisScan` with two months of archive.

`CHECK_DEADLOCK FALSE` is set in the two runs where the system really stops: the
polling watcher ends when its first poll fails, the event loop waits for changes
and the page of the reader for the next commit, both of which are bounded.

`PROJECT.json` lists for every property a plausible mistake in the code under which
its run fails.  The mistaken definitions stand in the modules before the ones
they are a version of.

### Findings

`rescan_revives` ends in a counterexample.  `Supervisor.Rescan` reads the project
(`supervisor.go:276`) and calls `Ensure` later (`:290`) without `projectsMu`.  When
`deleteProject` runs and returns in between, `Ensure` starts a runner for a project
that is deleted, and nothing removes it until the process stops; `:250` promises
that a removed project writes no more.  `DeletedStaysQuiet` shows that this is
the only way back.

`list_phase` ends in another.  A transaction of `ReplaceSessionSnapshot` changes
phases and active sessions of tasks and raises the revisions of the sessions and of the
activity, not that of the tasks.  The polling page invalidates the list of tasks
for it (`useProjectPolling.ts:58`), but the ETag of the list is made of the tasks
revision (`tasks.go:41`): the server answers 304 and the page shows the old phase.

### Where the code falls short

The properties of the passing runs leave some cases out, each named in their
comments, because the code does not do better there.  Without the exception TLC
finds the counterexample within a minute or so; nothing in the models prevents the case.

| Property | Left out | What happens then |
|---|---|---|
| `StoredIsObserved` | clients that disconnect during `createProject` (`skipped`) | `projects.go:97` drops the error of `GetProject`: the zero project is registered, the stored one is not observed until it is created again or rescanned |
| `FactsComeTrue` | the derived phase of a task | `incremental.go:81` keeps the phase of a task with an active session, and the task's hash leaves it out: it stays wrong through later full scans |
| `IncrementalAgrees` | a `.trellis` that is a symbolic link (`Linked`), which `path.go:53` allows | `incremental.go:101` joins the root and the logical path of a session, so that an incremental scan finds every session stale until the next full scan |
| `IncrementalAgrees` | lines that are not well formed | `context_revalidate.go:37` works from the stored entry, which has forgotten the bad reason or type, and makes it valid |
| `IncrementalAgrees` | keys a deletion sets free | a task keeps its key with a digest until the next full scan |
| `CoveredConverges` | what a view reads before its revisions, and what its ETag does not cover | `tasks.go:58` reads the task before the revisions; for the list, see `list_phase` |
| `CoveredConverges` | a fetch that fails with all its retries (`MaxFaults`) | the revisions have been taken note of: the view stays old until they change again |
| `CoveredConverges` | a change before the first poll (`Loaded`) | `useProjectPolling.ts:37` compares the first revisions with nothing |
| `CoveredConverges` | answers to cancelled requests (`LateAnswers`) | `client.ts:151` caches them over newer ones |
| `BoardIsExact`, `PagesConverge` | asking for more while a refetch is under way (`LoadsDuringRefetch`) | `fetchNextPage` (`TasksPage.tsx:84`) cancels the refetch; the pages read before stay as they were, with tasks missing or doubled |
| `KeepsPromise` | that the service starts | the check before opening (`store.go:264`) ignores the WAL: a project moved to another root shortly before a kill makes it refuse (`phase = "refused"`) |
| `ChangesAreReported` | a directory replaced by a file | `ENOTDIR` (`watcher.go:608`) fails this poll and every later one |
| `NothingMissed` | an error of `native.Remove` (`stopped`) | for a watch that the system has ended and fsnotify still has, the error (`watcher.go:346`) is returned by the loop (`:183`); the supervisor logs it (`supervisor.go:364`), and only the periodic scans find changes until the project is registered again |
| `NothingMissed` | a walk that gave up | a directory that goes while it is walked ends the walk (`watcher.go:284`); those beside it are not watched |
| `AnswersAreFresh` | edits that are undone or keep the line counts (`snapshotHash`) | not an exception but what "fresh" means: the next snapshot gives no new revision, and a cached diff of before the edit is served (`git.go:104`); it is as old as the last revision at most |
| `AnswersAreFresh` | keys a request uses whose project moved to another root (`crossed`) | the root is read before the generation (`git.go:97`): the diff of the old root is cached under the new key |
| `QuietIsExact` | a repository that changes meanwhile | the commands of one snapshot see different moments (`inspector.go:107`) |
| `PushedIsThere` | a checkout during the push (`switched`) | HEAD, not the branch that was read, goes to the upstream (`inspector.go:421`) |
| `OperationEnds`, `OwnRunIsFollowed` | a child that keeps the output open (`OutputIsHeld`) | `sync.go:126` waits for it past the timeout |
| `OwnRunIsFollowed` | a run whose start was not answered and that changes nothing (`unheard`) | `CodeGraphPage.tsx:134` shows a message and asks for no status: the page learns of the run when the index changes or the window gets the focus |
| `OwnRunIsFollowed` | a status under way when the operation starts (`LateAnswers`) | it overwrites the started operation, and polling stops (`CodeGraphPage.tsx:129`) |
| `PageFollows` | the loss of the shared memory | the fingerprint leaves it out (`reader.go:83`) |

An index read as immutable (`reader.go:362`) can also be written to during the
read, so that one query sees pages of two commits; `CodeGraphReader` allows it,
and no property excludes it.

## 4. Assumptions

Fairness is given only to what runs by itself:

- Go schedules every runnable goroutine (weak fairness of each internal step of
  a worker, a handler, a caller).  A worker's `select` takes a ready case
  infinitely often if it is ready infinitely often, because Go picks at random
  among the ready ones: strong fairness of `AcceptRescan`, of `RescanTimer` and of
  `RefreshGit`.  Timers and tickers fire again and again.
- A scan ends: it is bounded by the budgets of the scanner.  A git command ends
  only once its context is done; `exec.CommandContext` kills it then, and
  `GitSnapshot` takes it that a killed git closes its pipes.
- A request is answered or fails (the client of the browser gives up), and polls
  repeat while the page is visible.
- Nothing is assumed of users, files, other programs or failures: they may stop.

Assumptions about the data, each also in its module:

- Two changes of one file leave it with different stamps.
- `DeletedStaysQuiet` is about a process that is not shutting down: while `Stop` runs,
  a deletion may return before the worker is gone, and the process ends.
- `LateAnswers = FALSE` means in `RevisionPolling` that an answer takes less than
  a polling interval, in `CodeGraphSync` that no status is under way when an
  operation starts.
- `TrellisScan`: a scan reads the tree of one moment (that files change
  meanwhile is part of `IndexCache`); the digests of paths do not collide; task
  directories are not nested.
- `Paging`: a 304 stands for what the query would answer; the page has read its
  first page and polled once.
- In `RevisionPolling` a transaction changes all the parts it may change, which
  is the worst case for a reader.
- `MaxFailures = 1` in `ProjectRegistry`: putting the old sidecar back is
  best effort, and fails if a second write fails.  The loss of the database
  assumes that the sidecar is durable (`fsync` and rename).
- `GitCache`: a project has three contents, two of which look alike to the hash.
  Which entry is evicted is left open.  An answer is fresh when it shows
  the tree at some moment since the first snapshot was read that gave the stored
  revision; snapshots that find the same hash do not count.  The run `git` has one
  root, so that nothing is `crossed` in it, and each request is made once; the
  theorem is for any number of roots, edits and registrations.
- `CodexUsage`: logs are archived, never restored; one directory is read at
  one moment; the session is in the first line.
- `CodeGraphSync`: the page is visible.
- `CodeGraphReader`: the WAL is reset only when no frame is missing in the
  database.
- `EventWatching` starts when the initial paths are watched.  That fsnotify drops
  queued events of a watch that ended, except one in flight, is taken from it.
  Whether it has noticed by itself that the system ended a watch is left open, so
  that removing such a watch succeeds or fails (`TakeRemove`).
- `GitSnapshot`: one command sees one moment; a changed file has one line; no
  staged files in a repository without commits.  Parse errors, output limits and
  the limit on worktrees are command failures.  `GitPush`: upstreams are not
  reconfigured during a push, and branches are not reset.

## 5. Proofs

The theorems hold for every value of the constants that the assumptions allow:
any number of projects, callers, runners, tasks, requests, commits, edits and
failures, where the runs have two or three of each.

| Module | Theorem | Property |
|---|---|---|
| `LifecycleProof` | `TypeCorrect`, `OneWorker` | `TypeOK`, `AtMostOneWorker` |
| | `UnmappedQuiet`, `StoppedQuiet` | `UnmappedIsQuiet`, `StoppedIsQuiet` |
| | `DisplacedCancelled`, `AcceptedAnswered` | `DisplacedIsCancelled`, `AcceptedIsAnswered` |
| | `NobodyIsStuck` | `WaitsMove`: what `CallsReturn` rests on, apart from fairness |
| | `HandlersNeverStuck` | the same through crashes, with `HolderMoves` for the holder of `projectsMu` |
| | `CachedRows`, `DeletedQuiet`, `StoredObserved` | `CachedFromOwnRoot`, `DeletedStaysQuiet`, `StoredIsObserved` |
| `StoreProof` | `HashesDescribe` | `HashesDescribeCache` |
| | `CacheAnnounces` | `ChangesAreAnnounced`: `IndexCache` implements `RevisionedStore` |
| | `KeysStayUnique` | `KeysAreUnique` |
| | `ScansAgree` (no symbolic link, well-formed lines) | `IncrementalAgrees` |
| | `RegistryKeepsPromise` (with at most one failed write) | `KeepsPromise`: `ProjectRegistry` implements `RegistryPromise` |
| `GitServiceProof` | `PushedArrived` | `PushedIsThere` |
| | `LoadsAreSingle`, `FreshAnswers` | `OneLoad`, `AnswersAreFresh` |
| | `FirstErrorReported`, `QuietSnapshots` | `FirstErrorWins`, `QuietIsExact` |
| `PollingProof` | `TagsDoNotLie` | `ETagDescribesBody` |
| | `StoreAnnounces` | what the pages see of the store is a `RevisionedStore`, between a registration and a deletion |
| `OpenPageProof` | `RunsAreRecorded` | `RunningIsRecorded` |
| | `ActivityHasNoGaps`, `BoardStaysExact` (without `LoadsDuringRefetch`) | `NoGaps`, `BoardIsExact` |
| `WatcherProof` | `PollingOverlooksNothing`, `WatchingMissesNothing` | `UnknownIsAnnounced`, `NothingMissed` |
| `CodeGraphReaderProof` | `AnswersAreRecent`, `CacheVouches` | `NotOlderThanAsked`, `CacheIsTrue` |
| `CodexUsageProof` | `TrueEntries`, `CurrentAnswers` | `EntriesAreTrue`, `AnswersAreCurrent` |

Hardly one of these properties is inductive.  What each proof adds to it is
what the code relies on without saying so.

**Supervisor.**  That two workers of a project never overlap rests on how
runners are chained.  `IInv` is `TypeOK` with

- `UsedInv`, `Predecessor`, `MapNewest`: runner numbers grow; a runner waits
  for an older one of the same project; the mapped one is the newest;
- `Serial`: of two runners of one project, the newer one has not entered
  `runProject` while the older one is alive; this gives `OneWorker`;
- `Reachable`: a live runner is the mapped one or is awaited, along the
  chain of predecessors, by it; this gives `UnmappedQuiet` and `StoppedQuiet`;
- `MapInv`, `WatchInv`, `DisplacedIsCancelled`: nothing is mapped under no
  context; a watcher outlives no worker; a displaced runner is cancelled;
- `WaitInv`, `ServeInv`, `AcceptedIsAnswered`: what `Remove`, `Stop` and `Rescan`
  wait for is what they will find ended.

`Structure` is preserved by four lemmas, one for each way the code changes the
runners (register, launch, exit, cancel), and a frame lemma for the steps that
do not; `InvStep` has one step per action.  TLC found `IInv` to hold before it was
proved.  `DisplacedIsCancelled` is one of its conjuncts and no property of
a run.

Nothing waits in a circle (`NobodyIsStuck`).  A runner queues behind an older one of
its project, which its registration has cancelled (`QueueInv`), so the oldest that is
alive waits for nobody (`OldestMoves`); Remove and Stop cancel what they wait for, and
a Stop that others have joined is under way (`EndingInv`).  With the fairness of the
workers this is why calls return; that step stays with TLC.

**Lifecycle.**  `IInv` holds through crashes as well (`LifeInv` contains it): to the
supervisor, each step of the process is one of its own, a registration by a handler or a
crash (`SupervisorSteps`).  So does what `NobodyIsStuck` rests on (`HandlersNeverStuck`).
`MuInv` says that a handler under way holds `projectsMu`, `AskedInv` what it has
done to the table so far and what it has found mapped.  From then on only a
rescan, which does not take the mutex, can bring in a runner that does not agree
with the table, and the history variable `revived` records that it did.

**Index cache.**  Each hash is stored in the transaction that stores what it
covers, or emptied by it (`TasksHashInv`, `RowHashInv`, `SessionHashInv`), and a
job has read what it commits (`ReadInv`).  The refinement goes transaction by
transaction: one that changes a view names a resource that covers it, and one
that changes none may raise what it likes.  Which revision announces what is one
table, `Covers` of `RevisionedStore`, and `RevisionPolling` uses the same: what a page
counts on (`StoreAnnounces`) is what the cache does (`CacheAnnounces`), for all parts
the two have in common.

**Scans.**  `AssignKeys` is defined by itself, as the loop builds its map: that there is
such a map follows from the first directory of each name, which has the name as key
(`KeysGiven`); that two directories never share a key, from the digests
(`KeysUnique`).  Between scans keys are unique and active tasks have plain ones
(`KeyInv`): an incremental scan keeps the keys of the rows it has, and leaves a directory
it does not know to a full one.  For `ScansAgree`, `ScanInv` adds what the rows owe to
the files: the status of a task and its entries are what a scan would read, except where
a change is still to be scanned (`RowsInv`); and, as sessions are scanned after the tasks,
no change of a task is left when none of a session is, and the sessions then have
the keys of the rows (`SessionsInv`).  That keys are distinct is what makes
these the sessions of one task, and the latest of them its own.

**Project registry.**  What a caller sees is `projects` and `undecided`, which the
mapping takes for `pending`: of a running store the database and the mutation under way,
of a stopped one the durable sidecar and a renamed one that is not durable yet.
`MutationInv` says, for each step of a mutation, that the database is still what
the mutation found and which of the two sidecars says what; `RestoreInv` the same
of the restore in `Open`.  So whatever a crash or a power loss leaves is one of
the two values a caller saw (`Survivors`), and the loss of the database files
changes nothing of it.  Before the first sidecar is durable nothing has been
committed by this store (`RegistryInv`).  Every step of the registry is a step
of the promise or none (`Kept`).

**Git.**  The three services share no step (`Parts`), so each has an invariant.
For a push: what it wants only grows with the branch, and the ref it was given
is the upstream of that branch.  For the cache: a load and its entry belong
together (`LoadInv`).  For `FreshAnswers`: requests that share a key nobody crossed
have read one root (`RootInv`), the tree as it is counts among those since the
stored snapshot (`HashInv`), and what is cached or loaded under the present key is
fresh for whoever comes (`FreshFor`); no newcomer gets an older key.  For a snapshot: the
results there may be where it stands, with the count of the slots (`SlotInv`),
and how exact it is so far if the repository has been in one state since it
began (`Progress`).

**ETags.**  Within a generation revisions only grow, so the tag of a response is
never of the future (`Past`), and one that has been passed does not come back.
What a tag made of revisions covers is read after it, and a transaction that
changes any of it raises one of them (`Announced`); a hashed tag is the body
(`Vouched`).  `StoreAnnounces` adds that each part a view shows is announced by revisions
the view reacts to (`ShownIsWatched`).  `RequestInv` follows a request through its handler: nothing that the
tag is to vouch for has been read before there is a tag.  The theorem does not
depend on `LateAnswers`: what late answers break is `CoveredConverges`, never this.

**Pages.**  `GapInv`: the pages read so far, and those of a refetch under way, are
ordered, and have every stored event between two of theirs; the cursor is the
end of the last page.  Pruning takes from the old end of the log, never from
between.  `BoardInv`: the revision the page has seen is never of the future
(`Past`); while it is the present one, the pages lie end to end on the stored
column (`Chain`), and what a refetch has got so far does (`FetchChain`).

**Polling watcher.**  `Announced`: the stamps of a poll have a path or an outdated
directory above it.  It holds of `previous` between two polls; of the stamps of a walk
under way, up to what the walk has still to come to (`Coming`); and a poll of
known paths that found no directory changed hands on what `previous` had
(`Comparing`).  An edit keeps it because it gives the directory of what is new
a time nobody has seen (`Edited`).

**Event watcher.**  A directory that is not watched is in front of the loop
(`Covered`): it is in the walk, or below what the walk has still to open, or its
creation, or its task's, is in the queue, with no removal behind it.  What makes
that last is what the queue looks like.  The root is always watched, so the
comings and goings of a task are all in it, in turns (`TurnInv`).  What a task
reports after it went comes after its return (`LeafInv`), so that taking the
removal drops it with the watches, except for one event that
may be on its way, which can be none of these.  A directory that is still
known though its watch has ended has its removal in the queue (`KnownInv`): no walk
takes it for watched before it is forgotten.  A change nobody reports is one in a
directory that is not watched, and then the loop is not idle
(`EditReported`).  A loop that an error has ended takes nothing up again
(`StoppedInv`), and is the other case of the invariant.  TLC found `EventInv` to hold, with 7 changes, before it was proved.

**CodeGraph reader.**  The files only grow and each change shows in their times
(`Grows`), so that a main file opened as immutable with no WAL and found
unchanged has been read in one state (`RequestInv`); the entry of the schema
cache was made from such a read (`CacheInv`).

**Codex usage.**  An entry has at least the events under its fingerprint and at
most those of its log (`Sound`).  Logs move in one direction, the one in which
the two directories are read, so that none slips behind the reader (`FoundInv`).

What the theorems assume, besides bounds that are natural numbers and a `None`
that is no datum (`...Assumption` in the modules, which TLC evaluates on the
instances of the runs):

- `RegistryKeepsPromise` is stated for `MaxFailures <= 1`: when a write of a
  mutation fails and the one that puts the old sidecar back fails as well, the next
  start restores what was answered with an error (`project_registry.go` joins
  the two errors and can do no more).
- `PagesAssumption`: a page shows views there are.
- `BoardStaysExact` is stated for `~LoadsDuringRefetch`: section 3 says what happens
  with it.
- `SlotsAssumption`: there is a slot.  `SessionsAssumption`, `SnapsAssumption`: the
  sets of logs and of snapshots are finite, as everything in the process is.
- `ScansAgree` is stated for `Linked = FALSE` and `WellFormed` lines, the first two
  divergences section 3 names for `IncrementalAgrees`; the third is an exception in the
  property itself.  The run has the same instance.  `KeysStayUnique` assumes neither.
- In the models of the watchers and of the scanner the tree has a fixed shape; the
  theorems about them are for any number and order of changes to it.

Only model-checked:

- All liveness, since TLAPS 1.4.5 cannot do fairness and ENABLED: `CallsReturn` and
  `RegisteredRuns` of the supervisor, `FactsComeTrue` of the cache, `CoveredConverges` and
  `PagesConverge` of the pages, `OperationEnds` and `OwnRunIsFollowed` of CodeGraph runs,
  `PageFollows` of its reader, `ChangesAreReported` of the watchers, `SnapshotEnds` and
  `RequestsEnd` of Git.  The safety each of them rests on is proved: `NobodyIsStuck` for
  the first, `HashesDescribeCache`, `ETagDescribesBody`, `BoardIsExact`,
  `RunningIsRecorded`, `NotOlderThanAsked`, `NothingMissed`, `OneLoad` for the others.

Every other property of the passing runs is a theorem.  No module declares a RECURSIVE
operator, so that all of them can be proved about.

## 6. Not modelled

- Parsing of `task.json`, `workflow.md`, Git output and logs, and the limits on
  sizes and counts that go with it: conversions of text, which the tests reach.
- `matchChangedTasks` for a task directory created inside another one: it counts
  as a change of the outer task (`supervisor.go:552`) until the next full scan.
- Statistics and trends of the store, its filters, the tasks of a worktree; prices
  and days of the Codex usage: queries over rows that no step depends on.
- `Commits` and `DailyCommitCounts`, single commands whose output is reshaped.
- Renames in the event watcher, overflow of its queue, and the limit on watched
  entries: reaching it in `observePath` ends the loop (`watcher.go:187`), as an error
  of `native.Remove` does, and is logged.
- `SQLITE_BUSY_SNAPSHOT` between projects; a scan that fails so is a failed scan.
- The restart of the server while a codegraph command runs.
- A failed write of the Codex cache file is not repeated until an entry changes.
- The rest of the pages, configuration, request checks, the directory picker, the
  embedded files: sequential, or without state of their own.

## 7. Plan

Done, in this order: `Supervisor` with its proof, `ProjectLifecycle`,
`IndexCache`, `RevisionPolling`, `ProjectRegistry`, the two watchers, `GitCache`,
`CodexUsage`, `CodeGraphSync`, `GitSnapshot`, `CodeGraphReader`, `GitPush`,
`Paging`, `TrellisScan`, and `Watcher`, `OpenPage`, `GitService` and `Indexing`
over those they join; then the proofs of section 5.

Next, models:

1. The composition of `IndexCache` with a watcher, so that what is lost by a
   failed incremental scan is seen from the file to the row.
2. Restart of the server under `CodeGraphSync`.
3. Worktree mapping; the status and numstat parsers.

Every safety property of the runs is a theorem.  Next, what `WaitsMove`
says of the supervisor for the waits of `GitSnapshot` and `GitCache`.
