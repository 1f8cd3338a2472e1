# graphrag-web-ui in TLA+

A specification of the parts of `graphrag-web-ui` in which the order of events
decides: the queue of indexing jobs and its runners, their logs and what is kept of
them, the links of an answer to its documents, sessions and accounts, projects and
who may do what on them, the configuration and the files of a workspace, the state
each document is shown with, and the questions that are asked in test runs. TLC checks small
instances, TLAPS proves the most important results for instances of every size.
Paths are below `src/backend/src/graphrag_ui/` unless they begin with `src/`.

## 1. Inventory

One FastAPI process per pod (usually one; two during a rolling update) serves
requests on an event loop and runs a job loop beside them. PostgreSQL holds rows
and is read at READ COMMITTED; every project has a directory with `input/`,
`output/`, `settings.yaml` and `.env`, shared by the pods; `graphrag index` and
`graphrag update` run as subprocesses and rewrite `output/` in place. A React
frontend calls the API and keeps a refresh token in `localStorage`.

| Part | State | Operations | Interacts through | Correct when |
|---|---|---|---|---|
| Job queue: `services/jobs.py`, `adapters/jobs_repo.py` | rows `jobs`, `test_runs`, `projects.baseline_snapshot_id`, `artifact_epoch` | enqueue, cancel, claim, beat, finish with promotion, reconcile | the rows; the project row lock; a partial unique index | one active job per project; conclusions are final; a baseline is evidence of a success |
| Runner loop and executor: `services/runner_loop.py`, `adapters/index_runner.py`, `services/test_run_worker.py` | the pod's tasks, subprocess, watcher | reconcile, count and claim, execute, poll, prune | the rows; `output/` | late results change nothing; every row ends |
| Citation guard: `services/citations.py`, `services/query.py`, `adapters/frame_cache.py` | G0, frames, memo, G1 of each request; frame cache | read generation, load, answer, resolve, link | rows and `output/`, with no lock | a link names a document of the build that answered |
| Refresh tokens: `services/auth.py` | rows `refresh_tokens` | login, rotate, grace, reuse detection, logout, change of password | row locks | a login is one session; replays end sessions and nothing else does |
| Browser session: `src/frontend/src/stores/auth.ts` | token in `localStorage`, a lock across tabs | refresh, logout | the API over an unreliable network | tabs do not look like a replay; logout is final |
| Administrators: `services/users.py`, `services/roles.py` | `users`, `roles`, `user_roles` | create, patch, edit role, delete role | rows, unlocked guards | somebody can manage users |
| Workspace configuration: `services/settings.py`, `services/env_file.py`, `adapters/graphrag_search.py` | two files, history rows, memo | save, set and delete key, load, capture | project lock; plain reads without it | nothing is overwritten unseen; the configuration used is the one on disk; a run's record is true |
| Input files: `services/files.py`, `services/file_listing.py`, `services/input_scan.py` | `input/`, rows `project_files` | upload, delete, list, discover | project lock, row locks | a cached hash is the file's; input is frozen under an index run; the quota holds |
| Index snapshots: `services/index_snapshots.py`, `domain/files.py` | START and BASELINE rows with entries | capture, promote (index, update), state of a file | the job's finishing transaction | the state shown is the state of the index |
| Questions, runs, ratings: `services/questions.py`, `services/test_runs.py`, `services/ratings.py` | sets, lineages, results | add, edit or fork, archive, enqueue with a manifest, ask, rate | project lock; the run's row | what a run asked stays what it asked; its results tell how it ended |
| Projects: `services/projects.py`, `services/project_lock.py` | rows `projects`; workspace directories | create (slug, directory, `graphrag init`, row), delete, upload and enqueue beside it, clear cache | the project lock; the file system before and after it | no row without a workspace, no job without a project, no file without a row |
| Members and permissions: `domain/permissions.py`, `api/deps.py`, `services/projects.py`, `services/test_runs.py` | `project_members`, `role_permissions`, `user_roles` | set and remove a member, edit and delete a role; every check | rows, read without a lock | a project reports the permissions its checks grant |
| Proxy authentication: `services/auth.py`, `api/deps.py` | `users`, `user_roles` | resolve the identity of a request, create its account, promote listed addresses | unique keys, row locks of inserts | a first login does not fail because another one races it |
| Retention: `services/retention.py`, `services/index_snapshots.py`, `adapters/index_runner.py` | log files, `start` snapshots, `update_output/` | nightly sweep, prune after an update | jobs that go on | the evidence of a run that is under way, or of the current baseline, stays |
| Queries: `services/query.py`, `api/query_routes.py`, `adapters/frame_cache.py` | frames of a project with their byte count; the events of a stream | run, stream, read and insert a table, evict | the shared cache; `output/` | the cache holds what it counts; a stream ends once and says how |
| Rate limits: `domain/sliding_window.py`, `services/rate_limit.py`, `api/auth_routes.py` | buckets of a process | count, add, sweep, evict | callers between check and record | nobody has more attempts than the limit and the callers in between |
| Job log: `adapters/job_logs.py`, `services/jobs.py`, `src/frontend/src/components/JobLogViewer.tsx` | the log file; offset of the stream; text shown | tail, drain, retry, reconnect | file, row, network | the log a viewer ends with is the whole log |
| Request plumbing, exploration, previews, health, audit, tags, confinement of settings, schema, pages, deployment | mostly none | read or translate | | no interleaving of their own |

Hard to test, and hence what the properties are about: claims, cancels and
reconciliation of several pods between any two statements; crashes between
statements; results that arrive after their row was given up; a database that is
out of reach while a subprocess runs; files rewritten in place under readers that
take no lock; caches validated by a timestamp; checks made before a lock and used
after it; answers lost on the network. `PROJECT.json` lists each hazard at its line
with the properties that would notice it.

## 2. Modules

```
JobLifecycle  <-- implemented by --  JobQueue  <-- extended by --  CitationGuard
JobLifecycle  <-- implemented by --  the runs of TestRuns
JobLifecycle  <-- extended by --     Projects, Retention
LoginSessions <-- implemented by --  RefreshTokens <-- extended by -- Sessions
Documents     <-- extended by --     InputFiles, IndexSnapshots
FrameCache    <-- extended by --     Queries
on their own: UserManagers, Provisioning, Access, WorkspaceConfig, TestRuns, LogTail, Limits
```

**JobLifecycle** is the abstract promise: submit, start, conclude, succeed with or
without a new baseline. **JobQueue** is the code: `status, type, owner, flag, worker,
fresh` are the columns of a row (`fresh`: a beat within a minute), `runOpen` the
unset `test_runs.finished_at`, `captured, snapEpoch, baseline, epoch` the snapshots
and the project's two columns, `out` who last wrote `output/` and whether that run
came to its end. `stage` is how far `_execute` has come (claimed, spawned, watching,
captured, bumped, running, ended, gone), `loop` and `pending` where an iteration of
`run_loop` stands. Each transaction is one action: `Count` and `Claim` are two,
`Finish` is the terminal write with `_close_test_run` and the promotion, and the
hook's failure (status written alone), the discarded result and the lost connection
are actions beside it. `Expire` is the passing of a minute without a beat; since the
watcher beats every ten seconds, it happens only to a row whose executor is gone or
out of reach of the database. A crash of a pod takes its subprocess along (it is a
child in the same container). `QueueDrains` and its siblings are stated over
`FairSpec`.

**CitationGuard** adds readers, interactive queries and test runs, that take one
statement at a time: pointer and epoch, active job (G0), frames through the cache
(stat, then read), answer, titles, baseline, G1, `_trustworthy`. What a reader has
read is represented by the run that wrote it. One table stands for the five of a
local search; title recovery is left out.

**RefreshTokens** is one user's `refresh_tokens` under READ COMMITTED, statement by
statement: the conditional UPDATE, the re-reading of the loser, the DELETE that sees
only the rows committed when it began. Token n of family f is `<<f, n>>`, since
a successor is derived from its predecessor. Clocks are the sets `recent` (inside
the grace window) and `lapsed`. **LoginSessions** is what they promise together: a login
begins a session, one token continues it at a time, the step that spends a token puts its
successor in its place, and what has ended is over. A session of the code is continued
by its usable token or, between the UPDATE of a rotation and its commit, by the token that is
being consumed (`Continuing`); `LoginsAreSessions` is the refinement. **Sessions** lets the requests be tabs of one
browser (`stored`, `lock`, `tab`), answers be late or lost, and a logout cut in; with
`anyClient` they are arbitrary clients. **UserManagers** has users, custom roles and
the requests of administrators: load and authorise, ask the guard, write.

**WorkspaceConfig** has the two files with their stamps (`settings`, `env`), the
project lock, the history, the memo with its validity key, and editors
that save, set, delete, enqueue, query or start a test run. A row of the history is dated by
the start of its transaction (`created_at` is `now()` in PostgreSQL) and listed by that
date, so what is listed first need not be what was committed last: `elders` has, of each save
under way, the saves that began before it, and `listed` the first row as long as it is also
the last committed. A content is known by the keys it references. `tick` is the racy window: two versions of one tick may have
one stamp. **InputFiles** has `disk` (text and stamp per name), `rows`, requests and
the index run. A transaction locks the rows it has written until it ends, one after the
other (`touched`, `todo`): an upload one, a deletion several in the order of its request, a
listing those it has refreshed in the order of the directory (`Place`), before it asks for the
project lock if it has discovered files. `Waits` says who waits for whom, and `Abort` is
PostgreSQL's deadlock detector. **IndexSnapshots** has the documents of the index, the baseline row and
the run under way, with graphrag as an external action that ingests, skips by title or
drops in silence. Both extend **Documents** (names and texts).

**TestRuns** has one question set (`question`, one record per row: `lineage`, `text`,
`position`, archived), the project lock, the requests of curators, and test runs with
their placeholder rows (`asked`), the answered ones, the progress (`done`) and the
executor. A request decides when it takes the lock and writes when it commits, which
are two actions, so that a step outside the lock would fall between them. The run's
job is reduced to its row; a worker whose row was reconciled may go on writing. The
matrix of the runs (`run_matrix`) is an operator over the rows: a column per lineage, a
row per run, and `MatrixShowsEveryResult` asks that no result falls out of it.

**Projects** has, for each project, its row (pending until the commit), its slug, its
directory and whether it holds files, and the requests at their steps: `create_project`
names, makes the directory, runs `graphrag init`, inserts and rolls back; `delete_project`
tests for active jobs and deletes under the lock, and removes the directory after it. An
upload makes `input/` before it asks for the lock. **Retention** extends the same
lifecycle with the age of each finished job and what is kept of it. A worker claims,
captures, opens its log, makes its directory, reports and prunes in steps of its own
(`worker`), and may outlive its row when that is reconciled: its result is then discarded, and
it prunes all the same. The sweep selects, unlinks, deletes and prunes in four steps, and jobs
start, end and are promoted between. The windows and the number of directories kept may be 0,
as in the code.

**Access** has the global atoms of each user, the atoms of each role and the members;
`Can`, `EffectivePerms` and the checks of the routes are operators, and a change of
a member authorizes, reads and writes in steps. Three atoms that are checked alike are one.
**Provisioning** is `resolve_proxy_user` statement by statement: look up, insert (which
waits for a transaction that has inserted the same address), commit, read the grants,
promote; beside administrators and restarts with another list of administrators.

**FrameCache** has the cache as the sequence of its entries, its byte count and the `get()`
of each query for each table: looked up, reading in a thread, inserted. A file is the
number of the write that made it. **Queries** puts `run_query` and `stream_query` on it: the
tables of a method are read together, the first that fails refuses while the others go
on, a search sends chunks, breaks or ends, citations follow, and the client may go away. The
step that builds the citations is outside the handler of a search that fails
(`services/query.py:302`): when it raises, a stream without a chunk answers 500, and one with
chunks is cut off (`CiteFails`).

**LogTail** keeps the log as bytes with the width of the character each begins, so that a
read of `ChunkBytes` may cut one; `tail_log` reads, waits, drains and ends, the browser
retries on its own or by Reconnect, and `shown` is what the pane shows. **Limits** has one
`SlidingWindow` under either limiter: `hits` has the ages of each key and, for the order in
which the code keeps its keys, the set of remembered keys that were hit after it. A login is
checked and recorded in two steps with the password test between. `since` and `owed` are
history: the keys hit since a key was, and the hits that must still count for it.

`MCAnswers`, `MCService` and `MCWorkspace` check parts that share no
variable in one run: a variable `part`, chosen at the start, says which one moves, so the
state spaces add up. What a run says of one part it says of that part alone; where parts
do interact, the composition is a module of its own (CitationGuard over JobQueue, Queries
over FrameCache, Sessions over RefreshTokens, Projects and Retention over JobLifecycle).

Simplifications a reader should know. Clock skew between pods and database, and the
order in which concurrent enqueues commit, are ignored. Ages in Limits and Retention
are counted in ticks and days and stop one past the longest window. Two requests that wait for
one row lock are served in any order. Bodies of audit rows, log lines, wording of
errors and tags are left out. In JobQueue a job's `progress`, `stats` and the beats of a worker
that was given up are not read by any decision and are left out too.

## 3. Runs

Passing runs, with the question and the bounds:

* `late_results` (JobQueue): job types index, update and test run, two pods, cap 1, one
  crash or outage, and behaviours of two kinds (`RacingSpec`). In the first two jobs of one
  project (`Rivals`) are the one given up and its successor, two pods the worker and the one
  that reconciles it, and one fault is enough for either to be a zombie or dead. The
  jobs are an index and an index or update after it, or a test run and an index: before an
  index has succeeded an update is an index that is not promoted, and what a test run leaves
  behind is seen from the first. In the second each of three projects has an index job that has not begun its work (`Crowd`):
  with cap 1 both pods count no running row before either claims, which is the one row over
  the cap that `OverCapAtMostPodsMinusOne` allows, and a third queued job is there for a
  third claim that would break it. `ImplementsLifecycle` is the refinement of JobLifecycle.
* `ends` (JobQueue, `FairSpec`): two projects and the one slot of one pod with one
  fault, and an index job and a test run in either order (`OneOfEach`), so that each must wait
  for the other, which is cancelled, dies or runs on. Liveness. The constraint is on submissions
  only, about which no fairness is assumed.
* `answers` (CitationGuard; TestRuns): one reader, two documents, two runs, two queries:
  a baseline and a rebuild that may fail, a memo with a remembered and a fresh title, a
  cached frame of the first query in the second. Beside it two curators of a set that
  holds two questions, three rows, two runs with three results in all, and two among
  cancellations, failures and reconciliations: enough for a question to be forked while
  it is asked, and for a second run to ask what two edits of one question have left.
* `accounts` (Sessions and RefreshTokens; UserManagers; Provisioning; Access; Projects;
  Queries; LogTail; Limits): three tabs, one login, chains of two rotations, one lost
  answer and logouts; or three arbitrary clients of whom two are served at a time. Three
  requests are two that race and one that ends what they race for. `LoginsAreSessions` is the
  refinement of LoginSessions (the theorem says it of any number of requests, logins and
  rotations at once). Beside it three users, a custom role and one administrator at a time; two first requests of one
  address; two members, one custom project role and two changes at once; two projects of
  one name, one job and two requests, one of which deletes what the other uploads to.
  Two tables and two writes of them, whose frames take two and four bytes of a budget of
  three (one fits, the other never does), two queries, one of them streamed. Six bytes of
  log in characters of three and reads of four, so that a read cuts a character and the
  file needs two. Three keys of a window that remembers two, two logins in flight and a
  limit of two, so that the sweep and the eviction both have to choose.
* `workspace` (InputFiles; IndexSnapshots; WorkspaceConfig; Retention): two names
  and texts and three requests of two clients; three runs (an index, a failed one, an
  update); two editors over two contents and two keys, two racy windows and one mishap (a
  commit that fails or a file removed by hand), where loads meet writers and each other, but
  only one query at a time and none beside an indexing job, under which the files are frozen
  (`LoadsApart`); two jobs of one project under the sweep, with
  windows of 0 days for a success and one for a failure and one directory kept, so that a job
  may be swept or pruned beside its successor.

Fairness (`FairSpec`). The loop of a pod iterates and survives its errors
(`run_loop` catches everything), tasks advance on the event loop, the watcher polls
every second; reconciliation has its own interval and hence is strongly fair; a pod
that died is restarted (`restart: unless-stopped`, Kubernetes) and an outage ends. A
subprocess that was signalled ends, after thirty seconds by SIGKILL, and a test
run's questions end. A subprocess that nobody signals may run for ever:
`QueueDrains` assumes in addition that it does not (`RunsEnd`). Nobody is obliged to
cancel. No fairness is assumed in the other modules; their properties are safety.

Runs that end in a violation, each a disagreement of the code with a sentence of its
own (quoted in `PROJECT.json`):

* `citations_zombie`: an outage of more than a minute lets a live worker be reconciled;
  two runs write `output/` and a link to the other build passes the guard.
* `refresh_password`: a rotation that commits while the DELETE of a password change is
  waiting survives it.
* `sessions_logout`: a refresh in flight in another tab stores its token after a logout.
* `last_manager`: two administrators remove each other; each guard saw the other.
* `config_loadable`: a save validated before the lock refers to a key deleted since.
* `index_states`: an update records the new hash of a file graphrag skipped by its
  title, after a failed run or a change of `title_column`; it is shown as indexed.
* `listing_deadlock`: a listing with refreshed and discovered files and an upload, or a
  listing with two refreshed rows and a deletion of both in another order, wait for each
  other until PostgreSQL aborts one.

Some properties of passing runs are conditional on the history that these runs
expose, and say so: `CurrentBaselineMatchesOutput` holds until a pod has lost the database
(`outages = 0`); `StatesMirrorTheIndex` holds until documents of a lost run or of the other
title rule were mixed into the index (`mixed`); `CachedHashIsTheFile` holds until an upload
is renamed long after it was streamed (`late`: its mtime is then older than the racy window
that protects the cache), and `StartSnapshotIsTheInput`, whose capture reuses cached hashes,
as long; `HistoryEndsWithTheFile` holds until a commit fails or a file is removed by hand
(`mishaps = 0`), and of a first row that was also the last committed (`listed # NoVersion`);
`EvidenceIsKept` excepts the directory of a running update after which a job that has ended made its own
(`Overtaken`); `StreamsEndOnce` allows a stream without an end to a client that went away and
to one that the citation step cut off; `FirstLoginsDoNotFail` is of accounts nobody has `touched`;
`TailIsComplete` claims the whole log without repetition until a resumed stream has
made the browser's own retry (`resumed`), and `WorkspacesFollowTheRows` excepts a directory
whose removal failed or was cut short (`kept`). `MemoIsCurrent` excepts a memo loaded while
`settings.yaml` was missing when its stamp was taken, re-created before it was read and
missing again when the memo was stored (`adapters/graphrag_search.py:121`, `:170`): the
stamps agree and the memo is of a file that is gone, which takes two mishaps.
`StoredTokenIsCurrent` holds until reuse detection has struck (`reused`): a refresh of a token
that was logged out in another tab is taken for a replay when it arrives late, and what it
ends includes a login made since. Two tabs and two logins show it.

What lies behind those conditions, and what else the code does that its own words do not
say, observed while modelling and not made a run of its own:

* After Reconnect the stream's URL carries `offset=`. The browser's own retry repeats that
  URL with a newer `Last-Event-ID`, and `api/jobs_routes.py:153` lets the offset win: bytes
  are shown twice, against `JobLogViewer.tsx:11`.
* Two concurrent first requests of an *existing* user whose address was newly listed both
  insert the missing grants; the loser's unique violation is not caught
  (`services/auth.py:135`) and answers 500, against `api/deps.py:118`.
* `list_projects` lists a project by membership, also under a custom role without
  `project:view`, whose holder is then refused the project itself.
* `api/deps.py:287` wants routes addressed by a job or run id to answer 404 to a stranger; the
  job routes (`api/jobs_routes.py:129`, `:136`, `:151`) answer 403.
* A rating whose result was deleted meanwhile fails on its foreign key, and
  `services/ratings.py` takes it for the loser of a race and answers 500.
* `update_output_keep_latest` has no lower bound (`config.py:33`), and 0 lets the sweep and
  the prune after an update remove the directory of the update that is running, which
  `EvidenceIsKept` therefore claims only where directories are kept at all. With 1, a
  worker that outlives its reconciled row may make its directory after its successor's, which
  then counts as the older one and is removed.
* The history is documented as "newest first" (`services/settings.py:231`), and its rows are
  ordered by `created_at`, the start of the transaction (`adapters/models.py:142`), before the wait for
  the lock. A save begun before another one that leaves the content as it was, and committed
  after it, passes both hash checks and is listed below it although its content is on disk.
* A citation step that raises after the first chunk ends the response without an `error` or
  a `done` (`services/query.py:302`).

## 4. Proofs

Eight modules hold theorems; `PROJECT.json` lists the results. Every safety property of a
run, passing or not, is the statement of one, for constants of any size: what a passing run
finds without exception holds always, and what a run refutes holds outside the race that the
run shows (below). Each theorem rests on one inductive invariant of its module, named
`...Inv`; what it adds to types is the point of the argument, and is said here. The type
invariants of the three modules that combine parts (`TypesOfAnswers`, `TypesOfTheService`,
`TypesOfTheWorkspace`) follow from the type theorems of the parts, each proved beside its
part and not listed: a behaviour of the combined specification is one of each part's own
(`EachPartAnswers`, `EachPartServes`, `EachPartWorks`). That is also why what a combined run
checks is a property of the parts.

* `JobQueueProofs`: type correctness, the refinement of JobLifecycle, one active job
  per project, late results discarded, no trace of a job cancelled before its start,
  baselines are evidence, cap exceeded by at most the number of pods less one, test
  runs close with their job, and, until an outage, only dead workers are reconciled and a
  current baseline stands for `output/`. `TypeOK` is not inductive: `RowsOK` adds that
  rows not yet started have no executor and that an ended run has a result. On it rest
  `PendingStarted` (a row that a scan
  selected for reconciliation has been started), `StageOrder` (capture precedes bump
  precedes run, and a result exists only after the run), `NoZombieYet` (until an outage a
  row that is not running has no executor left) and `OutputSafeYet` (a baseline of the current
  epoch stands for `output/`, and whoever may write has moved the epoch). The cap needs a count
  of the loops that have counted and not claimed, a cardinality argument over pods.
* `CitationGuardProofs`: `LinksAreSound`, for any number of readers, documents, pods and
  crashes, assuming `MaxOutages = 0` (with an outage it is false: `citations_zombie`).
  The argument: epochs only grow and a job becomes the baseline once, so equal readings
  G0 and G1 mean that nothing moved between them; and while the baseline's epoch is
  the current one, `output/` is what its run left. The invariant says this of every
  reader at each of its stages, of the memo and of the cache.
* `RefreshTokensProofs`: `OneSessionPerLogin`, and `OneSessionPerBrowser`, the same for tabs
  and arbitrary clients, say that a family has one usable token (`OneTokenPerFamily`).
  `FamiliesAreSessions` and `BrowserLoginsAreSessions` say more, that the steps of the code are
  those of LoginSessions or stutter; `EndedIsEnded` carries over what the abstract session
  promises, that nothing brings back a session that has ended. Under the mapping the UPDATE of a
  rotation changes nothing, its commit renews, and every revocation, expiry and reuse
  detection ends sessions. `OneTokenPerFamily` is not inductive; the
  invariant adds that nothing was issued after a live token (`LastOfItsFamily`), that a
  rotation under way holds a live token alone (`Held`), and where requests may stand.
  `TabsAreNotAReplay`, `StoredTokenIsTheLast` and `GraceAbsorbs` are about the tabs of one
  browser under the hypothesis `Locks`: without the Locks API two tabs may present one token,
  and only the grace window separates them from a replay. Their invariant says who may be
  doing what (`TabOK`), that no tab presents a token that comes after the stored one
  (`FrontOK`), that the stored token is the newest of its family or is about to be replaced by
  the tab that holds the lock (`CurrentOK`), and that no request is on the way to reuse
  detection (`NoReplay`).
* `TestRunsProofs`: a run's questions are kept, the matrix shows every result, adds do not
  collide, results tell the run, a manifest is the live set, a concluded run is final. Beside
  the order of the rows and of the runs, the invariant says of a request that has taken the
  lock that what it decided still stands when it writes (`Stands`): this is where the lock is
  used. A question some run asked is frozen (`AskedOfHistory`), and a worker has reached what
  its row says (`WorkerFollows`). `RunsFollowTheLifecycle`: the runs, whose jobs are reduced
  to their rows here, implement JobLifecycle, as the queue they are reduced from does.
* `WorkspaceConfigProofs`: `NoEditIsLost`, `FrozenWhileIndexing`, and the three invariants about
  history, memo and captures. `StampsOK` and `MemoFollows` are the argument about stamps: a
  version may share its stamp with another of the same racy window, so equal stamps prove
  nothing by themselves; a settled stamp that is still carried does. `LoadFollows`,
  `RunFollows` and `HistoryFollows` say what a load, a run's capture and a save have in hand;
  that a first row which was also the last committed is the file needs only that its writer
  held the lock, since any later commit of an older save makes it no longer both.
* `ServiceProofs`, the parts of the api. Access: no change under way is about an owner, so
  what a project reports and what its checks compute are functions of the same rows.
  Provisioning: a request follows the account of an address that nobody touched
  (`ResolveFollows`, `AccountFollows`). UserManagers: what the guard has counted still holds
  when the request writes (`OthersHold`). JobLifecycle: in the abstract queue a baseline is
  a success (which JobQueue inherits by the refinement) and conclusions are final. Projects:
  each call has what it has made or locked (`CallOK`) and each row the workspace and the jobs
  its state allows (`ProjectOK`); from this, that its steps are those of JobLifecycle and
  deletions that take no row of an active job. LogTail: the log is whole characters but for the last
  (`LogOK`), and a stream, its retry and the pane stand between characters, at one place, as
  long as the row runs; a drained read ends at the end of the file.
* `WorkspaceProofs`. Retention: the sweep's lists, chosen in one step and used in
  later ones, name nothing that may be needed (`SweepOK`), whatever starts, ends or is
  promoted meanwhile (`FlightOK`, `BaselineOK`). The newest directory of a project is of a job
  of that project (`DirsOK`), of which one at most is in flight: the directory of a running update
  is thus the newest or there is a worker that has outlived its row. Nothing is assumed of the
  windows and of the number of directories kept. InputFiles: a row whose stamp a
  listing would trust has the file's hash (`Trusted`), which a listing's own readings keep
  (`ListingOK`), and an upload under the lock has room (`RequestOK`). IndexSnapshots:
  `Mirrored` relates index and baseline, `RunTakes` and `WrittenOK` what the run under way
  has taken and written, `Epochs` the promotion.
* `QueryProofs`. Queries: what a stream has said is told by how far it has come
  (`Told`). FrameCache: an entry was read no earlier than its stamp (`HoldsOK`, `LoadsOK`,
  `FilesOK`), and the byte count is the sum of the sizes (`BytesOK`), by partial sums
  (`SizesUpTo`) through an append, a removal and the loop of evictions. Limits: the order of the
  keys is total and no longer than `MaxKeys`, and the keys after a key were hit since it was
  (`WindowOK`); what is owed is the newest part of what is remembered (`OwesOK`); and
  what is owed of a key, with the logins that have passed its check, is at most the limit and
  the logins less one (`BoundOK`).

The seven runs that end in a violation show that a property does not hold. A theorem about
each says where it stops: under a hypothesis about the behaviour, that the race of the run does
not take place, the property holds, for any number of actors and whatever else they do.

| Run | Hypothesis | Theorem |
|---|---|---|
| `citations_zombie` | no outage of the database (`MaxOutages = 0`) | `LinksAreSound` |
| `refresh_password` | no rotation of a session that is being wiped waits to commit (`NoRotationBesideWipe`) | `PasswordChangesEndSessions` |
| `sessions_logout` | no tab is refreshing when a logout has completed (`NoRefreshOutlives`) | `LogoutsAreFinal` |
| `last_manager` | one request at a time that may take the atom from somebody (`OneThreat`) | `OneThreatKeepsManagers` |
| `config_loadable` | no removal of a key waits for the lock beside a validated save (`NoDeleteBesideASave`) | `ReferencedKeysStaySet` |
| `index_states` | no documents of a lost run or of the other title rule in the index (`~mixed`) | `ShownAsIndexed` |
| `listing_deadlock` | no listing has both refreshed rows and discovered files (`NoListingDoesBoth`), and no deletion has several files (`NoBulkDelete`) | `WriteBacksAreLockFree` |

Each hypothesis but the first is of the states of one behaviour: nothing is made small, and no
action is left out of the specification. Each is no more than the race needs, but for
`NoBulkDelete`, which leaves out also the deletions of several files that meet no listing or
go in its order. `OneThreat` leaves out no
administrator: any number of them may create users and roles, give the atom away and read
beside the one request that may take it from somebody, and one administrator alone satisfies it
(`OneAdministratorKeepsManagers`). The invariants they add are what the race breaks:
`SavesResolve`, a validated save still refers to keys that are set; `OthersHold`, what the
guard counted; `SnapInv`, a wipe has seen every token of the sessions it saw; `WorkOK`, a
listing holds the locks of refreshed rows only, and they come before those it has still to
write. From this, requests that wait in a circle would all be listings, each waiting for a row
that comes after one another of them waits for (`CircleOfListings`), which the first such row
cannot.

The results about one active job, discarded late results, dead workers and final conclusions
are no properties of a run: the theorems say them of every instance, and the refinement
implies the first and the last.

The proofs use the named assumptions of the modules only: bounds are naturals, sets
of pods, readers, requests, keys and names are finite where they are counted, model values such
as `NoPod`, `NoRequest` or `NoCaller` are no elements, the cap, the windows of InputFiles and Limits and the keys a
window remembers are positive, the owner of a project is a person and no role is called like
the absence of one (Access), streams are queries (Queries), no two names have one place
in the directory (InputFiles), and a read of the log takes at least the four bytes of the
longest character (LogTail). TLC evaluates each in some run. Hypotheses beyond them stand in the theorem itself: `Locks`, `Admins = {q}` and those of
the table.

Only model-checked:

* `StuckRowsEnd` and `QueueDrains`: fairness and ENABLED are beyond the proof system.
* What a recursive function computes for every input cannot be proved by the library's
  induction theorems, whose operator parameter no installed prover can instantiate. Where a
  proof needed induction (the partial sums of FrameCache, the rows counted in TestRuns) it
  takes the least element of a set of naturals instead (`LeastOfSome`, `LeastOf`, from the
  well-foundedness of `<`), at which the claim would fail first.

## 5. Not modelled

Partly modelled parts, and what they leave out:

* Browser session: proxy mode, the delays of `restore`, the `/me` call of a login. Browsers
  without the Locks API are possible in Sessions (`Locks = FALSE`) and no run asks about
  them: three tabs then look like a replay inside the grace window.
* Input files: tags, previews.
* Test runs: creation and renaming of question sets and the ratings themselves (single rows,
  last writer wins); who may rate is in Access.
* Projects and members: `update_project`, which writes two labels.
* Authorisation: access tokens, stream tickets and the must-change-password gate, which
  are stateless.
* Routes: only the two that stream. The others translate a request into a service call.
* graphrag and PostgreSQL are external; they are modelled as `src/` uses them.

Inside modelled parts: title recovery for corpora other than text; the cost preview; the
second and later projects of WorkspaceConfig and its LRU bound; partial states of a query
that loads `settings.yaml` and `.env` while one is replaced (it fails or answers once with
the mixed pair, and nothing is kept); the batching of log text per animation frame; password
hashing.

Not modelled: request plumbing, exploration, previews and health (they read and keep
nothing), audit rows and tags (nobody decides by them), the confinement of settings (a
predicate over one document), the schema (its constraints are part of the actions that
meet them), pages, and deployment (read for the fairness and the number of pods).

## 6. Plan

1. JobLifecycle, JobQueue, CitationGuard, RefreshTokens. Done, with proofs.
2. Sessions, UserManagers, WorkspaceConfig, InputFiles, IndexSnapshots, TestRuns. Done,
   with proofs.
3. Projects, Retention, Access, Provisioning, FrameCache, Queries, LogTail, Limits. Done,
   with proofs.
4. LoginSessions, the abstract session, and its refinement by the tabs of Sessions. Done, with
   proofs. What the refinement goes to is not `Spec` of RefreshTokens, whose clients present
   only tokens of families that still have a row; a tab may hold one whose family has been
   revoked altogether.
5. For each disagreement the hypothesis under which it cannot arise. Done, with proofs (the
   table in section 4).
6. Left: what remains of the theorems about tabs without the Locks API, which would need the
   grace window as a bound on how long an answer may take.
