# Verification of mind-sync

TLA+ models of mind-sync's backend, checked with TLC and, where the property
matters for every size of the system, proved with TLAPS.  Paths below are
relative to the repository; `app/` stands for `apps/api/app/`.

mind-sync keeps a searchable index of markdown sources.  A FastAPI process
serves the API, runs syncs and rebuilds as background tasks in its thread pool,
and has one scheduler thread for the automatic sync.  State is in one SQLite
database (WAL, `busy_timeout` 30 s), in the YAML files under the data
directory, in the source directories, and in module globals of the process.

## 1. Inventory

| component | state | operations | what makes it correct |
|---|---|---|---|
| **Job control** (`services/sync_engine.py`, `rebuild_engine.py`, `routers/knowledge.py`) | `SYNC_STATE`, `LAST_SYNC_SUMMARY`, rows `last_sync_summary[_<user>]` of `app_settings` | POST sync / rebuild-index, `run_sync_job`, `run_rebuild_job`, `finalize_sync_run`, GET sync-status, lifespan | one job at a time; the flag is set exactly as long as a job is not recorded; a summary shown is durable and the newest one; the flag comes back |
| **Scheduler** (`services/scheduler.py`) | `_last_run`, `_last_info`, `auto_sync_*` settings | loop, `is_sync_running`, claim, report, `reset_last_run_now` | starts no job beside another, reports the end of its own |
| **Locks** (`SYNC_LOCK`, SQLite's write lock; `db.py`, `rate_limit.py`, `audit.py`) | who holds which | request, job, other writers | every wait ends, though the two are taken in both orders |
| **Index of the sources** (`services/indexer.py`, `sync_engine.py`, `rebuild_engine.py`, `routers/content.py`, `routers/admin.py`) | `documents`, `documents_fts`, the encodings `_detect_encoding` remembers | sync, rebuild, ingest, reindex, delete source | a row and its search entry are parted only by a reindex that failed, and mended by a rebuild; a skipped file is unchanged; no document is lost while its file is there; the index catches up; a deleted source leaves nothing |
| **Remote sources** (`services/source_sync.py`, `source_pairing.py`, `sync_backoff.py`, `git_ops.py`) | clones, `web_snapshots/*.md` and `.json`, row `source_sync_backoff` | pull, conditional fetch, record success / failure, choice of what is indexed | a 304 never hides text that is not on disk; a source that answers again is indexed; one source's failure stops no other |
| **Source configuration** (`routers/admin.py`, `routers/user.py`, `indexer.load_sources`) | `sources.yaml`, `user_sources.yaml`, tombstones, `lru_cache`s | read-modify-write of the files, cache clear | no list older than its bucket; what is no longer shared is hidden; the cache ends up right |
| **Selection and order** (`sync_settings.py`, `source_sync_key.py`, `source_pairing.py`) | settings rows by user, with global defaults | save, resolve, read again in the job, order, pair | nobody's private source, no more than was selected, in the saved order, whoever else saves |
| **Sessions, users, keys** (`session_store.py`, `auth.py`, `permissions.py`, `routers/auth.py`, `admin.py`) | `sessions`, `users`, `api_keys` | login, logout, touch, password, delete, restore, role, keys | an ended session authenticates nobody; who is out stays out; lost access runs out |
| **Rate limit, audit** (`rate_limit.py`, `audit.py`) | `api_usage`, `audit_events` | count, check and insert | at most the limit per window; no request waits for ever |
| **Web fetch** (`web_fetch_policy.py`, `web_extract.py`) | robots cache | check, fetch | a refusal is obeyed within an hour |
| **Wiki** (`wiki_nav.py`, `wiki_query.py`, `content.py`, `purpose.py`) | `index.md`, `log.md`, pages | write, save an answer, touch | `index.md` catches up with the summaries and the latest 80 saved answers |
| **Vault** (`vault_git.py`, `git_ops.py`) | the clone, its work tree and git index, the remote | pull, push, by requests and by the job | no page leaves the vault; the wiki follows it |
| Search, library, graph, lint, assets, health | none of their own | queries | read only |
| Web client, CLI, MCP, scripts | none on the server | HTTP clients; hand-run tools | - |

**How they interact.**  A request that starts a job sets `SYNC_STATE["running"]`
under `SYNC_LOCK`; its background task runs `run_sync_job` in the same thread
pool.  A sync first pulls every remote source (`sync_all_sources`), which
decides per source what to index, then indexes source by source, one commit
each, then `finalize_sync_run` writes the summary row, sets the in-memory entry,
audits, and the flag is cleared.  The scheduler calls the same `run_sync_job`
from its own thread.  Ingest, reindex, wiki writes and the deletion of a source
write the same two tables from their request's thread and look at no flag; they
meet a job only at SQLite's write lock.  Status polls read `SYNC_STATE` and fill
the in-memory summary from the row when it is not there.

**What is hard here** (each at its line under "hazards" in PROJECT.json): the
flag is tested in one critical section and set in another; a cache filled from
a row that a job replaces meanwhile; exceptions between the setting of the flag
and its clearing; two locks in two orders; a file edited between its stat, its
read and the write of its row; a row and its search entry, written by separate
statements that an exception can come between; an encoding remembered for a file
that was saved in another since; a skip rule that trusts what an earlier pass
wrote; deletion beside a job that holds the old list; crashes between the two
files of a snapshot; backoff arithmetic after many failures; YAML files that
many handlers read, edit and write back under no lock, with a reader in between
that caches what it saw; roles and accounts copied into a session row or an
accepted job and used long after; two meanings of an empty selection; a git
work tree and a wiki directory that are emptied and filled file by file; a
commit that fails and leaves its files behind.

## 2. Modules

| module | models | state ↔ code |
|---|---|---|
| `SyncJobs` | job control, scheduler, status poll, settings, restart | `running`, `shown` = `SYNC_STATE`; `lastSummary` = `LAST_SYNC_SUMMARY[user]`; `stored` = the rows; `pc`, `task` = the threads between two lock blocks or transactions; `poll` = a status request between its three accesses; `sched` = settings, `_last_run` as "due or not", `_last_info` |
| `JobService` | the abstract promise: one slot, one newer summary per job, then the slot is free | refined by `SyncJobs` (`ImplementsService`) |
| `SyncLocks` | the two locks | `syncLock` = `SYNC_LOCK`, `dbLock` = the open write transaction, `pc` = where requests, the job and other writers stand |
| `SourceIndex` | the tables, the four indexers, editing, mounts, deletion, crash | `index` = committed tables, `work`/`writer` = the open transaction, rows (`docs`) and search entries (`fts`) apart; `ix` = locals of each pass (`existing`, the stat, the row read, the encoding, the text), `enc` = the `lru_cache` of `_detect_encoding`, `disk`/`roots` = the files, `saved` = history of the encodings a file was saved in, `configured` = the YAML files |
| `RemoteSync` | pulls, backoff, the choice per source, indexing by that choice, rebuild | `fails`/`waiting` = the row `source_sync_backoff`, `files`/`etag` = clone or snapshot and its `.json`, `indexed`/`locals` = whose documents are there, `job` = the running sync |
| `SourcesConfig` | every handler that writes one of the two YAML files, `load_sources` and its cache | `global`, `private` = the files (whole, blank after a truncation, garbled), a file is a set of entries, of which up to two can have one id (`number`); `cache` = `_load_sources_cached`, `at`/`load` = the request and the call of `load_sources` each thread is in, `since` = history of the current 30-second bucket |
| `Access` | logins, sessions, API keys, users | `user`, `session`, `keys` = the tables, rows in relative time; `at` = the request each thread serves, with the name and role it was let in with |
| `Selection` | settings, sync keys, what a request resolves and its job reads, order, pairing | `rows` = `app_settings` by scope, `sources` = `load_sources()`, `role`, `gone` = `users`, `job` = the accepted or running job |
| `Vault` | pages, `index.md`, the vault's pulls and pushes | `wiki`, `work` = the two directories; `base`, `own`, `remote`, `behind` = the commits that matter, `dirty` = a failed commit's files in git's index; `step`, `todo`, `files` = where each thread is |
| `*Proofs` | theorems | |
| `MC*` | small instances: symmetry sets, catalogues, payloads | |

The models cut the system along the same seams as the code: in `SyncJobs` the
work on the documents is one phase (`working`), which `SourceIndex` opens and
`RemoteSync` opens at its other end; `SyncLocks` keeps of a job only where it
takes a lock; `Selection` decides which sources a job gets, `SourcesConfig`
which there are, `Access` who asks; `Vault` is what a job does before and after
the documents.  A step is what nothing in the process can be interleaved with: a
block under `SYNC_LOCK`, one statement of SQLite, one transaction that is one
statement and its commit, one file operation.

The operators commented "Mutant of X" are plausible wrong versions of the action
X that follows them.  Nothing in a specification uses them; exchanging X for its
mutant breaks the property PROJECT.json names, which shows that the property
depends on that line of the code.

### Correspondence

**SyncJobs.**  `Request` is the `with SYNC_LOCK` block of `knowledge.py`;
`Respond` the audit after it; `Begin` the entry of `run_sync_job` or
`run_rebuild_job`; `Progress` the counters; `WorkDone` the end of the `try`
block by either way; `FinalizeClear`, `Persist`, `Remember`, `AuditCompleted`
the steps of `finalize_sync_run` in their order; `Release` the last block;
`RebuildClosing` what a rebuild does after it.  `SchedWake`, `SchedCheck`,
`SchedClaim`, `SchedReport` are the scheduler's loop.  `DatabaseRaises` is an
exception at a database operation that no `try` encloses.  `PollCheck`,
`PollLoad`, `PollStore`, `PollSnapshot` are GET sync-status with
`ensure_last_sync_summary_loaded`.  `Restart` is the end of the process and
`lifespan()`.

**SourceIndex.**  One pass is `Start`, then for each source `OpenSource` or
`SkipMissingRoot`; `ClearEntry` and `ClearRow` for each row, in a rebuild
(`clear_source_index`); `ListFiles`; for each file `StatFile`, `LookUp`, `Detect`
(`_detect_encoding`), `ReadFile`, `WriteFile`, and when the text is new
`DeleteEntry` and `InsertEntry`, the other two statements of `upsert_document`;
`SweepRow` and `SweepEntry` for each row without a file (`remove_missing`); then
`LeaveSource`, where sync and rebuild commit, and `Finish`, where ingest and
reindex do.  The differences of the four indexers are guards on `kind`: only a
rebuild clears first, only a sync reads files above the size limit and writes no
owner, only a reindex survives an exception: `StepRaises` and `FileVanished`
leave its transaction as it is, half a pair included, and its `Finish` commits
that.  `ViewFile` and `Forget` are the other users of the remembered encodings.
The wiki writes and promoted answers that call `index_single_source` for one
path are ingests of that path.

**RemoteSync.**  `SkipSource`, `PullGithub`, `FetchWeb`, `WriteEtag`,
`RecordSuccess`, `RecordFailure`, `DelayOverflows` are the loop of
`sync_all_sources`, github sources before web sources (`Ready`); `Verdict` and
`Permitted` are `check_robots` and `validate_web_fetch` with their cache, which
`RobotsExpire` empties after its hour; `Choice` is `resolve_index_source`;
`IndexSource` the loop over its result; `Rebuild` takes every source whose root
exists, unpaired.  `PullGithub` and the answers of a web server, robots.txt
included (`EditRobots`), are external.

**SyncLocks.**  `OpensUsage`, `Tally`, `Records` are the three statements of
`check_api_rate_limit`, the first of which opens the write transaction; `Enter`,
`Refuse`, `Respond` the handler; `JobBegins` to `Releases` a job as the sequence
of its lock blocks and transactions.  `RequestTimesOut` and `JobTimesOut` are
`busy_timeout`.

**SourcesConfig.**  `Ask` picks one of twelve operations; `Resolve` is
`require_own_source` or the administrator's search, `EditGlobal`, `EditPrivate`
and `MarkDeleted` read a file and make the new text (`NewGlobal`, `NewPrivate`:
one operator per handler), `Truncate` and `Fill` are `write_text`, `Reload` is
`reload_sources_config`.  A `Fill` over a text that another handler has written
since the truncation leaves the new text, a text that does not parse
(`Shambles`), or one that does (`Mixtures`): any of the entries of either, one
of them twice, one cut and joined to the owner and flag of another.
`LoadGlobal`, `LoadPrivate` and `StoreList` are one call of
`_load_sources_cached`, `NextBucket` the change of its argument.

**Access.**  `Login` and `CreateSession` are the two transactions of a login;
`GetSession` and `Touch` the read and the later write of `get_session`, which a
request calls up to three times (`GetSessionAgain`); the other actions are the
handlers of their names.  `Tick` is time.

**Selection.**  `SaveSettings` is `update_settings`; `Accept` is `sync` or
`rebuild_index` up to the background task, with `Asked` what it leaves to the
job; `StartJob` is the first lines of the job, which resolve when nothing was
asked, `LoadSources` its reading of settings and sources, with the role of a
sync (none) or of a rebuild (that of the users row).  In `Plan` a pair stands as
its github source; the local source that is indexed instead when the pull fails
is in `chosen`, which `NobodysPrivateSource` looks at too.  `ExpandSyncKeys`,
`ApplySourceOrder`, `ResolveSyncSourceIds`, `PairedIds` are the functions of
their names.

**Vault.**  `Fetch`, `Clear`, `Restore` are `pull_vault`; `EmptyWork`, `Fill`,
`Commit` or `CommitFails`, `Upload` are `push_vault` and `commit_and_push`;
`Scan` and `WriteIndex` `rebuild_wiki_index`, with `Listed` what it writes: the
summaries and the last `QueryLimit` answers; copies go file by file.  A pull
(`CanPull`, `Conflict`, `MayNotPull`, `Pulled`) does what git does with files
that were changed and not committed.  `VaultSync`, `Lint`, `SavePage`,
`SaveAnswer` are the requests, `StartJob` a sync as far as it touches wiki and
vault.  `ForeignPush`, `Outage`, `Recover`, `Crash` are the world.

## 3. Runs

| run | asks | size | result |
|---|---|---|---|
| `SyncJobs_manual` | automatic sync off: exclusion, durable and advancing summaries, leaked flag, refinement of `JobService` | 2 request threads, 1 user, 1 poll, 3 jobs, 1 database error, 1 crash | holds |
| `SyncJobs_live` | automatic sync on, overlapping jobs that end, raise or die: the flag has an owner and is returned unless a database error leaked it, started jobs are recorded, the scheduler reports | 1 request thread and the scheduler, 2 jobs, 1 database error, 1 crash | holds |
| `SyncJobs_overlap` | exclusion with automatic sync on | 2 threads, scheduler, 3 jobs | **violated** |
| `SyncLocks` | one "started" at a time, the rate limit holds, nobody waits for ever | 2 requesters × 2, limit 2, 1 writer × 2 | holds |
| `SourceIndex_job` | one sync or rebuild against edits, mounts, deletion, one fault: honest stamps, no lost document, catching up | 1 source with an owner, 2 paths, 3 texts (one too big, one in another encoding), 2 disk changes, 1 fault | holds |
| `SourceIndex_ingest` | an ingest or reindex beside a job: only a failed reindex parts a row from its entry, a rebuild mends the pair | 1 source with an owner, 1 path, 2 texts (one too big), 2 changes, 2 faults | holds |
| `SourceIndex_deleted` | a deleted source leaves no documents | 1 source, 1 path, 2 changes | **violated** |
| `RemoteSync` | honest etags; remotes that answer and permit are indexed in the end; a refusal is obeyed in the end | 1 github source with a pair, 1 web source, 2 versions, 1 crash, exponent limit 1 | holds |
| `SourcesConfig` | the cache is of its bucket; an unshared library is hidden within a bucket; the cache ends up right | 2 threads, 2 members, 1 id (also both default ids) of a github and local pair and of a member's library at the start, 12 operations, 2 changes, `sources.yaml` writable or not | holds |
| `Access` | an ended session stays ended; who is out stays out; lost access runs out | 2 accounts, 1 of them in `AUTH_USERS`, 2 threads, 1 session id, lifetimes 1 and 2 | holds |
| `Selection` | no private source of others; the selection bounds the job; others' saves leave it alone; the order is kept | an admin and a member whose libraries share a key, 2 saves, 1 change of sources, role or users, anywhere | holds |
| `Vault` | the vault loses no page; the wiki follows it; `index.md` catches up | the job and 1 request, 2 saved answers × 2 versions of which `index.md` lists 1, 1 push of another machine, 1 fault (a failed commit is one) | holds |

**What the violations are.**  Each contradicts a sentence of the repository,
quoted in PROJECT.json's findings.
1. *Overlap*: the scheduler sees the flag clear and gives the lock back; a
   request sets the flag; the scheduler's `run_sync_job` sets it again without
   a test.  Both run, the first to end clears the flag of both.
2. *Deleted source*: a job that had read its list indexes the source after its
   rows were cleared; no later sync looks at it.

**What the passing runs assume.**  Some properties hold only beside behaviour
that the code has and that a reader should know; each is in a premise, a guard
or the property itself, never hidden in a bound.
- A poll that loaded the old summary row can store it over the new one in
  memory (`CachedSummaryIsDurable` says what remains true).
- A database error outside a job's `try` block leaves the flag set and the job
  unrecorded until a restart: `FlagIsReturned` and `StartedJobIsRecorded` say so
  (`Leaked`, `faults + restarts > 0`), `LeakLastsUntilRestart` for how long.
- With an ingest or reindex beside a job a row can get the stamp of a text it
  does not have, after which every sync skips the file: `SourceIndex_job` has
  no ingesters, `SourceIndex_ingest` asks only for the pairs of rows and entries.
- A reindex that went on after an exception commits half a pair, and a sync,
  which looks at the row alone, never notices.  A rebuild mends it,
  or the next change of the file's text.
- The encoding of a path is remembered as long as the process lives and 256
  other paths have not pushed it out.  A file saved again in another encoding is
  decoded with the old one; its row has the file's stamp and a garbled text, and
  every sync skips it.  `StampIsHonest` and `IndexCatchesUp` allow that
  (`Readable`) of files that were saved in two encodings, and of no others.
- A file that grew beyond `max_index_file_bytes` is indexed by a sync and dropped
  by a rebuild, in turn.
- A sync writes the rows of private sources without an owner.
- After 1024 failures in a row the next delay overflows a float, and the
  exception leaves `sync_all_sources` and ends every later sync:
  `RemotesCatchUp` assumes that all remotes answer from some time on.
- An unreadable robots.txt is cached as a permission for an hour.
- Two handlers that edit one YAML file lose one of the edits, bring back what the
  other deleted, or leave a mixture of their texts, with an entry doubled or cut,
  or one that does not parse; a reader between truncation and write finds no
  libraries.  `SourcesConfig` has all of this, and no property forbids it.  What
  is shown not to happen is a list older than its bucket, a library shown after
  it was unshared for longer than that, and a cache that stays wrong.
- A deleted user's API keys stay valid, and every key is an administrator's
  (`Inside` in `OutStaysOut` counts keys).
- The preset "all" of a request means "not asked" to the job, which falls back
  to the saved selection; a custom selection none of whose sources is in sight
  means all of them.  An administrator's sync leaves out libraries that his
  rebuild includes, since only the rebuild looks his role up; `NobodysPrivateSource`
  allows the rebuild what an administrator may see.
- The local source a pairing leaves out can be another owner's with the same id.
- In the vault, overlapping operations, a copy that was cut short, and a first
  push without a clone commit what they find (`risk`).  After a commit whose push
  failed on the network the next push answers "nothing to commit".  Where git
  has no identity, as in the container `apps/api/Dockerfile` builds, every commit
  fails: its pages stay in the work tree and in git's index, and every pull
  copies them to the wiki beside what the vault has.  `Kept` is the name of both,
  and `WikiFollowsVault` then promises the work tree.  Once such a server is also
  `behind`, no pull need succeed any more, and nothing is promised.

**Bounds, and why they are enough.**  Two request threads and the scheduler are
all pairs of starters there are; three jobs let a job start while the summary of
an earlier one is still being polled and a third follow on a leaked or returned
flag.  One database error and one crash reach every place where either can
happen, in every order.  In `SourceIndex` two disk changes write a file and then
change it, remove it or take its root away, between any two steps of a pass (that
a root comes back is not counted); what a third could do, a second pass that
follows on the first shows, since a pass begins with whatever the one before it
left.  Two paths separate the file that is edited from the one being indexed.
One source is enough where no property relates two: the passes take them one
after the other, and the theorems have no such bound.  In `SourceIndex_ingest`
two faults are a reindex that raises and a job that raises, or dies, beside it;
encodings are left to the other run, since no property there reads a text.
Stamps never repeat, since an edit that keeps both mtime (in nanoseconds) and
size is the one the skip rule is documented not to see.  In `SourcesConfig` one
id is enough, since handlers of different ids meet only in the texts they
overwrite; it names a pair in `sources.yaml` and a member's library at once.  Two
changes are a pair that overlaps; a third would repeat one of the pairs, and the
theorems have no such bound.  In `Selection` one change between acceptance, start
and reading is each way a value read early can be stale; two saves are the
caller's and another's.  In `Access` relative times of 1 and 2 distinguish idle,
expired and long-lived rows.  In `Vault` one foreign push makes a divergence, one
fault cuts any step or fails any commit, and with two answers the limit of one,
for 80, cuts the list; the run has an identity, so that commits succeed or fail,
and `NoPageLeavesTheVault` covers the server that has none.
`MaxExponent` is 1023 in CPython; 1 shows the same three regions (counting,
last representable delay, overflow).  `started`, `edits`, `faults`, `crashes`,
`head` are bounded only by the guards with the `Max*` constants; the
theorems hold for every value of these.

`SyncLocks` alone sets `CHECK_DEADLOCK FALSE`: requests and writers are
finitely many there, and when all were served nothing is left to do.

**Fairness.**  A thread that can take its next step does take one (`WF` per
thread or per job): the interpreter and the operating system run every
runnable thread, and no step waits for something outside the model.  In
`SourceIndex` and `RemoteSync` the start of a sync is strongly fair, which is
what an automatic sync, or users who press the button, amount to: a start that
is possible again and again happens.  `SyncLocks` has `SF` on leaving the loop
over the sources, which are finitely many.  Next-retry times and the hour of a
cached robots.txt pass (`WF` on `RetryTimeComes`, `RobotsExpire`), and so do
seconds and buckets (`Tick`, `NextBucket`).  In `Vault` a sync that pulls and
does not push, which is what the scheduler starts, is strongly fair, and an
outage ends.  Nothing is assumed of users, polls, edits, faults or crashes, nor
that anybody ever pushes; `RemotesCatchUp` assumes of the remotes, inside the
formula, that they answer from some time on, all of them.

## 4. Theorems

All hold for every value of the constants that satisfies the module's named
`ASSUME`; the additional premises are stated in the theorem.

| theorem | premise | argument |
|---|---|---|
| `SyncJobsProofs!TypeCorrect` | - | by action |
| `FlagOwned` | - | inductive with `TypeOK`: only a database error parts a thread from the flag it holds; also with overlapping jobs |
| `ManualExclusion`, `ManualFlagHeld`, `ManualPublication`, `ManualCountersRecorded`, `ManualSummariesAdvance` | `~AutoSyncAllowed` | `ManualInv`: at most one responsible thread, it has the flag, its job is newer than every row until it records, and is the row's job afterwards; what a poll has loaded is not newer than the row |
| `LeakIsPermanent` | `~AutoSyncAllowed` | no thread is responsible, so none can clear; `Request` needs a clear flag |
| `ManualImplementsService` | `~AutoSyncAllowed` | initial states map to initial states, every step to one of `JobService` or a stutter, using `ManualInv` for "newer than all before" |
| `SourceIndexProofs!TypeCorrect` | - | by action, with lemmas on the table writes |
| `PairsPartedByReindexOnly` | - | `PairInv`: a pair that is whole in the last commit and parted in the open transaction is the one its thread is at, between two statements, or was left by an exception that a reindex caught (`OneAtATime`, `AtItsRow`); only `LeaveSource` and `Finish` commit, and neither is at a row |
| `JobStampsHonest` | `Ingesters = {}` | `HonestInv`: stamps are given once; a remembered encoding is one the file was saved in, so what is decoded with it while the file still has the statted stamp is `Readable`; the row the pass compared with is still the one it writes to, or gone |
| `JobKeepsDocuments` | `Ingesters = {}` | `KeepInv`: a committed row the open transaction lacks belongs to the source a rebuild has open, and its file is still to be written, was too big or was not listed, or to the sweep of a file not listed |
| `SyncLocksProofs!TypeCorrect` | - | by action |
| `StartedAlone` | - | `AloneInv`: the flag is set from "started" to the job's last step, so no second request gets past its test |
| `LimitHolds` | - | `LimitInv`: who counts, records or writes holds the write transaction, so what a request has counted does not grow before it records |
| `RemoteSyncProofs!TypeCorrect` | - | by action; the failure count stops at the overflow |
| `EtagsAreHonest` | - | `EtagInv`: etag ≤ snapshot ≤ server |
| `SourcesConfigProofs!TypeCorrect` | - | `Texts`, `Seats`: every text a thread holds is one of a file, mixtures included (`NewGlobalFile`, `NewPrivateFile`, `MixedFile`) |
| `CacheIsOfThisBucket`, `UnsharedIsHidden` | - | `Lists`: a call whose bucket is not over has read each file since the bucket began, so what it stores is fresh; a new bucket ages every call under way |
| `AccessProofs!TypeCorrect` | - | `NamedInv`: a login past its check is one of an account |
| `EndedSessionsStayEnded` | - | only `CreateSession` writes a row where there is none, under an id never drawn before |
| `DeletedAccountsStayOut` | - | no step gives a thread, a row or a key the name of a deleted account that had none |
| `SelectionProofs!TypeCorrect` | - | by action; the filters keep a list a list (`PartOfAList`) |
| `MySelectionIsMine` | - | only a save writes rows; a save of somebody else reaches a user's reading through the global rows alone, which his own rows hide |
| `OnlyWhatTheUserMaySee` | - | inductive with `TypeOK`: filter, order and plan only leave sources out of what `load_sources_for_user` returned for the role that the job looked up |
| `TheSelectionBoundsTheJob` | - | `KeysAreKept`: from its acceptance on, a job of a saved selection holds a list of explicit keys that is not empty and not `Everything`; a key of the selection that is not in sight any more selects nothing |
| `JobsKeepTheOrder` | - | by `SourceOrderIsKept` (the first key that names a source decides its place, each key has one) and `PlanProperties` (the plan takes the types one after the other) |
| `OrderingIsAPermutation` | - | the sort keys of two places differ, so the sort is a bijection of places |
| `VaultProofs!TypeCorrect` | - | by action |
| `NoPageLeavesTheVault` | - | `CommitsInv`: the commit that waits to be pushed was made from `base`, and `base` is what the remote has unless `behind`, which refuses the push; `PagesInv`, as long as nothing overlapped or was cut short: a page of the commit to come is in the work tree or still to be copied there, and one of those is in the wiki or still to be copied there |

The premises are those under which the code keeps the promise: without
`~AutoSyncAllowed` exclusion fails (violation 1), with ingesters stamps lie and
a reindex drops rows in commits of its own.

Why the invariants are needed: none of the properties is inductive.  A state
that satisfies `NobodysPrivateSource` can hold sources that are no list,
`SelectionIsKept` says nothing of the keys while a job waits, `VaultKeepsPages`
nothing of a half-copied work tree that the next step commits.  Each inductive
invariant was first checked by TLC on the instance of its run.

`Selection` defines its lists so that a proof can open them: `InOrder` gives the
nth member of an ordered set by counting those before it, and filters
(`AtPlaces`, `Where`), `Distinct`, `ExpandSyncKeys` and `ApplySourceOrder` are
made of it, where the library's `SelectSeq` and `SortSeq` are recursive.
`InOrderProperties`, `PartOfAList`, `DistinctProperties`, `ExpandProperties` and
`SourceOrderProperties` say once what they return.

**Only model-checked.**  Everything temporal beyond `[]` (liveness under
fairness is out of the prover's reach): `FlagIsReturned`,
`StartedJobIsRecorded`, `SchedulerReportsBack`, `NobodyWaitsForEver`, both
`IndexCatchesUp`, `RemotesCatchUp`, `RefusalIsHeard`, `EventuallyListed`,
`LostAccessRunsOut`, `WikiFollowsVault`.  Every safety property of a passing run is
a theorem but `RebuildMendsPairs`.  `PairedIds` is
a fold over a list, so that a plan leaves out only paired local sources is not
proved either.

**Assumptions on the constants** say what the code takes for granted: users,
threads and paths are what they are said to be, finitely many threads, sentinels
(`NoUser`, `Everything`, `NoCommit`, `Garbled`, ...) are none of the values they
stand beside, bounds are numbers; in `Selection` a source has an id, one of the three
types the code knows, an owner, a flag and an order, and posted keys are lists.

## 5. What the models leave out

- *In `SyncJobs`*: the message, warnings and counters of a summary; the refusal
  of a request (it changes the audit log only; `SyncLocks` has its locks).
- *In `SourceIndex`*: the include and exclude patterns, language, title
  and tokens of a row; whether the first encoding that decodes a file is the one it
  was saved in (a text is what that encoding makes of it); entries whose row is
  gone (search joins by the row's id, which never comes again); a SELECT of rows to
  delete is one step with the first DELETE; the fallbacks of `resolve_source_root` (a root
  exists or not); the same id in both YAML files with two owners; deleting a
  source is one step for the YAML file and the rows; time does not go back.
- *In `RemoteSync`*: how pairs are found is the constants `Stocked` and `Bare`
  (`Selection` has the pairing); two web sources that share a snapshot
  directory; versions go up only; nobody removes a clone or snapshot by hand;
  the indexing of a source is one step (`SourceIndex` opens it).  The minimum
  interval between fetches of a host is a delay of the one job that fetches.
- *In `SourcesConfig`*: urls, paths, order and notifications; a reader that meets
  the first part of a text longer than one write of Python's buffer; which of two
  users' libraries with one id is listed first is left open.
  `admin_delete_source` looks for the owner to notify in the list it has just
  removed the entry from, so nobody is ever notified.
- *In `Access`*: `login_failures` and `locked_until`, which only
  `mark_login_failure` would write and nobody calls; CSRF tokens; the warnings
  of `security.py`.
- *In `Selection`*: the strings of keys (a key is a pair), labels and paths of
  presets, sources of a type other than local, github and web.  `docs/reference/sources.md` names a preset `sources` that does not
  exist; like any unknown one it is stored as "all".
- *In `Vault`*: `purpose.md` and the manifest, which travel with the pages;
  `log.md`, of which two overlapping touches lose a line that nothing restores.
- *External*: git, web servers, SQLite itself (one writer, snapshot of the last
  commit to readers, rollback of what was not committed), the operating
  system's files.
- *No model*: read-only parts (search, library, graph, lint, health, assets);
  text processing (tokenizer, extraction, classification); the web client, CLI,
  MCP and scripts, which are clients of the modelled endpoints or run by hand.

## 6. Plan

Done, in this order: `SyncJobs` with `JobService`, `SyncLocks`, `SourceIndex`,
`RemoteSync`, `SourcesConfig`, `Access`, `Selection`, `Vault`, and a proof
module for each, with every safety property that a run checks but one.

Next, most important first:
1. A composition of `SyncJobs` and `SourceIndex`: overlapping jobs over one
   index (now each is checked with the other abstracted).
2. The two-owner case of `documents`, whose key has no owner: rows of a source
   with the id of another's.
3. What of a deletion in `sources.yaml` survives beside other handlers: which pairs
   of handlers can undo each other, and which cannot.
4. `log.md` and the status page of the vault; the queries of health and lint
   against tables that change between two of their statements.
