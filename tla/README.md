# chbackup in TLA+

A verification project for chbackup, a backup tool for ClickHouse: TLA+ modules
translated from the Rust source, TLC configurations that check them on small
instances, and TLAPS proofs for instances of every size. Paths below are relative to the
repository's root (`src/lock.rs`); `PROJECT.json` maps every definition to its lines.

## 1. The system

chbackup is one binary. The command line runs one command per process; `server`
offers the same commands over HTTP and can run a watch loop. Any number of these
processes may share one machine (lock files, local backups) and one S3 bucket.

| Component | State it keeps | Operations | What makes it correct |
|---|---|---|---|
| PID locks (`src/lock.rs`) | lock files in a directory: one per backup, one global, one gate | `acquire_scoped`, `PidLock::drop` | the tiers exclude each other, nothing leaks, stale files never block |
| Operation registry (`src/server/state.rs`, `actions.rs`) | semaphore, `running_ops`, action log | `try_start_op`, `queue_start_op`, `finish_op`, `fail_op`, `kill_op`, reload | one operation at a time in serial mode, one per backup name, no leaked permit, every operation ends |
| Upload (`src/upload/`) | local manifest, resume state, objects | `upload`, parts workers, manifest last | a published manifest is complete and its objects exist |
| Retention, `clean_broken`, `delete` (`src/list.rs`) | bucket contents | `retention_remote`, `clean_broken_remote`, `delete_remote` | what is kept stays restorable; only garbage is deleted |
| Diff (`src/backup/diff.rs`) | - | `diff_parts` | a carried part names a key that exists |
| Create and freeze (`src/backup/`) | shadow directories, local manifest | `create`, FREEZE/UNFREEZE | every freeze is undone or recorded |
| Deferred freeze (`src/backup/deferred.rs`) | a record per backup: owner, TTL | publish, adopt, demote, release, reap | a record in use is never reaped; an abandoned one is |
| Watch loop (`src/watch/mod.rs`) | last full/incremental, error count | one cycle, reload, stop | full backups in time and after errors; stop stops |
| Server (`src/server/mod.rs`, `routes.rs`) | operations, config and clients, batch task, background task | request handlers, batches, reload, restart, auto-resume, shutdown | configuration and clients belong together; what is reported is visible |
| Manifest cache (`src/list.rs`) | a list with a time stamp | get, fetch, set, invalidate | a stale list gives way to a true one |
| Download (`src/download/`) | part directories, `metadata.json`, resume state | parts workers, hard links, CRC retry | a finished download is complete, a state file is truthful |
| Restore (`src/restore/`) | ClickHouse tables, `detached/`, resume state | phases, attach, retry rounds | success means every part is there, once |
| DDL rewriting (`src/restore/remap.rs`) | - | `--as`, `-m`, `rewrite_create_table_ddl` | exactly the renamed table's references change |
| S3 client (`src/storage/s3.rs`) | multipart uploads in the service | copy, delete, list | a copy is whole, nothing stays open unreported, deadlines hold |
| Configuration (`src/config.rs`, `concurrency.rs`) | - | layers, `validate`, effective values | the strongest source wins; what is accepted works |
| Command line (`src/main.rs`, `cli.rs`) | local and remote backups, locks | every command that ends | the exit code tells what happened |
| ClickHouse client, object disks, rate limiter, logging, metrics, paths, filters, authentication | - | I/O, parsing | covered by the repository's tests |

Interactions. Every mutating command runs under a lock scope (`lock_for_command`):
the commands on one backup under that backup's lock, `delete` and the `clean`
family under the global lock. In the server a command also needs a permit and an entry in
`running_ops`. `upload` runs in a task of its own, so that dropping the caller
(`/kill`) does not drop the copy; the caller's PID lock and permit are gone then, the
upload is not. After an upload the same command runs remote retention, still under
its own backup's lock. Manifests in S3 tie backups together: an incremental backup
references keys under other backups' prefixes. Local backups are tied together by hard
links and by the freeze records that an upload, a reaper or `release-deferred` takes over.
State files tie a run to the one that resumes it, which after a restart the server starts
by itself.

Hard behaviours: lock files judged and removed by several processes; crashes between
any two steps; uploads, retention passes and `clean_broken` side by side; batches
that fail in part; kills at every point, with blocking work that goes on afterwards; a
reload that replaces the semaphore or the clients; state files written before, after or
without what they record; requests the client has given up and the service carries out.
The list with lines is under `hazards` in `PROJECT.json`.

## 2. Modules

| Module | Models | Role |
|---|---|---|
| `LockTiers` | what the locks promise: scopes granted atomically | abstract specification |
| `ScopedLock` | `src/lock.rs`, one action per file-system call | detailed specification, implements `LockTiers` |
| `ScopedLockProofs` | theorems about `ScopedLock` | TLAPS |
| `BackupStore` | create's manifest, upload, retention, `delete_remote`, `clean_broken` on one bucket; locks as in `LockTiers` | specification |
| `BackupStoreProofs` | manifests, `clean_broken`, retention | proofs |
| `OpManager` | the registry of the server | specification |
| `WatchLoop` | `run_watch_loop`, and how the server starts, stops, reloads and ends it | specification |
| `OpsWatchProofs` | permits, entries, exclusion per name; one loop, errors, cadence | proofs |
| `DeferredFreeze` | create's FREEZE and UNFREEZE, the deferred record, what upload, local deletion, clean and the reaper do to it | specification |
| `DeferredFreezeProofs` | who owns a record, who tracks a freeze | proofs |
| `Restore` | `restore` with its phases, attach modes and resume state | specification |
| `RestoreProofs` | the state file, what a restore that returned Ok has done, the order of the phases | proofs |
| `Download` | `download` with its tasks, hard links and resume state, `delete_local` | specification |
| `DownloadProofs` | what a state file and a download that returned Ok promise | proofs |
| `S3Client` | server-side copy, batch delete, listing | specification, its own instance |
| `S3ClientProofs` | copies of every size | proofs |
| `Server` | handlers, batches, manifest cache, reload, restart, auto-resume, shutdown | specification |
| `ServerProofs` | the cached list, reloads, locks, batches | proofs |
| `ConfigLoad` | settings, layering, `validate`, effective values | operators |
| `Cli` | the commands of `main.rs` over the stores, up to the exit code; EXTENDS `ConfigLoad` | specification |
| `Remap` | `--as`, `-m` and the DDL rewriting | operators |
| `MCCommands` | composes `Cli` and `Remap` with the inputs of the pure algorithms | model checking |
| `MCScopedLock`, `MCBackupStore`, `MCOpManager`, `MCWatchLoop`, `MCDeferredFreeze`, `MCRestore`, `MCDownload`, `MCServer` | instances | model checking |

Definitions whose comment starts with "Mutant" are deliberate faults: each
stands next to the operator it replaces, and shows that a property would notice.

### ScopedLock

A *task* is a command in flight; `ProcOf` gives its process. `pc` follows a task
through `acquire_scoped`: the gate's `PidLock::acquire` (`lvl = "gate"`), the
cross-tier check, the scope's `PidLock::acquire` (`lvl = "scope"`), the return that
drops the gate, the held lock. In `PidLock::acquire` publishing (link), reading,
judging and removing are separate steps, since another process may run in between.
`tries` has the three loop counters. A lock file's content is the task and the
incarnation (start token) of its process, `Corrupt`, or `NoFile`. A process may exit
(only without a lock), crash anywhere, and start again under its PID with a new
token; with `HasToken = FALSE` (no `/proc`) a recycled PID counts as alive. File-system
calls may fail, up to `MaxIoFaults` times. `breach` is a history variable: a live
holder's file was removed by a takeover, or overlooked because it could not be read.

Abstractions: the temporary file of a publication is not a path of the model (a
left-over one makes the link fail, `PublishFails`); the unlink in `Drop` does not
fail; sleeps are steps.

### BackupStore

Backups are numbered in the order of their creation, which is the order retention
sorts by. A manifest is a set of parts with source and key; `local` and `remote` hold
the manifests, `objects` the part objects, `young` the prefixes written within
`clean_broken_min_age_secs`, `state` the resume files, `op` the commands in flight
with their locals. `Workloads` gives the sets of options and commands an instance uses,
one of which a behaviour chooses at first (`commands`); "in_order" is the discipline of
the watch loop: create, upload, then the next.

Abstractions: local and object-disk parts share one action (both write the part's
object, record it and may fail or be cancelled); a part name stands for its content
(`diff_parts`' CRC test); local deletion and local retention are left out; `/kill`
of the retention step and a failing save of the local manifest look like a crash at
that point; a deletion of many objects is one step with any subset left behind.
`Age` assumes what the configuration asks for: an upload in flight writes within
`clean_broken_min_age_secs`, and a `clean_broken` run does not outlast it.
`MaxMisreads` bounds the manifests that `list_remote` fails to read; it is 0 in the
passing runs, and 1 shows a divergence.

### OpManager

A request is one command of an API call; `QueueReqs` come through `/backup/actions` and wait,
the others are refused when no permit is free. The semaphore, the log's mutex and
`running_ops`' mutex are never held together, so each critical section is a step. `sem`
numbers the semaphore instances a reload creates; `waiters` are their FIFO queues. `Namings`
gives the backup names the requests may have between them. `kill_op` takes the entries out,
cancels their tokens one by one and writes the log, with nothing locked in between.
Abstractions: one `kill_op` call at a time; the command itself is the label "run", ending in
success or failure; panics are not modelled.

### WatchLoop

A *loop* is one call of `run_watch_loop`: the one `start_server` spawns (`Boot`), or
the one of a `watch_start` request. `loop[l]` has its `WatchContext` (error count,
`force_next_full`, limit) and its place in the body: the checks at the top, list,
lock, create, upload, clean-up, sleep. `active` is the watch status, `tx` says whose
channels `AppState` has, `stopped` and `reload` are what was sent and not yet seen.
`watch_start` reserves the slot, installs its channels and spawns in three steps, as
it awaits in between; `watch_stop` looks and sends in two.

Abstractions: the bucket is reduced to the ages of the last full and the last
backup, in ticks; time passes only while loops sleep, so a cycle takes none; a
reload changes the error limit only; error counts saturate at `ErrorCap` and ages at
`AgeCap`, beyond every comparison made with them. The lock is a flag: what it
excludes is the subject of `LockTiers`; a refusal is one of the faults of
`AcquireLock`. The `watch` command of the CLI is the loop without requests.

### DeferredFreeze

`shadow[b]` are the tables ClickHouse holds frozen for backup `b`, `record[b]` its
`deferred_freeze.json` (owner process, expired or not, tables retained), `dir` the local
backup, `op` the operations with their per-table tasks and registry. `create` sends FREEZE per
table in concurrent tasks (sent, answered and collected are separate steps, and an answer may
be lost after the freeze), splits what it keeps from what it undoes, writes the record and
demotes it at the end; `upload` adopts the record, copies, releases; `create` also reaps the
expired records of others, re-reading each under its lock; `release-deferred`, `delete`,
`clean` and `clean_broken` meet the record on their way. Every write of the record may fail,
with the code's way on: `adopt` copies without a claim, `demote` and `retain_failed` leave the
record as it was. A kill drops the future, and its lock, at any await; spawned tasks and a
detached upload go on. A record that is published makes its directory again where that is
gone (`save_state_file`).

Four history variables carry the exceptions of the properties, each for the table or upload
it concerns and no other: `leaked`, freezes that no operation tracks any more, by cause (a
failed UNFREEZE outside a release, a lost FREEZE answer, a detached task, a kill, a crash, an
owner that could not be written away, a killed upload's late write); `gone`, frozen data that a
release or a `clean` without a name took; `copied`, uploads beside which another one of the
backup has copied all; `waived`, uploads beside which an operator, a failing upload or a
`clean` without a name has let go, or whose claim was not written.

Abstractions: one record write is one step that happens or fails; a table is one freeze;
time is the step `Expire`.

### Restore

`run` holds up to `MaxRuns` restores one after another; of each, `pc` and the locals of
`restore()`. `tab` is the state of each object in ClickHouse, `live` its parts, `staged`
the `detached/` directory, `file` and `sidecar` the two state files. A live part is a pair of
the name it now has and the manifest part whose data it holds, because ATTACH PART gives a
new block number; this is what the merge of `system.parts` with the state file is about. The
phases follow the code: preflight of ATTACH TABLE mode, drop, create in rounds, parts per
table (staged, attached under the semaphore, recorded in the state file, sequentially for
deduplicating engines), mutations, streaming tables, views in rounds, RBAC, completion state.
Any statement may fail, an answer may be lost after its effect, a part's source may be
missing, the process may crash, and a killed restore's tasks go on. An ATTACH PART may be
answered with `DUPLICATE_DATA_PART` (235) or `PART_IS_TEMPORARILY_LOCKED` (384), which
`classify_attach_error` takes for benign: the part is not attached, not counted as skipped, and
the restore goes on. `benign` remembers these parts; the properties except them by name, and
`SuccessMeansAll` and `StateExact` are the same without the exception.

Abstractions: merges, remapping and macros are left out; a round of retries tries its
objects in one step each; the replica checks are a fault of the statement they precede.

### Download

`disk[b][p]` has the two files of a part that matter: `checksums.txt`, whose CRC64 is compared
unless the manifest has none (`NoCrc`), and the rest, which nothing checks; contents are
whole, torn, damaged in transfer or those of another version, and either file or both may
arrive damaged. What the code can know of a file is `Passes`; the properties claim no more,
and `DamageNoticed` is the claim that it refutes. Archives are unpacked file by file and may
fail in between. `op` is a run of `download()`, its tasks under `download_concurrency`
permits; `orphan` is the blocking unpack of a killed run, which goes on. `state` is
`download.state.json` (keys and disk map; written before the parts only if the manifest has a
disk map, `Mapped`) and `meta` the version `metadata.json` describes, which is truncated, then
written, and may fail at both. `sealed` remembers that no run has got at the parts since:
`list` goes by `metadata.json` alone, so this is what it can promise. `remote` may be deleted
and published again under the same name. `loose` is a history variable: the parts that were
linked from one that was not whole, or written by a killed run's unpack, and neither fetched
nor removed since.

Abstractions: disk selection is a constant (`OtherDisk`); object-disk parts only fetch their
metadata files; the space check and rate limiter are left out.

### S3Client

One `copy_object_with_retry_jitter` with all it may turn into: HEAD, CopyObject or a
multipart copy, three attempts, the streaming fallback. Sizes are in units; `dest` is the set
of units of the destination object, `ups` the multipart uploads the service knows, `late`
the requests that the client has given up and the service may still carry out. Time is what
the requests of one copy have used of the object's budget. Beside it, a batched delete and a
paged listing over `objs`. Left out: pauses between attempts and the jitter, encryption and
storage class, the upload of a stream.

### Server

An operation is a list of steps (`Steps`), each with its effect on `local`, `files` (state
files) and the bucket its client was built for. `cache` is the `ManifestCache`; a list request
looks, fetches and stores in three steps. A list knows since its fetch which operations it has
seen (`asOf`) and which have invalidated the cache while it was on its way (`raced`). `live`
has the versions of configuration and the two clients in `AppState`, `disk` the version of the
file; a reload reads, builds, checks and stores them one by one. `batch` is the task of a POST
to `/backup/actions`, `boot` the background task of `start_server` (integration tables,
auto-resume). A `scene` says what a behaviour contains besides requests and kills: nothing, a
batch, a changed configuration, or a stop and the start after it. Admission is one step here;
what it is made of is `OpManager`'s subject.

### ConfigLoad, Cli, Remap

`ConfigLoad` lists every setting with its type, width and default (two of them for
`sync_replicated_tables`: that of the section and that of serde) and has the file, the
environment with the aliases of clickhouse-backup, and `--env` as layers of texts; readability
by type, `validate` and the effective values are operators. `Cli` runs commands in processes:
configuration, name and shortcut, lock, steps, retention, exit code; a step is its beginning
and its end, since others see what is half done. `delete` and the `clean` family take the
global lock, local retention takes none: `robbed` remembers the commands whose backup it
removed under them. Backups with a deferred freeze (`held`) are refused or passed over by
local deletion. `Remap` works on statements as sequences of tokens: rename, UUID, replica
path, Distributed reference, ON CLUSTER, `replace_uuid_macro`, and the path that the replica
conflict check reads. `MCCommands` composes them: a behaviour is either two commands over a
small store or one input of a pure algorithm, against a reference definition (`InForce`,
`Reliable`, `Renamed` with `Render`).

Abstractions: YAML and clap are parsers of texts for keys; quoted identifiers and literals
are single tokens, so the scan for the end of a literal is not modelled.

## 3. Runs

Run with `tlc -config <run>.cfg <module>` in this directory.

| Run | Bounds | Shows |
|---|---|---|
| `LockStable` | 3 tasks in 2 processes, names `a` and `global`, no faults | type correctness; `ScopedLock` implements `LockTiers` |
| `LockFaults` | 2 processes, 1 exit, 1 crash, 1 I/O fault, a corrupt gate, 3 attempts for 1 unparseable read | exclusion up to the first breach; no leaked lock file; every acquisition returns, one that runs alone succeeds |
| `StoreWatch` | 3 backups, 2 parts, one command at a time, keep 1, a kill, 1 crash, 1 S3 fault | kept backups are restorable; their data stays under listed backups; a published manifest is complete |
| `StoreClean` | 2 backups, 2 parts, 2 commands, keep 1, 1 crash, 1 S3 fault; either kills, or create-time diffs, resumed uploads and `delete_remote` | `clean_broken` spares what a valid manifest references and what an upload may still publish |
| `Ops` | 1 direct and 2 queued requests in every combination of conflicting names, log of 2 entries, 1 kill, 1 reload to parallel mode | serialization, exclusion per name, no leak, every operation ends |
| `WatchFaults` | the server's loop, 2 starts, 1 stop, 1 reload, 1 shutdown signal; intervals of 1, 2 and 1 ticks, no error limit or 2, every step may fail | one loop at a time; after an error a full backup; full backups in time; a stop that was received ends the loop; the lock comes back |
| `FreezeFaults` | 2 backups, 1 table on an object disk, a server that may be restarted and a command line, 3 operations at a time, 4 in all, 1 fault or kill, 1 crash, `clean` with and without a name | what an upload copies stays frozen; no freeze is stranded but by the causes in `leaked`; a live owner is a running command or named in `leaked["owner"]`; what is recorded stays frozen but for what is in `gone` |
| `RestoreResume` | 2 tables (3 parts), a streaming table, 2 views that depend on each other, 2 runs, 1 fault (a benign answer is one), 1 crash or kill | success means restored, and the state file is truthful, but for parts answered with 235 or 384; duplicates are bounded; every restore ends |
| `DownloadResume` | 2 backups that share a part, 2 parts, one backup without CRC64s, hard links, 2 runs, 1 fault, 1 crash or kill, one name published twice | the state file is truthful; a listed backup is whole; success means complete: every file unpacked and past the check the code makes |
| `S3Copy` (`S3Client`) | objects of 3 and 5 units, copy limit 3, automatic and configured chunks, 4 faults, batches and pages of 2 over 4 keys | a copy is whole or absent; uploads are completed, aborted or reported; the budget holds |
| `ServerCache` | 2 requests and 1 list, each of the four scenes, 1 fault, 1 stop | a list served after a completed request was read after it, unless its invalidation fell between read and store; a reload swaps everything or nothing; a stale list gives way |
| `Commands` | 2 processes, 2 backups, 31 commands, 4 configurations (one keeps a single local backup), 2 stores; every setting in every layer; 336 CREATE statements under 4 renamings, 4 patterns, 3 mappings, 2 replica-path templates, with and without `replace_uuid_macro` and a recorded UUID | exit codes are true, but for a command robbed by another's retention; the strongest source is in force; accepted configurations work; a renamed statement is the source with its own references changed |

The bounds are the smallest in which the cases meet: two contenders and one process
that goes away are enough for a takeover, a third backup for a base of a base, two
queued requests and one direct one for every conflict, a log of two entries for an
eviction, a second run for a state file to be believed, two versions of a name for a state
file to be stale, two tables for one to be ahead of the other, an object of more than one part
for a budget to be shared. The retry constants are smaller than the code's (6 attempts, 3
reads, 40 tries of the gate, 10 rounds); what matters is their order, and smaller ones reach
exhaustion sooner.

Further configurations hold too and are kept for a change of the code: type invariants and
smaller promises of each module (`RestoreMore`, `DownloadMore`, `S3More`, `ServerMore`,
`CommandsMore`), and `FreezeCrash`, which is `FreezeFaults` with two tables, one of them on an
object disk, and 3 operations in all, 2 at a time.

Deadlock is checked for the locks only. The other modules have finite workloads (each backup
is created once, each request made once, `MaxRuns` restores) and stop when these are used
up; in `Watch*` the server may end, or its loop with no request left to start another.

Fairness. `ScopedLock!FairSpec`: weak fairness of each task's own steps (a running
process is scheduled, and a command that holds its lock ends); crashes, exits,
restarts and requests are never forced.
`OpManager!FairSpec`: the runtime polls ready tasks, commands return, tokio's
semaphore serves its FIFO queue, a `kill_op` that has begun ends. Requests, kills
and reloads are never forced.
`WatchLoop!WatchFairSpec`: the runtime polls the loops and the handlers that have begun,
list, create, upload and retention return, and time passes. Requests, signals and
the end of the process are never forced.
`Restore`, `Download`, `S3Client`, `Server` and `MCCommands`: weak fairness of the steps of
what has begun (statements and requests answer, fail or time out; the cache's time runs);
new commands, faults, kills, crashes and late effects in the service are never forced.
`BackupStore` and `DeferredFreeze` state safety only.

### Counterexamples

Each of these contradicts a line of the documentation, which `findings` in `PROJECT.json`
quotes unless the table does. The first group are configurations of their own.

| Configuration | Violates | What happens |
|---|---|---|
| `LockExit` | `ScopeExclusion` | two conflicting scopes are held after a takeover of a file that has just been replaced |
| `StoreRace` | `KeptRestorable` | retention deletes the base of another upload in flight |
| `StoreResume` | `PublishedComplete` | a resumed upload publishes a part without a key |
| `StoreChain` | `NoDanglingManifest` | a kept base loses its own base |
| `WatchLostStop` | `StopHeeded` | a stop between the reservation and the channel is lost |
| `FreezeClean` | `CleanSparesRecorded` | `clean` without a name removes recorded freezes |
| `RestoreParallel` | `SuccessMeansRestored` | a live part's new name is taken for another part's |
| `RestoreSubset` | `OnlySelectedDropped` | `--rm` with a filter drops whole databases |
| `ServerResume` | `AllResumed` | auto-resume gives up the second state file |
| `CliStale` | `ShortcutCurrent` | `latest` is resolved before the lock is taken |

The others are a configuration above with other constants:

| Instance | Violates | From | With |
|---|---|---|---|
| `LockCrash` | `ScopeExclusion` | `LockExit` | `MaxExits = 0`, `MaxCrashes = 1` |
| `LockUnreadable` | `ScopeExclusion` | `LockExit` | `MaxExits = 0`, `MaxIoFaults = 1` |
| `StoreCrash` | `NoDanglingManifest` | `StoreWatch` | `MaxBackup = 2`, `Part = {x}`, `Workloads = {{"in_order"}}`, `MaxFaults = 0` |
| `StoreDelete` | `NoDanglingManifest` | `StoreWatch` | `MaxBackup = 2`, `Keep = 0`, `Workloads = {{"in_order", "upload_diff", "delete_remote"}}`, no crash or fault |
| `StoreLocalDiff` | `PublishedComplete` | `StoreWatch` | `MaxBackup = 2`, `Keep = 0`, `Workloads = {{"create_diff"}}`, no crash or fault |
| `StoreMisread` | `CleanSparesLive` | `StoreWatch` | `MaxBackup = 2`, `Keep = 0`, `Workloads = {{"clean_broken"}}`, no crash or fault, `MaxMisreads = 1` |
| `StoreMisreadRetention` | `KeptRestorable` | `StoreWatch` | `Workloads = {{"upload_diff"}}`, no crash or fault, `MaxMisreads = 1` |
| `OpsKillFinal` | `TerminalIsFinal` | `Ops` | `Req = {r1}`, `QueueReqs = {}`, `Namings <- AnyNames`, `MaxReloads = 0` |
| `OpsKillOverlap` | `SerializedToTheEnd` | `Ops` | `Req = {r1, r2}`, `QueueReqs = {}`, `Name = {a, b}`, `Namings <- AnyNames`, `MaxReloads = 0` |
| `OpsQueue` | `QueuedIsNotRejected` | `Ops` | `Name = {a, b}`, `Namings <- AnyNames`, `Capacity = 3`, `MaxKills = 0`, `MaxReloads = 0` |
| `WatchStop` | `CycleCompletes` | `WatchFaults` | `Faults = FALSE`, `MaxWatchReloads = 0` |
| `WatchSigterm` | `ShutdownReachesLoop` | `WatchFaults` | `Faults = FALSE`, `MaxWatchReloads = 0` |
| `FreezeCancel` | `CancelUnfreezes` | `FreezeFaults` | no change |
| `FreezeDetached` | `NoneStrandedLate` | `FreezeFaults` | no change; an upload is killed between its UNFREEZE and the removal of the record, a second one releases and deletes the local backup, a new create of that name publishes its record, and the detached upload removes it ("the record must not be deleted while a table remains frozen", `src/backup/deferred.rs:494`) |
| `RestoreStale` | `SuccessMeansRestored` | `RestoreParallel` | `Blocks <- MCBlocks`, `Sequential = {t1}`, `Commands <- RmThenResume`, `Follows <- AnyOrder`, `MaxConn = 1`, `MaxRuns = 3` |
| `RestoreAttach` | `NoneLeftDetached` | `RestoreResume` | `Tables = {t1}`, `S3Tables = {}`, `Replicated = {t1}`, `Commands <- ResumeCommands`, `Before = {FALSE}`, `Losable <- NoLosable`, no crash or kill |
| `RestoreSchema` | `SchemaOnlySucceeds` | `RestoreSubset` | `Tables = {t1}`, `Commands <- KindCommands`, `Before = {FALSE}`, `MaxCrashes = 0` |
| `RestoreKill` | `KilledResumes` | `RestoreResume` | `Tables = {t1}`, `S3Tables = {}`, `Replicated = {}`, `AsAttach = FALSE`, `Commands <- ResumeCommands`, `Before = {FALSE}`, `Losable <- NoLosable`, `MaxFaults = 0`; a killed restore goes on attaching beside the resumed one (`docs/commands.md:187`) |
| `RestoreBenign` | `SuccessMeansAll`, `StateExact` | `RestoreResume` | no change; an ATTACH is answered with 235 or 384 |
| `DownloadLink` | `NoLooseEnds` | `DownloadResume` | `Resumes = {TRUE}`, no kill; a part is linked from a half unpacked one |
| `DownloadForget` | `ResumeKeeps` | `DownloadResume` | `Backups = Mapped = {b1}`, `Resumes = {TRUE}`, `Hardlinks = {FALSE}`, no kill |
| `DownloadAgain` | `FinishedStaysFinished` | `DownloadResume` | `Backups = Mapped = {b1}`, `Resumes = {FALSE}`, `Hardlinks = {FALSE}`, no kill |
| `DownloadRepeat` | `RepeatSpares` | `DownloadResume` | the same; a failed repetition leaves a listed backup with torn parts |
| `DownloadSave` | `SuccessMeansComplete` | `DownloadResume` | `Backups = Mapped = {b1}`, `Hardlinks = {FALSE}`, `SaveFails = TRUE`, no kill, `MaxRuns = 3`, `MaxInterrupts = 2` |
| `DownloadStale` | `SuccessMeansComplete` | `DownloadResume` | `Backups = Mapped = {b1}`, `Resumes = {TRUE}`, `Hardlinks = {FALSE}`, `MaxVersion <- MCVersionsAll`, `StaleResume = TRUE`, no kill |
| `DownloadKill` | `NoLooseEnds` | `DownloadResume` | `Backups = Mapped = {b1}`, `Resumes = {TRUE}`, `Hardlinks = {FALSE}`, `MaxRuns = 3`, `MaxInterrupts = 2` |
| `DownloadGone` | `SuccessMeansComplete` | `DownloadResume` | `Backups = Mapped = {b1}`, `Hardlinks = {FALSE}`, `MaxVersion <- MCVersionsAll`, no kill, crash or fault, `MaxRuns = 1`; the backup is deleted while it is downloaded, the prefix of an object-disk part lists nothing, and the part counts as downloaded ("data objects stay in backup bucket until restore", `src/download/mod.rs:9`) |
| `DownloadDamage` | `DamageNoticed` | `DownloadResume` | no change; a file other than `checksums.txt` is damaged |
| `DownloadUnmapped` | `SuccessMeansComplete`, `ResumeTruthful` | `DownloadResume` | `Backups = {b1}`, `Mapped = {}`, `Hardlinks = {FALSE}`, no kill, `MaxRuns = 3`, `MaxInterrupts = 2`; without a disk map the state file of an older run is not replaced before the parts |
| `S3PartLimit` | `PartCountLegal` | `S3Copy` | `Sizes = {2, 3, 5}`, `Threshold = 2`, `ChunkSizes = {1}` |
| `ServerFresh` | `CacheFresh`, `OneFetch`, `ActionsServed`, `TablesDropped` | `ServerCache` | no change, except `Lister = {l1, l2}` for `OneFetch`; `TablesDropped`: a shutdown while the background task creates the tables leaves them (`src/server/mod.rs:180`) |
| `ServerReload` | `SwapComplete` | `ServerCache` | `Reloader = {r1, r2}`, `MaxVersion = 3` |
| `CliKeep` | `ExitStrict` | `Commands` | no change; local retention run by one upload deletes a backup another command is about to upload |
| `ConfigDocs` | `EnvComplete`, `DefaultsAsListed` | `Commands` | no change; settings without a variable, and the two defaults of `sync_replicated_tables` |
| `RemapOther` | `RemapOwnPath`, `RemapFollows`, `RemapQuoted`, `RemapTexts` | `Commands` | no change; a replica path that has no macro but `{uuid}`, a Distributed table over another renamed table, ``db.`my-table` ``, and a literal behind an engine without arguments |

## 4. Proofs

Each theorem holds for all values of the constants that satisfy the assumption of the
module (named in it; TLC evaluates it on every run), so for any number of tasks, requests,
backups, parts, faults, crashes and kills. Each component has an inductive
invariant, often in layers, a lemma per group of actions that shows it preserved, and the
theorems that follow.

**`ScopedLockProofs`**, from `ConstantsAssumption`:

- `TypeCorrect`: `Spec => []TypeOK`. The inductive invariant `TypeInv` adds to
  `TypeOK` what ties `pc` to the other variables: a task that is not idle runs in a
  live process and has a scope, only a checking task has files left to check.
- `Exclusion`: `Spec => []ExclusionUnlessBreach`. Neither exclusion is inductive:
  that two tasks do not both hold the gate follows from each finding *its* file at
  the gate's path. `ExclusionInv` says, as long as there is no breach: a task past
  the gate owns the gate's file (`GateFile`), a holder owns its scope's file
  (`ScopeFile`), a task in or past the cross-tier check has cleared what it need not
  read again (`Cleared`: no conflicting task of the other tier has a scope), and the
  scopes held do not conflict. `Cleared` is stable since nobody else can pass the gate.
- `NoLeak`: `Spec => []NoLeakedLock`, by `LeakInv`. This one holds after a breach
  too: a file that names a running process always belongs to a task that has it.
- `Refinement`: `Spec /\ []~breach => ImplementsTiers`. The mapping takes
  `holds[t]` to the scope of a task that has published its scope file; publishing is
  the abstract `Acquire`, `Release` and `Crash` the abstract `Release`, every other
  step stutters.

**`OpsWatchProofs`**. On `OpManager`, from `OpAssumption` (finitely many requests): `OpInv`
says where a permit can be: with a call that has yet to store or drop it, in an entry of
`running_ops`, or in an entry `kill_op` has taken (`PermitInv`); that an entry belongs to a
request on its way (`ControlInv`), that the queues hold each waiter once (`QueueInv`), and
that a serial semaphore has given out one permit at most (`SemaphoreInv`).

- `TypeCorrect`, and `NoLeak`: `Spec => []NothingLeaks`.
- `Serial`: `Serialized` whenever no permit of a replaced semaphore is still out, and
  `SerialBeforeReload`: in every state before the first reload. A reload of the concurrency
  mode replaces the semaphore while operations of the old one run, so `Serialized` does not
  hold without the condition; in run `Ops` the only reload leads to parallel mode.
- `OneOpPerName`: `Spec => []NameExclusion`, in every mode.
- `KilledStays`: the action property `KilledIsFinal`.

On `WatchLoop`, from `WatchAssumption` (its specification is called `WatchSpec`, so that one
module can extend both): `WatchInv` has `SlotInv` (the slot is held by
one loop or one `watch_start`; a running loop's channels are the installed ones) and
`LoopOK` (a loop with errors will make a full backup next; one past the check is below its
limit; one about to make an incremental has a recent full backup, and wakes up before that
is too old).

- `WatchTypeCorrect`, `SingleLoop` (`OneLoop`), `FullAfterErrors` (`ErrorsForceFull`), `Cadence`
  (`FullCadence`, for any intervals), `LimitHonoured` (`ErrorLimit`).

**`S3ClientProofs`**, from `BoundsAssumption`. Lemmas on the arithmetic of parts come first
(a chunk is never empty; the parts cover the object). `CopyInv` follows each multipart upload:
untouched until its attempt; while parts are sent it holds exactly those sent so far, and no
abandoned request can touch it; a completion that may still be carried out finds all parts or
no upload.

- `CopyIsCorrect` (`CopyCorrect`), `NoForgottenUpload` (`UploadsAccounted`),
  `BudgetIsHonoured` (`BudgetHonoured`), for every size, chunk size, limit and deadline.

**`BackupStoreProofs`**, from `StoreAssumption`. `BackupStoreInv` is built in layers, each
proved from the ones before: types; `LockInv` (a cleaner is alone but for killed uploads);
`ManifestInv` (what a manifest holds on its way to S3, and that an upload which has written
keeps its prefix young); `CleanInv` (every valid backup is protected, still to be read, or
young, while `clean_broken` plans and deletes); `RestoreInv` (the data of the kept backups is
there, and nobody is about to delete it). Some theorems hold in a mode only, as a hypothesis
on the chosen workload; the configurations in section 3 show what happens outside it.

- `TypeCorrect`.
- `ManifestsComplete`: `PublishedComplete` if neither `--resume` nor a diff at creation is
  used (`Fresh`); instances `StoreResume` and `StoreLocalDiff` show that both break it. Any
  number of commands.
- `CleanSpares`: `CleanSparesLive` if no listing has misread a manifest (`StoreMisread`) and
  uploads that were killed and run on are the only command or use neither diff nor resume
  (`Attached`). Outside, a killed upload can publish keys of a base that another command's
  retention has begun to delete, or resume into a prefix that is no longer young. Any number
  of commands.
- `KeptAreRestorable`: `KeptRestorable`, and `LiveDataListed`: `LiveDataIsListed`, if one
  command runs at a time, backups are uploaded in order, nothing was misread and there is no
  `--resume`, diff at creation or `delete_remote` (`InOrder`: the discipline of the watch
  loop). Any number of backups, chains of incrementals, crashes, kills, faults, retention and
  `clean_broken` passes. `StoreRace` shows that two commands side by side break it.

**`DeferredFreezeProofs`**, from `FreezeAssumption` (finitely many tables; any number of
backups, processes and operations). Each action has a lemma that says what it does to the
operation and the store, and most actions fall into a few kinds of steps (`Steps`). The
invariants come in layers:

- `TypeInv` and `LockInv` (`Base`): what fits each label (`Shape`), that a record exists
  exactly while it retains a table, and that an operation which was not killed holds the lock
  of its scope and of what it releases. `TypeCorrect` follows.
- `OwnerInv` gives `OwnerRuns`: `Spec => []OwnerIsRunning`. Inductive is only the sharper form
  in which the running operation is at a place where it will release or demote the record, or
  the write that should have done so failed.
- `TrackInv` gives `NoneStranded`: `Spec => []NothingStranded`. A record describes the backup in
  its directory, a create's record is disjoint from its registry, and who is releasing holds what
  the record retains, with everything else in the shadow tracked without it. The step lemmas
  rest on exclusion: who creates or releases holds the backup's lock. That fails for an upload
  that was killed and goes on to its release; so what such an upload's write of the record drops
  or brings back is remembered (`leaked["late"]`), and each statement holds but for that. That it
  really happens is the instance `FreezeDetached`.
- `PinInv` gives `CopiesPinned`: `Spec => []CopyPinned`. While an upload copies and nobody has
  let go beside it, the record retains what it claimed, its own process owns the record unless
  that was waived, and nobody creates or releases the backup.
- `FrozenInv` gives `RecordedFrozen`: `Spec => []RecordedStaysFrozen`. What a registry or a record
  names is frozen or in `gone`, from which a new FREEZE takes it out again.

None of the four has a hypothesis: they hold over failing writes, kills, crashes, detached
uploads and a `clean` without a name.

**`DownloadProofs`**, from `BoundsAssumption` (finitely many parts, none of them the string
that marks a missing state file). Every invariant is about one backup, so what a step does to
the others is one lemma (`SameKeeps`), and each action is shown to keep those of its own
(`Keeps`); the nine task actions share a lemma (`TaskKeeps`) that leaves only the part worked
on (`Holds`).

- `RunInv`: where a run stands. Tasks belong to the manifest's parts and are over once the run
  has left them, the remote backup is the version downloaded or gone, the state file is there
  unless it could not be written, and at most `download_concurrency` tasks are busy.
  `TypeCorrect` follows.
- `ClearInv` gives `DeletesAll`: `DeleteRemovesAll`, if state files are written. Without
  `metadata.json` and a state file there is nothing on the disks `delete_local` cannot find.
- `PartInv` gives `ResumeIsTruthful` (`ResumeTruthful`), `ListedAreWhole` (`ListedWhole`) and
  `SuccessIsComplete` (`SuccessMeansComplete`). `KeyInv` ties keys to tasks: nobody works on a
  key's part, every part of the manifest has a task or is a key, and the file holds keys of
  its own run only, because `Plan` empties it before the first part. `WholeInv` says what is
  on disk for each: an unpacking task has replaced the files it is done with by what it fetched,
  so that a part past its check has both files of its version, or damaged where nothing looks;
  keys are whole in this sense (`Intact`), and so are the parts of a backup whose `metadata.json`
  no run has got behind (`sealed`).

All three assume that state files are written (`~SaveFails`, `Mapped = Backups`) and
`S3PartsStay`, the last two also that no name is published again over old keys
(`~StaleResume`). `DownloadSave`, `DownloadUnmapped`, `DownloadGone` and `DownloadStale` show what
happens otherwise. `loose` parts are excluded in the properties themselves, and none of them
denies damage that the code does not look for.

**`ServerProofs`**, from `ServerAssumption`. The handlers are many and do little each, so a
first lemma says what a task's step can make of its operation (`Continues`), a start of a free
entry (`Starts`), and every step of the server is one of a few shapes (`StepShape`).
`ServerInv` then has `OpsInv`, `StoreInv` and `SwapTypes` (types, and an operation at its end
has nothing left to do), `PermitInv` (one permit in serial mode), `LocksDisjoint`, `CacheInv`
(a cached list, and one on its way to the cache, is younger than every operation past its
invalidation, not only those the log calls completed, or was overtaken by it on its way),
`BatchInv` and `BatchAlone` (the commands after the present one have not been started).

- `TypeCorrect`, `CompletedAreVisible` (`CompletedVisible`), `LocksExclude` (`LocksDisjoint`),
  `BatchInOrder` (`BatchAlone`).
- `ReloadSwapsAll`: `Spec /\ []SwapsApart => []SwapComplete`. `SwapInv` says which of the three
  stores have been made at each place of a reload. `SwapsApart` (no two reloads are between
  their first and last store at once) is needed: `ServerReload` is two overlapping reloads
  that leave a configuration and a client of different versions.

**`RestoreProofs`**, from `RestoreAssumption` (the tables' parts are finite and numbered from
1; streaming tables and views are not data tables). The invariants come in layers:

- `BaseInv`: shapes and phases. Part names of a table are unique and finitely many
  (`NamesInv`; so the next block number is new), a table with parts exists and only ATTACH
  TABLE mode detaches one (`TabInv`), a refused table counts with all its parts as skipped and
  each phase has created its objects (`PhaseInv`). `TypeCorrect` follows.
- `WorkInv` adds, for the restore at work: what it takes for attached is attached or was answered
  as benign (`Has`; `AlreadyInv`); each part of a planned table is that, skipped or still in its
  task's hands (`DataInv`); afterwards pending mutations cover every attached part (`MutInv`); and a
  restore that ends in Ok has skipped nothing (`EndInv`).
- `TruthInv` adds that the state file (`FileInv`) and everything a restore has still to write to
  it name attached data (`StateInv`), in the same sense. The latter is
  about *every* restore that may still write,
  killed ones included: their tasks go on.

The theorems are

- `StateIsTruthful`: `Spec /\ []DropsClean /\ []NamesTruthful => []StateTruthful`,
- `SuccessIsRestored`: under these and `EmptyTablesThere`, `[]SuccessMeansRestored`,
- `ExactWithoutBenign`: under all of these and if no ATTACH was answered with 235 or 384
  (`NoneBenign`), the strict `SuccessMeansAll` and `StateExact`,
- `PlainIsRestored`: `SuccessMeansRestored` of restores without `--resume` (`Plain`), which may
  drop beside any state file,
- `StreamingIsLast`: the action property `StreamingAfterData`.

The conditions are about what restores meet, not about how they interleave, and all of them
hold on the run `RestoreResume`. `DropsClean`: a restore that drops finds no state file of the backup
and no killed `--resume` restore that may write one; `RestoreStale` is the counterexample.
`NamesTruthful`: where a restore goes by the name of a live part, that part holds the
manifest's data of that name; `RestoreParallel` is the counterexample. Without either, all of
`StateTruthful`, `SuccessMeansRestored` and `StreamingAfterData` are false.
`EmptyTablesThere`: the selected tables without parts of a data-only restore exist (it does not
look at them).

Only model-checked:

- liveness (`AcquireReturns`, `SoloAcquires`, `EveryOpEnds`, `StopEnds`, `LockReturns`,
  `RestoreEnds`, `DownloadEnds`, `ListConverges`): the prover has no ENABLED;
- the pure algorithms (`ConfigPrecedence`, `ConfigUsable`, `RemapExact`) and `Cli`, which runs on
  them: what they compute on a sequence takes induction over it;
- `DuplicatesBounded`: it sums over the tables with a fold, whose properties take an induction
  with an operator parameter; and `ResumeNoop`;
- whatever the hypotheses named above exclude, on the bounds of the runs.

## 5. Not modelled

See `components` in `PROJECT.json`. Out of reach: the rate limiter (floating-point tokens
over wall-clock time) and panics, which may occur anywhere. Pure I/O or text: S3 signing,
SQL and row decoding, archive formats, object-disk metadata, request parsing and JSON,
path encoding and table patterns, authentication, metrics, progress and logging. Left out
of a modelled part, with no bearing on the properties: the order in which parts are
attached within a table (`sort`), free-space checks, ownership of restored files, RBAC export,
SYNC REPLICA and the wait for mutations before a freeze.

## 6. Plan

Modelled, checked and proved about: the locks, the bucket, the registry, the watch loop,
deferred freezes, restore, download, the S3 client and the server around the registry.
Modelled and checked: configuration, command line and renaming. Left to do: a proof of
`DuplicatesBounded` by way of a count kept in the model in place of the fold, and one of
`SwapComplete` without its hypothesis once reloads are serialised in the code.
