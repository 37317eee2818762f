------------------------------- MODULE Server -------------------------------
(***************************************************************************)
(* The API server around the operation registry: what each handler runs,   *)
(* the manifest cache its lists are served from, batches of commands,      *)
(* reload and restart, auto-resume and the integration tables after a      *)
(* start, shutdown.                                                        *)
(*                                                                         *)
(* An operation is a list of steps (Steps), each of which has its effect   *)
(* on the local backups, the state files and the bucket the operation's    *)
(* S3 client was built for, and may fail or be killed.  What the registry  *)
(* does with permits is in OpManager; here an admission is one step.       *)
(***************************************************************************)
EXTENDS Naturals, Sequences, FiniteSets

CONSTANTS
    Name,        \* valid backup names; the reserved shortcuts are among them
    Reserved,    \* "latest", "previous"
    Parallel,    \* api.allow_parallel
    Scenes,      \* what a behaviour may contain besides requests (see Init)
    Requests,    \* scene -> the typed requests a behaviour may make: <<kind, name>>
    Batch,       \* the commands of a batch: a sequence of <<kind, name>>
    BatchRoutes, \* endpoints batches are posted to: "actions" (rejects), "queue" (waits)
    Lister,      \* concurrent GET list and /metrics requests
    Reloader,    \* concurrent reload and restart requests
    ResumeAtBoot, \* api.complete_resumable_after_restart
    MaxOps, MaxVersion, MaxCrashes, MaxFaults  \* bounds

(* The commands of a batch; delete has its location in the name. *)
Actions == {"create", "upload", "download", "restore", "create_remote", "restore_remote",
            "delete_local", "delete_remote", "clean", "clean_broken"}

ASSUME ServerAssumption ==
    /\ Reserved \subseteq Name /\ DOMAIN Requests = Scenes /\ Parallel \in BOOLEAN /\ ResumeAtBoot \in BOOLEAN
    /\ Batch \in Seq(Actions \X Name) /\ BatchRoutes \subseteq {"actions", "queue"}
    /\ MaxOps \in Nat /\ MaxVersion \in Nat \ {0} /\ MaxCrashes \in Nat /\ MaxFaults \in Nat

VARIABLES
    op,       \* operation id -> its record
    local,    \* backups in {data_path}/backup
    files,    \* state files: <<kind, name>>
    remote,   \* bucket (= config version) -> published backups
    cache,    \* the ManifestCache
    lister,   \* requests in list_remote_cached
    disk,     \* version of the configuration file
    live,     \* AppState: the versions of config, ch and s3
    reload,   \* reload and restart requests
    batch,    \* the batch task
    boot,     \* the background task of start_server
    tables,   \* integration tables exist in ClickHouse
    scene, crashes, faults

vars == <<op, local, files, remote, cache, lister, disk, live, reload, batch, boot, tables, scene, crashes, faults>>
storeVars == <<local, files, remote>>
confVars == <<disk, live, reload, scene>>
bootVars == <<boot, tables, crashes>>

Ids == 1..(MaxOps + Len(Batch))
Versions == 1..MaxVersion
NoOp == [kind |-> "none", name |-> "", route |-> "", pc |-> "free", todo |-> <<>>, status |-> "none",
         begun |-> FALSE, s3 |-> 0]
EmptyCache == [full |-> FALSE, list |-> {}, asOf |-> {}, raced |-> {}]
NoList == [pc |-> "idle", got |-> {}, asOf |-> {}, raced |-> {}]
NoBatch == [pc |-> "idle", route |-> "", next |-> 1, cur |-> 0, log |-> <<>>]

(* A server that is up: what may still happen besides requests is a batch, a change of the
   configuration, or a crash or shutdown and the start after it. *)
Init ==
    /\ op = [i \in Ids |-> NoOp] /\ local = {} /\ files = {}
    /\ remote = [v \in Versions |-> {}]
    /\ cache = EmptyCache /\ lister = [l \in Lister |-> NoList]
    /\ reload = [r \in Reloader |-> [pc |-> "idle", v |-> 0]]
    /\ scene \in Scenes
    /\ disk = IF scene = "reload" THEN 1 ELSE MaxVersion
    /\ live = [config |-> disk, ch |-> disk, s3 |-> disk]
    /\ batch = IF scene = "batch" THEN NoBatch ELSE [NoBatch EXCEPT !.pc = "none"]
    /\ crashes = IF scene = "restart" THEN 0 ELSE MaxCrashes
    /\ boot = IF scene = "restart" THEN [pc |-> "ready", scan |-> {}, flag |-> FALSE]
              ELSE [pc |-> "serving", scan |-> {}, flag |-> TRUE]
    /\ tables = (scene # "restart")
    /\ faults = 0

Serving == boot.pc # "down"
MayFail == faults < MaxFaults
Fault == MayFail /\ faults' = faults + 1

-----------------------------------------------------------------------------
(* What each command runs. *)

Steps(kind) ==
    CASE kind = "upload" -> <<"upload", "retention">>
      [] kind = "create_remote" -> <<"create", "upload", "retention">>
      [] kind = "restore_remote" -> <<"download", "restore">>
      [] OTHER -> <<kind>>

(* The operations after which a route drops the cached list: auto_resume drops it for none. *)
Invalidates(route, kind) ==
    CASE route = "api" -> kind \in {"upload", "create_remote", "delete_remote", "clean_broken_remote"}
      [] route \in {"actions", "queue"} ->
             kind \in {"upload", "create_remote", "delete_local", "delete_remote", "clean_broken"}
      [] route = "resume" -> FALSE

lock_for_command(kind, n) ==
    IF kind \in {"create", "upload", "download", "restore", "create_remote", "restore_remote"}
    THEN {n} ELSE Name

Running == {i \in Ids : op[i].pc \notin {"free", "end"}}
WithPermit == {i \in Running : op[i].pc # "queued"}
Locked == {i \in Running : op[i].pc \notin {"queued", "lock"}}
Free == {i \in 1..MaxOps : op[i].pc = "free"}

Conflict(i, n) == \E j \in Running \ {i} : op[j].name = n

New(kind, n, route, steps) ==
    [NoOp EXCEPT !.kind = kind, !.name = n, !.route = route, !.todo = steps, !.status = "running"]

(* try_start_op: admitted with an id of its own, or rejected (423). *)
Admitted == Parallel \/ WithPermit = {}
Fresh(i) == i \in Free /\ \A j \in Free : i <= j
try_start_op(i, kind, n, route, steps) ==
    /\ Admitted /\ ~Conflict(i, n)
    /\ op' = [op EXCEPT ![i] = [New(kind, n, route, steps) EXCEPT !.pc = "lock"]]

(* The typed handlers: an accepted request is run_operation with the handler's steps. *)
Accepts(kind, n) == kind \in {"create", "create_remote"} => n \notin Reserved
RunOperation(kind, n) ==
    /\ Serving /\ <<kind, n>> \in Requests[scene] /\ Accepts(kind, n)
    /\ \E i \in Free : Fresh(i) /\ try_start_op(i, kind, n, "api", Steps(kind))
    /\ UNCHANGED <<storeVars, cache, lister, confVars, batch, bootVars, faults>>

create_backup(n) == RunOperation("create", n)
upload_backup(n) == RunOperation("upload", n)
download_backup(n) == RunOperation("download", n)
restore_backup(n) == RunOperation("restore", n)
create_remote(n) == RunOperation("create_remote", n)
restore_remote(n) == RunOperation("restore_remote", n)
delete_backup(n) == RunOperation("delete_local", n) \/ RunOperation("delete_remote", n)
clean_remote_broken(n) == RunOperation("clean_broken_remote", n)
clean_local_broken(n) == RunOperation("clean_broken_local", n)
clean(n) == RunOperation("clean", n)

Handler(n) ==
    \/ create_backup(n) \/ upload_backup(n) \/ download_backup(n) \/ restore_backup(n)
    \/ create_remote(n) \/ restore_remote(n) \/ delete_backup(n) \/ clean_remote_broken(n)
    \/ clean_local_broken(n) \/ clean(n)

-----------------------------------------------------------------------------
(* The task of an operation. *)

Ended(i, status) == op' = [op EXCEPT ![i].pc = "end", ![i].status = status]

(* The PID lock of its scope. *)
AcquireLock(i) ==
    /\ op[i].pc = "lock"
    /\ LET mine == lock_for_command(op[i].kind, op[i].name)
       IN IF \A j \in Locked : mine \cap lock_for_command(op[j].kind, op[j].name) = {}
          THEN op' = [op EXCEPT ![i].pc = "load"]
          ELSE Ended(i, "failed")
    /\ UNCHANGED <<storeVars, cache, lister, confVars, batch, bootVars, faults>>

(* config.load, ch.load, s3.load: only the S3 client decides what the steps touch. *)
LoadClients(i) ==
    /\ op[i].pc = "load"
    /\ op' = [op EXCEPT ![i].pc = "run", ![i].s3 = live.s3]
    /\ UNCHANGED <<storeVars, cache, lister, confVars, batch, bootVars, faults>>

Resumable == {"upload", "download", "restore"}

(* What a step needs: the manifest it reads, local or remote. *)
Ready(i, s) ==
    /\ s \in {"upload", "restore"} => op[i].name \in local
    /\ s = "download" => op[i].name \in remote[op[i].s3]

(* upload, download and restore read the manifest and write their state file first. *)
BeginStep(i) ==
    /\ op[i].pc = "run" /\ op[i].todo # <<>> /\ ~op[i].begun
    /\ op' = [op EXCEPT ![i].begun = TRUE]
    /\ LET s == Head(op[i].todo)
       IN /\ files' = IF s \in Resumable /\ Ready(i, s) THEN files \cup {<<s, op[i].name>>} ELSE files
          /\ local' = IF s = "download" /\ Ready(i, s) THEN local \cup {op[i].name} ELSE local
    /\ UNCHANGED <<remote, cache, lister, confVars, batch, bootVars, faults>>

(* What a step that succeeds has done; the last clause: how many remote backups retention or
   clean_broken removes is theirs to decide. *)
Effect(i, s) ==
    LET n == op[i].name
        b == op[i].s3
    IN /\ local' = CASE s = "create" -> local \cup {n}
                     [] s = "delete_local" -> local \ {n}
                     [] OTHER -> local
       /\ files' = CASE s \in Resumable -> files \ {<<s, n>>}
                     [] s = "delete_local" -> {f \in files : f[2] # n}
                     [] OTHER -> files
       /\ Ready(i, s)
       /\ \/ s = "upload" /\ remote' = [remote EXCEPT ![b] = @ \cup {n}] /\ UNCHANGED cache
          \/ s = "delete_remote" /\ remote' = [remote EXCEPT ![b] = @ \ {n}] /\ UNCHANGED cache
          \/ /\ s \in {"retention", "clean_broken_remote", "clean_broken"}
             /\ \E gone \in SUBSET (remote[b] \ {n}) :
                  /\ Cardinality(gone) <= 1
                  /\ remote' = [remote EXCEPT ![b] = @ \ gone]
                  /\ cache' = IF s = "retention" /\ gone # {} THEN EmptyCache ELSE cache
          \/ /\ s \notin {"upload", "delete_remote", "retention", "clean_broken_remote", "clean_broken"}
             /\ UNCHANGED <<remote, cache>>

StepSucceeds(i) ==
    /\ op[i].pc = "run" /\ op[i].todo # <<>> /\ op[i].begun
    /\ Effect(i, Head(op[i].todo))
    /\ op' = [op EXCEPT ![i].todo = Tail(@), ![i].begun = FALSE]
    /\ UNCHANGED <<lister, confVars, batch, bootVars, faults>>

(* An upload may fail after it has published (--delete-local); whatever failed, nothing is
   dropped from the cache. *)
StepFails(i) ==
    /\ op[i].pc = "run" /\ op[i].todo # <<>> /\ op[i].begun
    /\ Head(op[i].todo) # "retention"
    /\ Fault
    /\ \E published \in BOOLEAN :
         /\ published => Head(op[i].todo) = "upload" /\ op[i].name \in local
         /\ remote' = IF published THEN [remote EXCEPT ![op[i].s3] = @ \cup {op[i].name}] ELSE remote
    /\ Ended(i, "failed")
    /\ UNCHANGED <<local, files, cache, lister, confVars, batch, bootVars>>

(* Missing inputs fail without any fault. *)
StepImpossible(i) ==
    /\ op[i].pc = "run" /\ op[i].todo # <<>> /\ op[i].begun
    /\ ~Ready(i, Head(op[i].todo))
    /\ Ended(i, "failed")
    /\ UNCHANGED <<storeVars, cache, lister, confVars, batch, bootVars, faults>>

(* An invalidation while a list is fetched and not yet stored: what the list holds may be older. *)
Racing(i) ==
    [l \in Lister |-> IF lister[l].pc = "set"
                      THEN [pc |-> "set", got |-> lister[l].got, asOf |-> lister[l].asOf,
                            raced |-> lister[l].raced \cup {i}]
                      ELSE lister[l]]

\* Mutant: the operation is reported as completed before the cached list is dropped.
InvalidateLate(i) ==
    /\ \/ op[i].pc = "run" /\ op[i].todo = <<>>
          /\ op' = [op EXCEPT ![i].pc = "invalidate", ![i].status = "completed"] /\ UNCHANGED <<cache, lister>>
       \/ op[i].pc = "invalidate" /\ Ended(i, "completed") /\ lister' = Racing(i)
          /\ cache' = IF Invalidates(op[i].route, op[i].kind) THEN EmptyCache ELSE cache
    /\ UNCHANGED <<storeVars, confVars, batch, bootVars, faults>>

(* Success: invalidate, then finish_op. *)
Invalidate(i) ==
    /\ op[i].pc = "run" /\ op[i].todo = <<>>
    /\ cache' = IF Invalidates(op[i].route, op[i].kind) THEN EmptyCache ELSE cache
    /\ lister' = Racing(i)
    /\ op' = [op EXCEPT ![i].pc = "finish"]
    /\ UNCHANGED <<storeVars, confVars, batch, bootVars, faults>>

Finish(i) ==
    /\ op[i].pc = "finish" /\ Ended(i, "completed")
    /\ UNCHANGED <<storeVars, cache, lister, confVars, batch, bootVars, faults>>

(* /kill drops the task at an await; an upload may be past its publication. *)
Kill(i) ==
    /\ i \in Running /\ Fault
    /\ \E published \in BOOLEAN :
         /\ published => op[i].pc = "run" /\ op[i].begun /\ Head(op[i].todo) = "upload" /\ op[i].name \in local
         /\ remote' = IF published THEN [remote EXCEPT ![op[i].s3] = @ \cup {op[i].name}] ELSE remote
    /\ Ended(i, "killed")
    /\ UNCHANGED <<local, files, cache, lister, confVars, batch, bootVars>>

-----------------------------------------------------------------------------
(* post_actions and go_post_actions: one task works through the batch. *)

PostBatch(route) ==
    /\ Serving /\ batch.pc = "idle" /\ route \in BatchRoutes
    /\ \A k \in DOMAIN Batch : Accepts(Batch[k][1], Batch[k][2])
    /\ batch' = [NoBatch EXCEPT !.pc = "next", !.route = route]
    /\ UNCHANGED <<op, storeVars, cache, lister, confVars, bootVars, faults>>

Logged(entry) == [batch EXCEPT !.log = Append(@, entry), !.next = @ + 1, !.cur = 0, !.pc = "next"]

(* The first command of post_actions is started by the handler: a busy server answers 423 and
   there is no task; a later one that finds the server busy is skipped. *)
StartAction ==
    /\ batch.pc = "next" /\ batch.route = "actions" /\ batch.next <= Len(Batch)
    /\ LET kind == Batch[batch.next][1]
           n == Batch[batch.next][2]
           i == MaxOps + batch.next
       IN \/ /\ try_start_op(i, kind, n, "actions", Steps(kind))
             /\ batch' = [batch EXCEPT !.cur = i, !.pc = "wait"]
          \/ /\ ~Admitted \/ Conflict(i, n)
             /\ batch' = IF batch.next = 1 THEN [batch EXCEPT !.pc = "done"] ELSE Logged("busy")
             /\ UNCHANGED op
    /\ UNCHANGED <<storeVars, cache, lister, confVars, bootVars, faults>>

QueueAction ==
    /\ batch.pc = "next" /\ batch.route = "queue" /\ batch.next <= Len(Batch)
    /\ LET kind == Batch[batch.next][1]
           i == MaxOps + batch.next
       IN /\ op' = [op EXCEPT ![i] = [New(kind, Batch[batch.next][2], "queue", Steps(kind)) EXCEPT !.pc = "queued"]]
          /\ batch' = [batch EXCEPT !.cur = i, !.pc = "wait"]
    /\ UNCHANGED <<storeVars, cache, lister, confVars, bootVars, faults>>

(* queue_start_op: the permit, then the conflict check. *)
Dequeue(i) ==
    /\ op[i].pc = "queued" /\ Admitted
    /\ IF Conflict(i, op[i].name) THEN Ended(i, "conflict") ELSE op' = [op EXCEPT ![i].pc = "lock"]
    /\ UNCHANGED <<storeVars, cache, lister, confVars, batch, bootVars, faults>>

BatchNext ==
    /\ \/ batch.pc = "wait" /\ op[batch.cur].pc = "end" /\ batch' = Logged(op[batch.cur].status)
       \/ batch.pc = "next" /\ batch.next > Len(Batch) /\ batch' = [batch EXCEPT !.pc = "done"]
    /\ UNCHANGED <<op, storeVars, cache, lister, confVars, bootVars, faults>>

-----------------------------------------------------------------------------
(* list_remote_cached, for GET list and for the gauges of /metrics. *)

Completed == {i \in Ids : op[i].status = "completed"}
Invalidated == Completed \cup {i \in Ids : op[i].pc = "finish"}

ListHit(l) ==
    /\ Serving /\ lister[l].pc = "idle" /\ ~cache.full
    /\ lister' = [lister EXCEPT ![l] = [NoList EXCEPT !.pc = "fetch"]]
    /\ UNCHANGED <<op, storeVars, cache, confVars, batch, bootVars, faults>>

(* list_remote, without the lock: the list shows what was done by now (asOf), whenever it is stored. *)
ListFetch(l) ==
    /\ lister[l].pc = "fetch"
    /\ \/ /\ lister' = [lister EXCEPT ![l] = [pc |-> "set", got |-> remote[live.s3],
                                               asOf |-> Invalidated, raced |-> {}]]
          /\ UNCHANGED faults
       \/ Fault /\ lister' = [lister EXCEPT ![l] = NoList]
    /\ UNCHANGED <<op, storeVars, cache, confVars, batch, bootVars>>

ListSet(l) ==
    /\ lister[l].pc = "set"
    /\ cache' = [full |-> TRUE, list |-> lister[l].got, asOf |-> lister[l].asOf, raced |-> lister[l].raced]
    /\ lister' = [lister EXCEPT ![l] = NoList]
    /\ UNCHANGED <<op, storeVars, confVars, batch, bootVars, faults>>

\* Mutant: the list never expires.
ExpireNever == FALSE /\ UNCHANGED vars

(* The TTL of the cached list passes. *)
Expire ==
    /\ cache.full /\ cache' = EmptyCache
    /\ UNCHANGED <<op, storeVars, lister, confVars, batch, bootVars, faults>>

-----------------------------------------------------------------------------
(* reload and restart. *)

EditConfig ==
    /\ disk < MaxVersion /\ disk' = disk + 1
    /\ UNCHANGED <<op, storeVars, cache, lister, live, reload, scene, batch, bootVars, faults>>

(* Config::load, validate, ChClient::new, S3Client::new, and restart's ping: any of them fails
   before anything is swapped. *)
ReloadConfig(r) ==
    /\ Serving /\ reload[r].pc = "idle" /\ live.config # disk
    /\ reload' = [reload EXCEPT ![r] = [pc |-> "check", v |-> disk]]
    /\ UNCHANGED <<op, storeVars, cache, lister, disk, live, scene, batch, bootVars, faults>>

\* Mutant: the configuration is swapped in before the clients are known to work.
CheckClientsEager(r) ==
    /\ reload[r].pc = "check"
    /\ live' = [live EXCEPT !.config = reload[r].v]
    /\ \/ reload' = [reload EXCEPT ![r].pc = "config"] /\ UNCHANGED faults
       \/ Fault /\ reload' = [reload EXCEPT ![r] = [pc |-> "idle", v |-> 0]]
    /\ UNCHANGED <<op, storeVars, cache, lister, disk, scene, batch, bootVars>>

CheckClients(r) ==
    /\ reload[r].pc = "check"
    /\ \/ reload' = [reload EXCEPT ![r].pc = "config"] /\ UNCHANGED faults
       \/ Fault /\ reload' = [reload EXCEPT ![r] = [pc |-> "idle", v |-> 0]]
    /\ UNCHANGED <<op, storeVars, cache, lister, disk, live, scene, batch, bootVars>>

(* Three stores, one after the other; then the cache's TTL, not its list. *)
Swap(r) ==
    /\ reload[r].pc \in {"config", "ch", "s3"}
    /\ live' = [live EXCEPT ![reload[r].pc] = reload[r].v]
    /\ reload' = [reload EXCEPT ![r] = CASE @.pc = "config" -> [@ EXCEPT !.pc = "ch"]
                                         [] @.pc = "ch" -> [@ EXCEPT !.pc = "s3"]
                                         [] @.pc = "s3" -> [pc |-> "idle", v |-> 0]]
    /\ UNCHANGED <<op, storeVars, cache, lister, disk, scene, batch, bootVars, faults>>

-----------------------------------------------------------------------------
(* start_server's background task; a crash or a shutdown and the next start. *)

scan_resumable_state_files == {f \in files : f[2] \in local}

AutoResumeScan ==
    /\ boot.pc = "ready"
    /\ boot' = [boot EXCEPT !.pc = "tables", !.scan = IF ResumeAtBoot THEN scan_resumable_state_files ELSE {}]
    /\ UNCHANGED <<op, storeVars, cache, lister, confVars, batch, tables, crashes, faults>>

(* A task for every state file makes one attempt: what is not admitted then is not retried. *)
ResumeTask(f) ==
    /\ \/ \E i \in Free : Fresh(i) /\ try_start_op(i, f[1], f[2], "resume", <<f[1]>>)
       \/ (~Admitted \/ Conflict(0, f[2])) /\ UNCHANGED op
    /\ UNCHANGED faults

(* A restore is resumed with the arguments in restore.params.json, or not at all. *)
ResumeRestore(f) == ResumeTask(f) \/ (Fault /\ UNCHANGED op)

auto_resume ==
    /\ Serving
    /\ \E f \in boot.scan :
         /\ boot' = [boot EXCEPT !.scan = @ \ {f}]
         /\ IF f[1] = "restore" THEN ResumeRestore(f) ELSE ResumeTask(f)
    /\ UNCHANGED <<storeVars, cache, lister, confVars, batch, tables, crashes>>

(* ClickHouse answers a ping; the tables are created, or not; then the shutdown may know of them. *)
CreateIntegrationTables ==
    /\ \/ boot.pc = "tables" /\ tables' = TRUE /\ boot' = [boot EXCEPT !.pc = "flag"] /\ UNCHANGED faults
       \/ boot.pc = "tables" /\ Fault /\ boot' = [boot EXCEPT !.pc = "serving"] /\ UNCHANGED tables
       \/ boot.pc = "flag" /\ boot' = [boot EXCEPT !.pc = "serving", !.flag = TRUE] /\ UNCHANGED <<tables, faults>>
    /\ UNCHANGED <<op, storeVars, cache, lister, confVars, batch, crashes>>

(* A graceful shutdown drops the tables it knows of; a crash does not.  Neither waits for the
   operations. *)
Stop(graceful) ==
    /\ Serving /\ crashes < MaxCrashes /\ crashes' = crashes + 1
    /\ tables' = (tables /\ ~(graceful /\ boot.flag))
    /\ boot' = [pc |-> "down", scan |-> {}, flag |-> FALSE]
    /\ op' = [i \in Ids |-> IF i \in Running THEN [op[i] EXCEPT !.pc = "end", !.status = "lost"] ELSE op[i]]
    /\ cache' = EmptyCache /\ lister' = [l \in Lister |-> NoList]
    /\ reload' = [r \in Reloader |-> [pc |-> "idle", v |-> 0]]
    /\ batch' = IF batch.pc \in {"idle", "none"} THEN batch ELSE [batch EXCEPT !.pc = "lost"]
    /\ UNCHANGED <<storeVars, disk, live, scene, faults>>

StartServer ==
    /\ boot.pc = "down"
    /\ live' = [config |-> disk, ch |-> disk, s3 |-> disk]
    /\ boot' = [boot EXCEPT !.pc = "ready"]
    /\ UNCHANGED <<op, storeVars, cache, lister, disk, reload, scene, batch, tables, crashes, faults>>

-----------------------------------------------------------------------------
Task(i) ==
    \/ AcquireLock(i) \/ LoadClients(i) \/ BeginStep(i) \/ StepSucceeds(i) \/ StepFails(i)
    \/ StepImpossible(i) \/ Invalidate(i) \/ Finish(i) \/ Dequeue(i)
BatchTask == StartAction \/ QueueAction \/ BatchNext
Background == AutoResumeScan \/ auto_resume \/ CreateIntegrationTables \/ StartServer
ListTask(l) == ListFetch(l) \/ ListSet(l)
ReloadTask(r) == CheckClients(r) \/ Swap(r)

Next ==
    \/ \E n \in Name : Handler(n)
    \/ \E i \in Ids : Task(i) \/ Kill(i)
    \/ \E route \in BatchRoutes : PostBatch(route)
    \/ BatchTask \/ Background \/ Expire \/ EditConfig
    \/ \E l \in Lister : ListHit(l) \/ ListTask(l)
    \/ \E r \in Reloader : ReloadConfig(r) \/ ReloadTask(r)
    \/ \E graceful \in BOOLEAN : Stop(graceful)

(* Tasks that can run do, and time passes; requests, kills, edits and crashes need not come. *)
Fairness ==
    /\ \A i \in Ids : WF_vars(Task(i))
    /\ WF_vars(BatchTask) /\ WF_vars(Background) /\ WF_vars(Expire)
    /\ \A l \in Lister : WF_vars(ListTask(l))
    /\ \A r \in Reloader : WF_vars(ReloadTask(r))

Spec == Init /\ [][Next]_vars /\ Fairness

-----------------------------------------------------------------------------
TypeOK ==
    /\ \A i \in Ids : /\ op[i].pc \in {"free", "queued", "lock", "load", "run", "invalidate", "finish", "end"}
                      /\ op[i].pc = "finish" => op[i].todo = <<>>
    /\ Parallel \/ Cardinality(WithPermit) <= 1
    /\ local \subseteq Name /\ files \subseteq (Resumable \X Name)
    /\ \A v \in Versions : remote[v] \subseteq Name
    /\ live.config \in Versions /\ live.ch \in Versions /\ live.s3 \in Versions /\ disk \in Versions
    /\ Len(batch.log) <= Len(Batch) /\ faults <= MaxFaults /\ crashes <= MaxCrashes

(* ManifestCache ("invalidated on mutating operations"): once the action log says that a request
   that changes the remote has completed, the list that is served was read from the bucket after
   the request's last step.  One window is left, and only one: the request's invalidate() fell
   between the read of the list and its store, where list_remote_cached holds no lock.  A resumed
   operation never invalidates, so nothing is said of it. *)
CompletedVisible ==
    cache.full => \A i \in Completed :
        Invalidates(op[i].route, op[i].kind) => i \in cache.asOf \/ i \in cache.raced

(* Once the remote and the configuration stop changing, the cached list is right in the end. *)
ListConverges == <>[](cache.full => cache.list = remote[live.s3])

(* Outside a reload the configuration and both clients are of one version, whatever failed. *)
SwapComplete == (Serving /\ \A r \in Reloader : reload[r].pc \in {"idle", "check"}) =>
    live.config = live.ch /\ live.ch = live.s3

(* go_post_actions: a batch that was accepted comes to its end, and each of its commands has run
   to an end of its own or met another operation on its backup. *)
BatchServed ==
    (batch.pc = "next" /\ batch.route = "queue") ~>
        \/ batch.pc = "lost"
        \/ batch.pc = "done" /\ Len(batch.log) = Len(Batch)
           /\ \A k \in DOMAIN batch.log : batch.log[k] \in {"completed", "failed", "killed", "conflict"}

(* The doc comment of post_actions: "Processes ALL commands in the batch sequentially". *)
ActionsServed == batch.pc = "done" /\ batch.log # <<>> => \A k \in DOMAIN batch.log : batch.log[k] # "busy"

(* docs/configuration.md: "Auto-resume interrupted operations on server startup": a state file is
   passed over only while another operation on its backup runs. *)
AllResumed ==
    [][\A f \in boot.scan \ boot'.scan :
         boot'.pc # "down" /\ ~Conflict(0, f[2]) => op' # op]_vars

(* list_remote_cached: "holds the lock while fetching from S3 to prevent a thundering herd". *)
OneFetch == Cardinality({l \in Lister : lister[l].pc = "fetch"}) <= 1

(* "invalidated on mutating operations": with no operation and no list request under way, the
   cached list is the remote's. *)
CacheFresh == (Running = {} /\ cache.full) => cache.list = remote[live.s3]

(* start_server: "On shutdown, integration tables are dropped if they were created". *)
TablesDropped == [][Stop(TRUE) => ~tables']_vars
=============================================================================
