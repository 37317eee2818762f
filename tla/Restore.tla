------------------------------ MODULE Restore ------------------------------
(***************************************************************************)
(* `chbackup restore` of one backup into one ClickHouse server             *)
(* (restore/mod.rs, attach.rs, schema.rs, rbac.rs, resume.rs): the drop    *)
(* and create phases, the resume state file merged with system.parts, the  *)
(* per-part and whole-table ATTACH, the phases that follow, and the runs   *)
(* that come after an interrupted one.                                     *)
(*                                                                         *)
(* A manifest part is the block number in its name.  ClickHouse gives an   *)
(* attached part the table's next block number (the reason restore/mod.rs  *)
(* 1122-1125 gives for its completion state), so a live part is a pair     *)
(* <<name, data>> of the number it now has and the manifest part it holds  *)
(* (0: data that was in the table before any restore).                     *)
(* Merges, the database's name and remapping are left out here.            *)
(***************************************************************************)
EXTENDS Naturals, FiniteSets, FiniteSetsExt

CONSTANTS
    Tables,         \* the manifest's data tables
    Later,          \* postponed tables: streaming engines, refreshable views
    Views,          \* DDL-only objects
    Needs,          \* [Objects -> SUBSET Objects]: what CREATE needs to exist
    Blocks,         \* [Tables -> SUBSET Nat]: the parts of the manifest
    Sequential,     \* tables needs_sequential_attach holds of
    S3Tables,       \* tables whose parts lie on an object disk
    Replicated,     \* tables with a Replicated* engine
    AsAttach,       \* clickhouse.restore_as_attach
    RequireComplete,\* clickhouse.attach_table_require_complete
    RbacMode,       \* clickhouse.rbac_resolve_conflicts
    Commands,       \* the restore commands users give: [rm, resume, kind, sel]
    Follows(_, _, _),\* whether a command may come after another, or be the first, given
                    \* whether tables hold data of no restore
    Before,         \* whether the tables may exist, with other data, at first
    Losable,        \* the sets of <<table, block>> whose backup source may be missing
    MaxConn,        \* permits of the attach semaphore
    MaxRuns, MaxFaults, MaxCrashes, Kills

Objects == Tables \cup Later \cup Views
Kinds == {"full", "schema", "data"}
NoState == [params |-> <<>>]
MaxRounds == 10

ASSUME RestoreAssumption ==
    /\ \A t \in Tables : Blocks[t] \subseteq Nat \ {0} /\ IsFiniteSet(Blocks[t])
    /\ Sequential \subseteq Tables /\ S3Tables \subseteq Tables /\ Replicated \subseteq Tables
    /\ Tables \cap (Later \cup Views) = {}
    /\ Commands \subseteq [rm : BOOLEAN, resume : BOOLEAN, kind : Kinds, sel : SUBSET Tables]
    /\ MaxConn \in Nat \ {0} /\ MaxRuns \in Nat

VARIABLES
    run,      \* [1..MaxRuns -> the restores started so far]
    cur,      \* the last one started, 0 at first
    tab,      \* [Objects -> "absent" | "live" | "detached" | "readonly"]
    live,     \* [Tables -> SUBSET (name \X data)]: system.parts
    benign,   \* [Tables -> SUBSET Nat]: parts ClickHouse said are there already, or being
              \* removed, since the table was last dropped (for the properties only)
    staged,   \* [Tables -> SUBSET Nat]: the detached/ directory
    file,     \* restore.state.json
    sidecar,  \* restore.params.json
    mutated,  \* [Tables -> SUBSET Nat]: live parts the pending mutations were re-applied to
    access,   \* an RBAC object of the backup: "old", "gone", "new"
    lost,     \* the missing sources of this backup
    faults, crashes   \* failures so far; crashes and kills so far

vars == <<run, cur, tab, live, benign, staged, file, sidecar, mutated, access, lost, faults, crashes>>

Names(t) == {x[1] : x \in live[t]}
Data(t) == {x[2] : x \in live[t]}
Has(t) == Data(t) \cup benign[t]
NextBlock(t) == 1 + Max(Names(t) \cup {0})

Ended == {"ok", "partial", "failed", "dead", "killed"}
NoTask == [pc |-> "none", work |-> {}, unsaved |-> {}, bad |-> FALSE]
NoRun == [pc |-> "idle", cmd |-> [rm |-> FALSE, resume |-> FALSE, kind |-> "full", sel |-> {}],
          allowed |-> {}, todo |-> {}, failed |-> {}, progress |-> FALSE, round |-> 0,
          already |-> [t \in Tables |-> {}], st |-> [t \in Tables |-> {}],
          skipped |-> {}, task |-> [t \in Tables |-> NoTask]]

R == IF cur = 0 THEN NoRun ELSE run[cur]
cmd == R.cmd
Active == cur > 0 /\ R.pc \notin Ended
To(r) == run' = [run EXCEPT ![cur] = r]
Goto(p) == To([R EXCEPT !.pc = p])
Fault == faults < MaxFaults /\ faults' = faults + 1
NoFault == UNCHANGED faults

\* compute_params_hash: the parameters that decide which parts are attached; --rm is not one.
params_hash(c) == <<c.kind, c.sel>>

Init ==
    /\ run = [r \in 1..MaxRuns |-> NoRun] /\ cur = 0
    /\ \E old \in Before :
         /\ tab = [o \in Objects |-> IF old THEN "live" ELSE "absent"]
         /\ live = [t \in Tables |-> IF old THEN {<<1, 0>>} ELSE {}]
    /\ benign = [t \in Tables |-> {}] /\ staged = [t \in Tables |-> {}]
    /\ file = NoState /\ sidecar = NoState
    /\ mutated = [t \in Tables |-> {}] /\ access = "old" /\ lost \in Losable
    /\ faults = 0 /\ crashes = 0

----------------------------------------------------------------------------
(* The command and its DDL phases *)

Dirty == \E t \in Tables : 0 \in Data(t)

Parts(t) == {<<t, b>> : b \in Blocks[t]}
MissingOf(t) == Parts(t) \cap lost

\* plan_attach_completeness: the tables of ATTACH TABLE mode, and those refused
\* before anything is created because a staged part is missing.
Planned(c) == IF AsAttach /\ c.kind # "schema" THEN (c.sel \cap Replicated) \ S3Tables ELSE {}
Refused(c) == {t \in Planned(c) : RequireComplete /\ MissingOf(t) # {}}

First(c) == IF c.rm /\ c.kind # "data" THEN "drop"
            ELSE IF c.kind # "data" THEN "databases" ELSE "load"

\* restore() up to Phase 0: the per-backup lock is free, the manifest is there, some
\* table matches the filter.
Begin(c) ==
    /\ cur < MaxRuns /\ (cur > 0 => R.pc \in Ended)
    /\ Follows(cmd, c, Dirty)
    /\ c.sel # {}
    /\ cur' = cur + 1
    /\ run' = [run EXCEPT ![cur + 1] =
                 [NoRun EXCEPT !.pc = First(c), !.cmd = c, !.allowed = c.sel \ Refused(c),
                               !.todo = IF First(c) = "drop" THEN c.sel \cup Later \cup Views
                                                             ELSE {},
                               !.skipped = UNION {Parts(t) : t \in Refused(c)}]]
    /\ UNCHANGED <<tab, live, benign, staged, file, sidecar, mutated, access, lost, faults, crashes>>

Gone(o) == tab' = [tab EXCEPT ![o] = "absent"]
Wiped(ts) == /\ live' = [t \in Tables |-> IF t \in ts THEN {} ELSE live[t]]
             /\ benign' = [t \in Tables |-> IF t \in ts THEN {} ELSE benign[t]]
             /\ staged' = [t \in Tables |-> IF t \in ts THEN {} ELSE staged[t]]
             /\ mutated' = [t \in Tables |-> IF t \in ts THEN {} ELSE mutated[t]]

\* sort_tables_for_drop, and the fixed order of the other loops.
DropNext == CHOOSE o \in R.todo : R.todo \cap Views # {} => o \in Views
Nth == CHOOSE o \in R.todo : TRUE

\* One DROP TABLE IF EXISTS of drop_tables: a detached table is not there to drop.
DropOne(o) ==
    /\ R.pc = "drop" /\ R.todo # {} /\ o = DropNext
    /\ To([R EXCEPT !.todo = @ \ {o}, !.progress = TRUE])
    /\ IF tab[o] = "detached" THEN UNCHANGED <<tab, live, benign, staged, mutated>> ELSE Gone(o) /\ Wiped({o})
    /\ UNCHANGED <<cur, file, sidecar, access, lost, faults, crashes>>

\* It fails, because another object still needs this one or for a passing reason.
DropFails(o) ==
    /\ R.pc = "drop" /\ R.todo # {} /\ o = DropNext
    /\ To([R EXCEPT !.todo = @ \ {o}, !.failed = @ \cup {o}])
    /\ IF \E p \in Objects : tab[p] = "live" /\ o \in Needs[p] THEN NoFault ELSE Fault
    /\ UNCHANGED <<cur, tab, live, benign, staged, file, sidecar, mutated, access, lost, crashes>>

\* Mutant: a round without progress is followed by another one.
FinishRoundForever(next) ==
    /\ R.todo = {}
    /\ IF R.failed = {} THEN To([R EXCEPT !.pc = next, !.progress = FALSE, !.round = 0])
       ELSE To([R EXCEPT !.todo = R.failed, !.failed = {}, !.progress = FALSE])
    /\ UNCHANGED <<cur, tab, live, benign, staged, file, sidecar, mutated, access, lost, faults, crashes>>

\* RetryLoopState::finish_round and check_exhausted: a round without progress after the
\* first, or the tenth round, ends the restore.
FinishRound(next) ==
    /\ R.todo = {}
    /\ IF R.failed = {} THEN To([R EXCEPT !.pc = next, !.progress = FALSE, !.round = 0])
       ELSE IF (~R.progress /\ R.round > 0) \/ R.round + 1 = MaxRounds THEN Goto("failed")
       ELSE To([R EXCEPT !.todo = R.failed, !.failed = {}, !.progress = FALSE, !.round = @ + 1])
    /\ UNCHANGED <<cur, tab, live, benign, staged, file, sidecar, mutated, access, lost, faults, crashes>>

DropRound == R.pc = "drop" /\ FinishRound("dropdb")

\* drop_databases: every database of the manifest, with all it holds; a failure only warns.
DropDatabases ==
    /\ R.pc = "dropdb"
    /\ Goto("databases")
    /\ \/ tab' = [o \in Objects |-> "absent"] /\ Wiped(Tables) /\ NoFault
       \/ Fault /\ UNCHANGED <<tab, live, benign, staged, mutated>>
    /\ UNCHANGED <<cur, file, sidecar, access, lost, crashes>>

CreateDatabases ==
    /\ R.pc = "databases"
    /\ \/ To([R EXCEPT !.pc = "tables", !.todo = R.allowed]) /\ NoFault
       \/ Goto("failed") /\ Fault
    /\ UNCHANGED <<cur, tab, live, benign, staged, file, sidecar, mutated, access, lost, crashes>>

AfterTables == IF R.pc = "tables" THEN IF cmd.kind = "schema" THEN "ddl" ELSE "load"
               ELSE IF cmd.kind = "schema" THEN "extras" ELSE "ddl"

\* create_tables, one table: one that exists is left alone; CREATE of a table that is
\* detached, or that ZooKeeper state or the server refuses, ends the restore.
CreateTable(o) ==
    /\ R.pc \in {"tables", "postponed"} /\ R.todo # {} /\ o = Nth
    /\ IF tab[o] \in {"live", "readonly"}
       THEN To([R EXCEPT !.todo = @ \ {o}]) /\ NoFault /\ UNCHANGED tab
       ELSE \/ /\ tab[o] = "absent" /\ NoFault
               /\ tab' = [tab EXCEPT ![o] = "live"]
               /\ To([R EXCEPT !.todo = @ \ {o}])
            \/ Goto("failed") /\ UNCHANGED tab /\ IF tab[o] = "detached" THEN NoFault ELSE Fault
    /\ UNCHANGED <<cur, live, benign, staged, file, sidecar, mutated, access, lost, crashes>>

TablesCreated ==
    /\ R.pc \in {"tables", "postponed"} /\ R.todo = {}
    /\ To([R EXCEPT !.pc = AfterTables, !.todo = IF AfterTables = "ddl" THEN Views ELSE {}])
    /\ UNCHANGED <<cur, tab, live, benign, staged, file, sidecar, mutated, access, lost, faults, crashes>>

\* create_ddl_objects, one object: existing counts as progress, a failure is retried.
CreateDdl(o) ==
    /\ R.pc = "ddl" /\ R.todo # {} /\ o = Nth
    /\ \/ /\ tab[o] = "live" \/ (\A p \in Needs[o] : tab[p] = "live")
          /\ tab' = [tab EXCEPT ![o] = "live"] /\ NoFault
          /\ To([R EXCEPT !.todo = @ \ {o}, !.progress = TRUE])
       \/ /\ tab[o] # "live" /\ UNCHANGED tab
          /\ IF \A p \in Needs[o] : tab[p] = "live" THEN Fault ELSE NoFault
          /\ To([R EXCEPT !.todo = @ \ {o}, !.failed = @ \cup {o}])
    /\ UNCHANGED <<cur, live, benign, staged, file, sidecar, mutated, access, lost, crashes>>

DdlRound ==
    /\ R.pc = "ddl" /\ R.todo = {}
    /\ IF cmd.kind = "schema" /\ R.failed = {}
       THEN /\ To([R EXCEPT !.pc = "postponed", !.todo = Later, !.progress = FALSE, !.round = 0])
            /\ UNCHANGED <<cur, tab, live, benign, staged, file, sidecar, mutated, access, lost, faults, crashes>>
       ELSE FinishRound("extras")

----------------------------------------------------------------------------
(* Resume state and the work list *)

\* Mutant: the state file of the interrupted run is never read.
LoadedNever == [t \in Tables |-> {}]

\* The state file's entries, when it is of this backup and of the same parameters.
Loaded == IF file # NoState /\ file.params = params_hash(cmd)
          THEN file.attached ELSE [t \in Tables |-> {}]

\* --resume: the entries are merged with the live names of system.parts and dropped for a
\* table that has no live part; a table whose query failed (unread) keeps its entries.
\* Without --resume nothing counts as attached and no state is kept.
LoadState(unread) ==
    /\ R.pc = "load" /\ unread \subseteq R.allowed
    /\ IF unread = {} THEN NoFault ELSE cmd.resume /\ Fault
    /\ LET known == [t \in Tables |->
                       IF ~cmd.resume \/ t \notin R.allowed THEN {}
                       ELSE IF t \in unread THEN Loaded[t]
                       ELSE IF live[t] = {} THEN {} ELSE Loaded[t] \cup Names(t)]
       IN To([R EXCEPT !.pc = "sync", !.already = known, !.st = known])
    /\ sidecar' = IF cmd.resume THEN [params |-> cmd] ELSE sidecar
    /\ UNCHANGED <<cur, tab, live, benign, staged, file, mutated, access, lost, crashes>>

\* check_replicas_before_attach with strict_replica_sync: the tables behind are not
\* attached and all their parts count as skipped.  Then the task list is fixed.
CheckReplicas(behind) ==
    /\ R.pc = "sync" /\ behind \subseteq R.allowed \cap Replicated
    /\ IF behind = {} THEN NoFault ELSE Fault
    /\ LET items == {t \in R.allowed \ behind : Blocks[t] # {}}
       IN To([R EXCEPT !.pc = "tasks", !.skipped = @ \cup UNION {Parts(t) : t \in behind},
                       !.task = [t \in Tables |->
                          IF t \notin items THEN NoTask
                          ELSE [NoTask EXCEPT !.pc = IF t \in Planned(cmd) THEN "detach"
                                                                          ELSE "ready"]]])
    /\ UNCHANGED <<cur, tab, live, benign, staged, file, sidecar, mutated, access, lost, crashes>>

----------------------------------------------------------------------------
(* ATTACH TABLE mode: try_attach_table_mode *)

Task(r, t) == run[r].task[t]
SetTask(r, t, k) == run' = [run EXCEPT ![r].task[t] = k]
Step(r, t, p) == SetTask(r, t, [Task(r, t) EXCEPT !.pc = p])
InMode == {t \in Tables : R.task[t].pc \in {"detach", "link", "reattach"}}
ModeStep(t, p) == /\ R.pc = "tasks" /\ R.task[t].pc = p
                  /\ t = (CHOOSE u \in InMode : TRUE)

DetachTable(t) ==
    /\ ModeStep(t, "detach")
    /\ \/ /\ tab[t] \in {"live", "readonly"} /\ NoFault
          /\ tab' = [tab EXCEPT ![t] = "detached"] /\ Step(cur, t, "link")
       \/ /\ IF tab[t] \in {"live", "readonly"} THEN Fault ELSE NoFault
          /\ Step(cur, t, "ready") /\ UNCHANGED tab
    /\ UNCHANGED <<cur, live, benign, staged, file, sidecar, mutated, access, lost, crashes>>

\* Every resolvable part is linked under its manifest name, unless that name exists.
LinkParts(t) ==
    /\ ModeStep(t, "link")
    /\ \/ /\ live' = [live EXCEPT ![t] = @ \cup
                        {<<b, b>> : b \in {b \in Blocks[t] : <<t, b>> \notin lost /\ b \notin Names(t)}}]
          /\ Step(cur, t, "reattach") /\ NoFault
       \/ Fault /\ Step(cur, t, "ready") /\ UNCHANGED live
    /\ UNCHANGED <<cur, tab, benign, staged, file, sidecar, mutated, access, lost, crashes>>

\* ATTACH TABLE, then SYSTEM RESTORE REPLICA: until the second succeeds the table is
\* read-only.  A failure of either falls back to the per-part way.
AttachTable(t) ==
    /\ ModeStep(t, "reattach")
    /\ \/ /\ tab' = [tab EXCEPT ![t] = "live"] /\ NoFault
          /\ run' = [run EXCEPT ![cur].task[t].pc = "done", ![cur].skipped = @ \cup MissingOf(t)]
       \/ /\ Fault /\ Step(cur, t, "ready")
          /\ tab' = [tab EXCEPT ![t] = "readonly"] \/ UNCHANGED tab
    /\ UNCHANGED <<cur, live, benign, staged, file, sidecar, mutated, access, lost, crashes>>

----------------------------------------------------------------------------
(* One task per table: attach_parts_owned.  r may be a run whose operation was  *)
(* killed: its spawned tasks go on.                                            *)

Runnable(r) == r \in 1..cur /\ run[r].pc \in {"tasks", "killed"}

StartTask(r, t) ==
    /\ Runnable(r) /\ Task(r, t).pc = "ready" /\ (r = cur => InMode = {})
    /\ Step(r, t, IF run[r].pc = "killed" THEN "done" ELSE IF t \in S3Tables THEN "s3" ELSE "stage")
    /\ UNCHANGED <<cur, tab, live, benign, staged, file, sidecar, mutated, access, lost, faults, crashes>>

\* attach_parts_owned: the object disk step is left out when every part is known.
S3Needed(r, t) == run[r].already[t] = {} \/ ~(Blocks[t] \subseteq run[r].already[t])

\* CopyObject for every object of every part, attached or not: a part with a missing object
\* is not usable.
S3Copied(t) == {b \in Blocks[t] : <<t, b>> \notin lost}

\* The rewritten metadata of the copied parts goes to detached/.
S3Staged(t) == staged' = [staged EXCEPT ![t] = @ \cup S3Copied(t)]

\* restore_s3_disk_parts: parts that could not be copied count as skipped, any other
\* failure is fatal.
RestoreS3(r, t) ==
    /\ Runnable(r) /\ Task(r, t).pc = "s3"
    /\ IF ~S3Needed(r, t) THEN Step(r, t, "stage") /\ NoFault /\ UNCHANGED staged
       ELSE \/ /\ S3Staged(t) /\ NoFault
               /\ run' = [run EXCEPT ![r].task[t].pc = "stage",
                            ![r].skipped = @ \cup {<<t, b>> : b \in Blocks[t] \ S3Copied(t)}]
            \/ Fault /\ Step(r, t, "err") /\ UNCHANGED staged
    /\ UNCHANGED <<cur, tab, live, benign, file, sidecar, mutated, access, lost, crashes>>

\* attach_parts_inner up to the ATTACH phase: known parts leave the list, the others are
\* linked into detached/; a part without a source is skipped.
Stage(r, t) ==
    /\ Runnable(r) /\ Task(r, t).pc = "stage"
    /\ LET todo == Blocks[t] \ run[r].already[t]
           gone == IF t \in S3Tables THEN {} ELSE {b \in todo : <<t, b>> \in lost}
       IN \/ /\ run' = [run EXCEPT ![r].task[t] = [@ EXCEPT !.pc = "attach", !.work = todo \ gone],
                                   ![r].skipped = @ \cup {<<t, b>> : b \in gone}]
             /\ staged' = IF t \in S3Tables THEN staged
                          ELSE [staged EXCEPT ![t] = @ \cup (todo \ gone)]
             /\ NoFault
          \/ todo # {} /\ Fault /\ Step(r, t, "err") /\ UNCHANGED staged
    /\ UNCHANGED <<cur, tab, live, benign, file, sidecar, mutated, access, lost, crashes>>

Busy == UNION {{<<r, t, b>> : b \in Task(r, t).unsaved} : r \in 1..cur, t \in Tables}

\* The next parts of a task: the smallest block, after the one before was recorded, for a
\* dedup engine; any, within the permits, otherwise.
Ready(r, t, b) ==
    /\ Runnable(r) /\ Task(r, t).pc = "attach" /\ b \in Task(r, t).work
    /\ Cardinality(Busy) < MaxConn
    /\ t \in Sequential => Task(r, t).unsaved = {} /\ \A c \in Task(r, t).work : b <= c

Attached(t, b) == /\ live' = [live EXCEPT ![t] = @ \cup {<<NextBlock(t), b>>}]
                  /\ staged' = [staged EXCEPT ![t] = @ \ {b}]

\* ATTACH PART succeeds.
AttachPart(r, t, b) ==
    /\ Ready(r, t, b) /\ tab[t] = "live" /\ b \in staged[t]
    /\ Attached(t, b)
    /\ SetTask(r, t, [Task(r, t) EXCEPT !.work = @ \ {b},
                        !.unsaved = IF run[r].cmd.resume THEN @ \cup {b} ELSE @])
    /\ UNCHANGED <<cur, tab, benign, file, sidecar, mutated, access, lost, faults, crashes>>

\* classify_attach_error: NO_SUCH_DATA_PART counts as skipped data.
AttachMissing(r, t, b) ==
    /\ Ready(r, t, b) /\ tab[t] = "live" /\ b \notin staged[t]
    /\ run' = [run EXCEPT ![r].task[t].work = @ \ {b}, ![r].skipped = @ \cup {<<t, b>>}]
    /\ UNCHANGED <<cur, tab, live, benign, staged, file, sidecar, mutated, access, lost, faults, crashes>>

\* DUPLICATE_DATA_PART and PART_IS_TEMPORARILY_LOCKED are benign: the part is not attached,
\* not recorded, not counted as skipped, and the task goes on.
AttachBenign(r, t, b) ==
    /\ Ready(r, t, b) /\ tab[t] = "live" /\ Fault
    /\ SetTask(r, t, [Task(r, t) EXCEPT !.work = @ \ {b}])
    /\ benign' = [benign EXCEPT ![t] = @ \cup {b}]
    /\ UNCHANGED <<cur, tab, live, staged, file, sidecar, mutated, access, lost, crashes>>

\* Any other error fails the table's task: at once when it is sequential, after the other
\* parts otherwise.  The statement may have been executed all the same.
AttachUnknown(r, t, b) ==
    /\ Ready(r, t, b)
    /\ IF tab[t] = "live" THEN Fault ELSE NoFault
    /\ SetTask(r, t, [Task(r, t) EXCEPT !.bad = TRUE,
                        !.work = IF t \in Sequential THEN {} ELSE @ \ {b}])
    /\ \/ UNCHANGED <<live, staged>>
       \/ tab[t] = "live" /\ b \in staged[t] /\ Attached(t, b)
    /\ UNCHANGED <<cur, tab, benign, file, sidecar, mutated, access, lost, crashes>>

\* The attached part is recorded under the state's mutex; the write may fail.
SaveAttached(r, t, b) ==
    /\ Runnable(r) /\ b \in Task(r, t).unsaved
    /\ LET st == [run[r].st EXCEPT ![t] = @ \cup {b}]
       IN /\ run' = [run EXCEPT ![r].st = st, ![r].task[t].unsaved = @ \ {b}]
          /\ \/ file' = [params |-> params_hash(run[r].cmd), attached |-> st] /\ NoFault
             \/ Fault /\ UNCHANGED file
    /\ UNCHANGED <<cur, tab, live, benign, staged, sidecar, mutated, access, lost, crashes>>

TaskEnds(r, t) ==
    /\ Runnable(r) /\ Task(r, t).pc = "attach"
    /\ Task(r, t).work = {} /\ Task(r, t).unsaved = {}
    /\ Step(r, t, IF Task(r, t).bad THEN "err" ELSE "done")
    /\ UNCHANGED <<cur, tab, live, benign, staged, file, sidecar, mutated, access, lost, faults, crashes>>

\* try_join_all: all tasks have ended; one failed task fails the restore.
JoinTasks ==
    /\ R.pc = "tasks" /\ \A t \in Tables : R.task[t].pc \in {"none", "done", "err"}
    /\ Goto(IF \E t \in Tables : R.task[t].pc = "err" THEN "failed" ELSE "mutations")
    /\ UNCHANGED <<cur, tab, live, benign, staged, file, sidecar, mutated, access, lost, faults, crashes>>

\* reapply_pending_mutations, for every table that had a task, whatever an earlier run did;
\* a mutation that fails only warns.
ReapplyMutations(failing) ==
    /\ R.pc = "mutations"
    /\ failing \subseteq {t \in Tables : R.task[t].pc = "done"}
    /\ IF failing = {} THEN NoFault ELSE Fault
    /\ mutated' = [t \in Tables |-> IF R.task[t].pc = "done" /\ t \notin failing
                                    THEN Names(t) ELSE mutated[t]]
    /\ IF cmd.kind = "data" THEN Goto("extras")
       ELSE To([R EXCEPT !.pc = "postponed", !.todo = Later])
    /\ UNCHANGED <<cur, tab, live, benign, staged, file, sidecar, access, lost, crashes>>

----------------------------------------------------------------------------
(* The last phases *)

\* restore_rbac of one object: DROP in recreate mode (its error ignored), then CREATE.
RestoreRbac ==
    /\ R.pc = "extras"
    /\ \/ /\ RbacMode = "recreate" \/ access # "old"
          /\ access' = "new" /\ NoFault /\ Goto("finish")
       \/ /\ RbacMode = "recreate" /\ Fault
          /\ access' = "gone" /\ Goto("finish")
       \/ /\ RbacMode # "recreate" /\ access = "old" /\ NoFault /\ UNCHANGED access
          /\ Goto(IF RbacMode = "fail" THEN "failed" ELSE "finish")
    /\ UNCHANGED <<cur, tab, live, benign, staged, file, sidecar, mutated, lost, crashes>>

\* Mutant: every part is recorded as attached, skipped ones too.
FinishAlways ==
    /\ R.pc = "finish" /\ Goto(IF R.skipped # {} THEN "partial" ELSE "ok")
    /\ file' = [params |-> params_hash(cmd), attached |-> Blocks]
    /\ UNCHANGED <<cur, tab, live, benign, staged, sidecar, mutated, access, lost, faults, crashes>>

\* Mutant: skipped data is not looked at.
FinishBlind ==
    /\ R.pc = "finish" /\ Goto("ok")
    /\ UNCHANGED <<cur, tab, live, benign, staged, file, sidecar, mutated, access, lost, faults, crashes>>

\* Skipped data is the PartialRestore error and leaves the state files as they are.
\* Otherwise all manifest parts of the tables are recorded as attached.
Finish ==
    /\ R.pc = "finish"
    /\ IF cmd.kind = "schema" THEN Goto("ok") /\ NoFault /\ UNCHANGED <<file, sidecar>>
       ELSE IF R.skipped # {} THEN Goto("partial") /\ NoFault /\ UNCHANGED <<file, sidecar>>
       ELSE /\ Goto("ok")
            /\ \/ /\ file' = [params |-> params_hash(cmd),
                              attached |-> [t \in Tables |-> IF t \in R.allowed THEN Blocks[t] ELSE {}]]
                  /\ NoFault
               \/ Fault /\ UNCHANGED file
            /\ sidecar' = IF cmd.resume THEN NoState ELSE sidecar
    /\ UNCHANGED <<cur, tab, live, benign, staged, mutated, access, lost, crashes>>

\* The process dies with all its tasks.
Crash ==
    /\ Active /\ crashes < MaxCrashes /\ crashes' = crashes + 1
    /\ run' = [r \in 1..MaxRuns |->
                 [run[r] EXCEPT !.pc = IF r = cur THEN "dead" ELSE @,
                                !.task = [t \in Tables |-> NoTask]]]
    /\ UNCHANGED <<cur, tab, live, benign, staged, file, sidecar, mutated, access, lost, faults>>

\* POST /kill drops the operation's future: the spawned tasks are detached from it.
Kill ==
    /\ Kills /\ Active /\ Goto("killed")
    /\ crashes < MaxCrashes /\ crashes' = crashes + 1
    /\ UNCHANGED <<cur, tab, live, benign, staged, file, sidecar, mutated, access, lost, faults>>

DdlStep ==
    /\ Active
    /\ \/ \E o \in Objects : DropOne(o) \/ DropFails(o) \/ CreateTable(o) \/ CreateDdl(o)
       \/ DropRound \/ DropDatabases \/ CreateDatabases \/ TablesCreated \/ DdlRound

PlanStep ==
    /\ Active
    /\ \/ \E ts \in SUBSET Tables : LoadState(ts) \/ CheckReplicas(ts) \/ ReapplyMutations(ts)
       \/ \E t \in Tables : DetachTable(t) \/ LinkParts(t) \/ AttachTable(t)

TaskStep ==
    \E r \in 1..cur, t \in Tables :
        \/ StartTask(r, t) \/ RestoreS3(r, t) \/ Stage(r, t) \/ TaskEnds(r, t)
        \/ \E b \in Blocks[t] : AttachPart(r, t, b) \/ AttachMissing(r, t, b)
                                \/ AttachBenign(r, t, b) \/ AttachUnknown(r, t, b) \/ SaveAttached(r, t, b)

EndStep == Active /\ (JoinTasks \/ RestoreRbac \/ Finish)

Progress == DdlStep \/ PlanStep \/ TaskStep \/ EndStep
Next == (\E c \in Commands : Begin(c)) \/ Progress \/ Crash \/ Kill

Spec == Init /\ [][Next]_vars /\ WF_vars(Progress)

----------------------------------------------------------------------------
(* Properties *)

\* The variables keep their shapes; a live table's part names are unique.
TypeOK ==
    /\ cur \in 0..MaxRuns /\ DOMAIN run = 1..MaxRuns
    /\ \A o \in Objects : tab[o] \in {"absent", "live", "detached", "readonly"}
    /\ \A t \in Tables :
         /\ \A x \in live[t] : x[1] \in Nat \ {0} /\ x[2] \in Blocks[t] \cup {0}
         /\ \A x, y \in live[t] : x[1] = y[1] => x = y
         /\ staged[t] \subseteq Blocks[t] /\ benign[t] \subseteq Blocks[t]
    /\ file = NoState \/ (DOMAIN file = {"params", "attached"} /\ DOMAIN file.attached = Tables)
    /\ access \in {"old", "gone", "new"}

\* A restore that reports success has put every part of every selected table in place
\* (Ok of restore(): nothing skipped, no task failed, the resume set was truthful), or
\* ClickHouse answered its ATTACH with DUPLICATE_DATA_PART or PART_IS_TEMPORARILY_LOCKED,
\* which attach.rs takes for data that is there (AttachBenign; SuccessMeansAll is the form
\* without this exception).  The tables are live, except that ATTACH TABLE mode may leave
\* one detached.  With no failure and
\* no killed run (whose tasks go on attaching) the pending mutations were applied to all of it.
SuccessMeansRestored ==
    cur > 0 /\ R.pc = "ok" /\ cmd.kind # "schema" =>
        /\ \A t \in cmd.sel : Blocks[t] \subseteq Has(t) /\ (t \in Planned(cmd) \/ tab[t] = "live")
        /\ faults = 0 /\ (\A r \in 1..cur : run[r].pc # "killed") =>
              \A t \in cmd.sel : {x[1] : x \in {y \in live[t] : y[2] # 0}} \subseteq mutated[t]
        /\ cmd.kind = "full" => \A o \in Later \cup Views : tab[o] = "live"

\* What --resume would skip in a table is there: an entry of the state file that names a
\* part of the manifest is attached data, or a part ClickHouse said is there (AttachBenign;
\* StateExact is the form without this exception), or the table has no live part at all and
\* the entries will be discarded (the cross-check of restore/mod.rs 549-563).
StateTruthful ==
    file # NoState =>
        \A t \in Tables : live[t] = {} \/ file.attached[t] \cap Blocks[t] \subseteq Has(t)

Extra(t) == Cardinality(live[t]) - Cardinality(Data(t))
SumExtra == FoldSet(LAMBDA t, n : n + Extra(t), 0, Tables \ Planned([kind |-> "full", sel |-> Tables]))

\* Restores that are always run with --resume, and not killed, attach a part twice only when
\* a crash, a failed state write or a lost answer hid its ATTACH: at most one part per
\* permit of the attach semaphore for each of them.
DuplicatesBounded ==
    (\A r \in 1..cur : run[r].cmd.resume /\ run[r].pc # "killed")
        => SumExtra <= MaxConn * crashes + faults

\* Phase 2b comes after the data: a full restore brings a streaming table to life only when
\* every part of every selected table is attached, said to be there or counted as skipped.
StreamingAfterData ==
    [][\A o \in Later : tab[o] # "live" /\ tab'[o] = "live" /\ cmd.kind = "full" =>
            \A t \in cmd.sel : Parts(t) \subseteq R.skipped \cup {<<t, b>> : b \in Has(t)}]_vars

\* "a subsequent --resume is a no-op" (restore/mod.rs 1122): once the completion state of
\* the same command is on disk, resuming it attaches nothing more.
ResumeNoop ==
    [][(/\ cur > 1 /\ cmd.resume /\ ~cmd.rm /\ cmd.kind # "schema"
        /\ run[cur - 1].pc = "ok" /\ run[cur - 1].cmd = cmd
        /\ file # NoState /\ file.params = params_hash(cmd)
        /\ \A t \in cmd.sel : Blocks[t] \subseteq file.attached[t])
       => \A t \in Tables \ Planned(cmd) : live'[t] = live[t]]_vars

\* Every restore ends: its retry loops are bounded and nothing waits for ever.
RestoreEnds == \A n \in 1..MaxRuns : (cur = n /\ Active) ~> (cur > n \/ R.pc \in Ended)

(* Stated in the documentation and refuted by a configuration of their own. *)

\* src/error.rs 34: a restore that leaves parts out ends with PartialRestore, so one that ends
\* without an error has attached every part.
SuccessMeansAll ==
    cur > 0 /\ R.pc = "ok" /\ cmd.kind # "schema" => \A t \in cmd.sel : Blocks[t] \subseteq Data(t)

\* restore/mod.rs 1111-1116: no part that was never attached is written to the state file,
\* where the next --resume would skip it.
StateExact ==
    file # NoState => \A t \in Tables : live[t] = {} \/ file.attached[t] \cap Blocks[t] \subseteq Data(t)

\* docs/restore.md 218-223: --schema creates what the backup describes; only a failure of
\* the server can fail it.
SchemaOnlySucceeds == cur > 0 /\ cmd.kind = "schema" /\ R.pc = "failed" => faults > 0

\* docs/restore.md 75: --rm drops the tables of the restore, and databases that became empty.
OnlySelectedDropped ==
    [][\A t \in Tables \ cmd.sel : tab[t] = "live" => tab'[t] = "live"]_vars

\* docs/restore.md 330: ATTACH TABLE mode falls back to the per-part way on failure, so no
\* restore leaves a table detached.
NoneLeftDetached == cur > 0 /\ R.pc \in Ended => \A t \in Tables : tab[t] # "detached"

\* docs/commands.md 187: --resume goes on where an interrupted restore stopped, killed ones too.
KilledResumes == (\A r \in 1..cur : run[r].cmd.resume) => SumExtra <= MaxConn * crashes + faults

=============================================================================
