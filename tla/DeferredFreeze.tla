--------------------------- MODULE DeferredFreeze ---------------------------
(***************************************************************************)
(* Who keeps which table frozen (src/backup/mod.rs, freeze.rs, deferred.rs *)
(* and their callers in src/upload/mod.rs and src/list.rs).                *)
(*                                                                         *)
(* create FREEZEs every data table, stages its parts and UNFREEZEs.  Of a  *)
(* table on an S3 object disk only pointers are staged, so its freeze is   *)
(* deferred: deferred_freeze.json in the backup's directory records it     *)
(* until upload has copied the objects.  The record is owned by a process  *)
(* while an operation of it runs, demoted (owned by nobody) afterwards,    *)
(* and reaped by a later create once its TTL has passed.                   *)
(*                                                                         *)
(* The PID locks are taken as what LockTiers promises.  A killed operation *)
(* loses its lock at once, while tasks it has spawned run on.              *)
(***************************************************************************)
EXTENDS Naturals, FiniteSets

CONSTANTS
    Backup,        \* backup names
    Table,         \* data tables
    S3Table,       \* the tables with parts on an S3 object disk
    Op,            \* operations that may run at the same time
    Proc,          \* processes, a restarted server being a new one
    ProcOf,        \* the process an operation runs in
    Killable,      \* operations of the API server: /kill drops their future
    Cancellable,   \* operations of the watch loop: its token is cancelled
    Kinds,         \* the commands the operations run
    UnnamedClean,  \* whether clean is also run without a backup name
    Budgets,       \* bounds a behaviour chooses from: operations started (ops),
                   \* lost FREEZEs, failed UNFREEZEs and writes, panics and kills
                   \* (faults), and processes that die (crashes)
    NoOp, Nobody

Global == "global"
AllKinds == {"create", "upload", "release", "delete", "clean", "clean_broken"}

ASSUME FreezeAssumption ==
    /\ S3Table \subseteq Table /\ IsFiniteSet(Table)
    /\ ProcOf \in [Op -> Proc]
    /\ Killable \subseteq Op /\ Cancellable \subseteq Op
    /\ Kinds \subseteq AllKinds
    /\ UnnamedClean \in BOOLEAN
    /\ Budgets \subseteq [ops : Nat, faults : Nat, crashes : Nat]
    /\ NoOp \notin Op /\ Nobody \notin Proc /\ Global \notin Backup

VARIABLES
    shadow,    \* the tables ClickHouse holds frozen under a backup's names
    dir,       \* the backup's directory: none, partial, or with a manifest
    record,    \* deferred_freeze.json
    lock,      \* who holds the PID lock of a backup, or the global one
    op,        \* what an operation is doing
    up,        \* the processes that run
    leaked,    \* <<backup, table>> no operation tracks any more, by cause
    copied,    \* uploads beside which another has copied all and let go
    waived,    \* uploads beside which an operator or a failed one let go
    gone,      \* <<backup, table>> a release or a clean without a name took
    opsLeft, faultsLeft, crashesLeft

vars == <<shadow, dir, record, lock, op, up, leaked, copied, waived, gone, opsLeft,
          faultsLeft, crashesLeft>>
bounds == <<opsLeft, faultsLeft, crashesLeft>>

(***************************************************************************)
(* The record: DeferredFreezeRecord.  expired is is_expired(): the TTL     *)
(* runs from created_at_secs, which no rewrite advances.                   *)
(***************************************************************************)
NoRecord == [retained |-> {}, owner |-> Nobody, expired |-> FALSE, some |-> FALSE]
new(p, ts) == [retained |-> ts, owner |-> p, expired |-> FALSE, some |-> TRUE]
adopt(r, p) == [r EXCEPT !.owner = p]
demote(r) == [r EXCEPT !.owner = Nobody]
owner_is_live(r) == r.owner \in up

(* What is left recorded after the tables of failed could not be unfrozen: *)
(* a record of its own, even if the prior one is gone by then.             *)
retain_failed(r, failed) == [demote(r) EXCEPT !.retained = failed, !.some = TRUE]

(* publish: the directory is made again where it is gone. *)
publish(b) == dir' = [dir EXCEPT ![b] = IF @ = "none" THEN "partial" ELSE @]

(* A record that load gives to process p. *)
Usable(b, p) == record[b].some /\ (record[b].owner = p \/ ~owner_is_live(record[b]))

(* What may lose track of a freeze or of a record. *)
Causes == {"unfreeze", "lost", "detached", "kill", "owner", "late", "crash"}

Idle == [kind |-> "idle", b |-> Global, pc |-> "idle", task |-> [t \in Table |-> "wait"],
         reg |-> {}, claimed |-> {}, rel |-> Global, held |-> {}, failed |-> {},
         cancelled |-> FALSE, ok |-> TRUE, todo |-> {}]

Init ==
    /\ shadow = [b \in Backup |-> {}]
    /\ dir = [b \in Backup |-> "none"]
    /\ record = [b \in Backup |-> NoRecord]
    /\ lock = [s \in Backup \cup {Global} |-> NoOp]
    /\ op = [o \in Op |-> Idle]
    /\ up = Proc
    /\ leaked = [c \in Causes |-> {}]
    /\ copied = {} /\ waived = {} /\ gone = {}
    /\ \E m \in Budgets : opsLeft = m.ops /\ faultsLeft = m.faults /\ crashesLeft = m.crashes

LockFree(s) ==
    /\ lock[s] = NoOp
    /\ IF s = Global THEN \A b \in Backup : lock[b] = NoOp ELSE lock[Global] = NoOp

(* Operation o ends: its lock guards are dropped. *)
Unlocked(o) == [s \in DOMAIN lock |-> IF lock[s] = o THEN NoOp ELSE lock[s]]
Ends(o) == op' = [op EXCEPT ![o] = Idle] /\ lock' = Unlocked(o)
Goto(o, l) == op' = [op EXCEPT ![o].pc = l]
At(o, kind, l) == op[o].kind = kind /\ op[o].pc = l
Leak(cause, b, ts) == leaked' = [leaked EXCEPT ![cause] = @ \cup ({b} \X ts)]
(* What is frozen again is no longer gone. *)
Refrozen == {x \in gone : x[2] \notin shadow'[x[1]]}
(* A fault is one of a bounded number. *)
Fault(failed) ==
    /\ Cardinality(failed) <= faultsLeft
    /\ faultsLeft' = faultsLeft - Cardinality(failed)

(* The record of b stays as it is although o, which owns it, lets go. *)
Abandons(o, b) ==
    /\ Fault({b})
    /\ Leak("owner", b, IF record[b].owner = ProcOf[o] THEN record[b].retained ELSE {})
    /\ UNCHANGED record

(* demote_on_operation_end: a write that fails is logged, and leaves the  *)
(* record owned.                                                           *)
demote_on_operation_end(o, b) ==
    \/ /\ record' = [record EXCEPT ![b] = demote(@)]
       /\ UNCHANGED <<leaked, faultsLeft>>
    \/ record[b].owner # Nobody /\ Abandons(o, b)

(* load: the claim takes an own or an orphaned record, and leaves the      *)
(* record of another live process alone.  It goes on if the orphan cannot  *)
(* be rewritten.                                                           *)
load(b, p) ==
    \/ /\ record' = IF Usable(b, p) THEN [record EXCEPT ![b] = adopt(@, p)] ELSE record
       /\ UNCHANGED faultsLeft
    \/ /\ Usable(b, p) /\ record[b].owner # p /\ Fault({b})
       /\ UNCHANGED record

(***************************************************************************)
(* protection_status, for a caller that does or does not consult the lock  *)
(* of the backup (its own).                                                *)
(***************************************************************************)
status_inner(b, consult) ==
    IF ~record[b].some THEN "NotProtected"
    ELSE IF (consult /\ lock[b] # NoOp) \/ owner_is_live(record[b]) \/ ~record[b].expired
         THEN "Protected" ELSE "Reapable"

(* Mutant: an expired record no longer blocks. *)
blocks_destructive_op_lax(b) == status_inner(b, TRUE) = "Protected"

blocks_destructive_op(b) == status_inner(b, TRUE) # "NotProtected"

(***************************************************************************)
(* unfreeze_all_checked and what follows it wherever a record describes    *)
(* the freeze: the record goes once nothing is left frozen, and keeps what *)
(* is.  The UNFREEZEs and the write of the record are two steps.           *)
(***************************************************************************)
(* o will unfreeze the recorded tables of b. *)
Releasing(o, b, l) == [op[o] EXCEPT !.pc = l, !.rel = b, !.held = record[b].retained]

unfreeze_all_checked(o) ==
    \E failed \in SUBSET op[o].held :
        /\ Fault(failed)
        /\ shadow' = [shadow EXCEPT ![op[o].rel] = @ \ (op[o].held \ failed)]
        /\ gone' = gone \cup ({op[o].rel} \X (op[o].held \ failed))
        /\ op' = [op EXCEPT ![o].pc = "write", ![o].failed = failed]
        /\ UNCHANGED <<copied, waived, dir, record, lock, up, leaked, opsLeft, crashesLeft>>

(* Mutant: the record goes even if some tables are still frozen. *)
NewRecordGone(o) == NoRecord

NewRecord(o) ==
    IF op[o].failed = {} THEN NoRecord
    ELSE retain_failed(record[op[o].rel], op[o].failed)

Unfreeze(o) == op[o].pc = "unfreeze" /\ unfreeze_all_checked(o)

(* Where an operation goes on once it has rewritten a record. *)
Onward(r) ==
    CASE r.kind = "create" -> IF r.rel = r.b /\ ~r.ok THEN "failed" ELSE "reap"
      [] r.kind = "upload" -> "cleanup"
      [] r.kind = "clean_broken" -> "broken"
      [] OTHER -> "failed"

(* A reaper's guard of the candidate's lock is dropped, and the operation *)
(* goes on. *)
GoesOn(o, left) ==
    LET b == op[o].rel
    IN /\ op' = [op EXCEPT ![o] = [op[o] EXCEPT !.pc = Onward(op[o]), !.rel = Global,
                                         !.held = {}, !.failed = {}, !.todo = left]]
       /\ lock' = [lock EXCEPT ![b] = IF @ = o /\ op[o].b # b THEN NoOp ELSE @]
       /\ UNCHANGED <<copied, waived, gone, shadow, up, opsLeft, crashesLeft>>

(* The record is removed, or rewritten with what is still frozen: without *)
(* a lock, and whosever record it is by now, if a kill has detached the    *)
(* upload. *)
WriteRecord(o) ==
    LET b == op[o].rel
    IN /\ op[o].pc = "write"
       /\ record' = [record EXCEPT ![b] = NewRecord(o)]
       /\ IF op[o].failed = {} THEN UNCHANGED dir ELSE publish(b)
       /\ Leak("late", b, IF op[o].cancelled THEN record[b].retained \cup op[o].failed ELSE {})
       /\ GoesOn(o, IF op[o].failed = {} THEN op[o].todo ELSE op[o].todo \ {b})
       /\ UNCHANGED faultsLeft

(* Removing or rewriting the record fails, which is logged; clean_broken  *)
(* leaves such a backup alone. *)
WriteFails(o) ==
    LET b == op[o].rel
    IN /\ op[o].pc = "write" /\ (record[b].some \/ op[o].failed # {})
       /\ Abandons(o, b)
       /\ GoesOn(o, op[o].todo \ {b})
       /\ UNCHANGED dir

(***************************************************************************)
(* Starting: the command takes its lock.                                   *)
(***************************************************************************)
Scope(kind, b) == IF kind \in {"create", "upload", "release"} THEN b ELSE Global

Start(o, kind, b) ==
    /\ op[o].pc = "idle" /\ ProcOf[o] \in up
    /\ opsLeft > 0 /\ opsLeft' = opsLeft - 1
    /\ kind \in Kinds
    /\ b = Global => kind \in {"clean", "clean_broken"} /\ (kind = "clean" => UnnamedClean)
    /\ kind = "clean_broken" => b = Global
    /\ LockFree(Scope(kind, b))
    /\ lock' = [lock EXCEPT ![Scope(kind, b)] = o]
    /\ op' = [op EXCEPT ![o] = [Idle EXCEPT !.kind = kind, !.b = b, !.pc = "begin",
                                            !.todo = IF kind = "create" THEN Backup ELSE {}]]
    /\ UNCHANGED <<copied, waived, gone, shadow, dir, record, up, leaked, faultsLeft, crashesLeft>>

(***************************************************************************)
(* create.                                                                 *)
(***************************************************************************)
CreateBegin(o) ==
    /\ At(o, "create", "begin")
    /\ Goto(o, "reap")
    /\ UNCHANGED <<copied, waived, gone, shadow, dir, record, lock, up, leaked, bounds>>

(* reap_expired, one directory: pre-check, then the candidate's lock. *)
ReapCandidate(o, c) ==
    /\ At(o, "create", "reap") /\ c \in op[o].todo
    /\ LET own == c = op[o].b
           take == status_inner(c, ~own) = "Reapable" /\ (own \/ LockFree(c))
       IN /\ op' = [op EXCEPT ![o].todo = @ \ {c}, ![o].rel = IF take THEN c ELSE Global,
                              ![o].pc = IF take THEN "reread" ELSE "reap"]
          /\ lock' = IF take THEN [lock EXCEPT ![c] = o] ELSE lock
    /\ UNCHANGED <<copied, waived, gone, shadow, dir, record, up, leaked, bounds>>

(* The re-read under the candidate's lock. *)
ReapReread(o) ==
    LET c == op[o].rel
        still == status_inner(c, FALSE) = "Reapable"
    IN /\ At(o, "create", "reread")
       /\ op' = [op EXCEPT ![o] = IF still THEN Releasing(o, c, "unfreeze")
                                  ELSE [op[o] EXCEPT !.pc = "reap", !.rel = Global]]
       /\ lock' = IF still \/ c = op[o].b THEN lock ELSE [lock EXCEPT ![c] = NoOp]
       /\ UNCHANGED <<copied, waived, gone, shadow, dir, record, up, leaked, bounds>>

(* The queries before the directory is made -- version, disks, tables,    *)
(* columns, mutations, replicas -- may fail, and leave nothing behind. *)
CreatePlanFails(o) ==
    /\ At(o, "create", "reap") /\ op[o].todo = {} /\ op[o].ok
    /\ Ends(o)
    /\ UNCHANGED <<copied, waived, gone, shadow, dir, record, up, leaked, bounds>>

(* create_dir fails if the directory exists. *)
CreateDir(o) ==
    LET b == op[o].b
    IN /\ At(o, "create", "reap") /\ op[o].todo = {} /\ op[o].ok
       /\ dir[b] = "none"
       /\ dir' = [dir EXCEPT ![b] = "partial"]
       /\ Goto(o, "freeze")
       /\ UNCHANGED <<copied, waived, gone, shadow, record, lock, up, leaked, bounds>>

(* The task of a table sends its FREEZE. *)
TaskSend(o, t) ==
    /\ op[o].pc \in {"freeze", "orphan"} /\ op[o].task[t] = "wait"
    /\ op' = [op EXCEPT ![o].task[t] = "sent"]
    /\ UNCHANGED <<copied, waived, gone, shadow, dir, record, lock, up, leaked, bounds>>

(* The registry every cleanup path drains, one entry per table. *)
record_freeze(o, t) == op[o].reg \cup {t}

(* The answer to the FREEZE (or to the last FREEZE PARTITION): recorded   *)
(* before anything else can fail. *)
TaskFrozen(o, t) ==
    LET b == op[o].b
    IN /\ op[o].pc \in {"freeze", "orphan"} /\ op[o].task[t] = "sent"
       /\ shadow' = [shadow EXCEPT ![b] = @ \cup {t}]
       /\ op' = [op EXCEPT ![o].task[t] = "frozen",
                           ![o].reg = IF op[o].pc = "freeze" THEN record_freeze(o, t) ELSE @]
       /\ IF op[o].pc = "freeze" THEN UNCHANGED leaked ELSE Leak("detached", b, {t})
       /\ gone' = Refrozen
       /\ UNCHANGED <<copied, waived, dir, record, lock, up, bounds>>

(* The FREEZE is done but its answer is lost: an error like any other. *)
TaskLost(o, t) ==
    LET b == op[o].b
    IN /\ op[o].pc \in {"freeze", "orphan"} /\ op[o].task[t] = "sent"
       /\ Fault({t})
       /\ shadow' = [shadow EXCEPT ![b] = @ \cup {t}]
       /\ op' = [op EXCEPT ![o].task[t] = "fail"]
       /\ Leak("lost", b, {t})
       /\ gone' = Refrozen
       /\ UNCHANGED <<copied, waived, dir, record, lock, up, opsLeft, crashesLeft>>

(* The FREEZE fails: an error that may be ignored leaves the table out.   *)
TaskNotFrozen(o, t) ==
    /\ op[o].pc \in {"freeze", "orphan"} /\ op[o].task[t] = "sent"
    /\ \E r \in {"skip", "fail"} : op' = [op EXCEPT ![o].task[t] = r]
    /\ UNCHANGED <<copied, waived, gone, shadow, dir, record, lock, up, leaked, bounds>>

(* collect_parts stages the parts of a frozen table, finds none of the    *)
(* partitions asked for, or fails. *)
TaskCollected(o, t) ==
    /\ op[o].pc \in {"freeze", "orphan"} /\ op[o].task[t] = "frozen"
    /\ \E r \in {"done", "skip", "fail"} : op' = [op EXCEPT ![o].task[t] = r]
    /\ UNCHANGED <<copied, waived, gone, shadow, dir, record, lock, up, leaked, bounds>>

(* try_join_all: every task has ended.  A failed one, or a partition that *)
(* was staged nowhere, fails the backup. *)
Joined(o) ==
    /\ At(o, "create", "freeze")
    /\ \A t \in Table : op[o].task[t] \in {"done", "skip", "fail"}
    /\ LET failing == \E t \in Table : op[o].task[t] = "fail"
       IN \E ok \in (IF failing THEN {FALSE} ELSE BOOLEAN) :
            op' = [op EXCEPT ![o].pc = IF ok THEN "split" ELSE "undo", ![o].ok = ok]
    /\ UNCHANGED <<copied, waived, gone, shadow, dir, record, lock, up, leaked, bounds>>

(* unfreeze_all: what cannot be unfrozen is logged and forgotten. *)
UnfreezeRegistry(o, ts) ==
    \E failed \in SUBSET ts :
        /\ Fault(failed)
        /\ shadow' = [shadow EXCEPT ![op[o].b] = @ \ (ts \ failed)]
        /\ Leak("unfreeze", op[o].b, failed)

(* The failure path: unfreeze all, remove the directories with all that   *)
(* is in them, and reap once more on the way to the shadow cleanup. *)
CreateUndo(o) ==
    LET b == op[o].b
    IN /\ At(o, "create", "undo")
       /\ UnfreezeRegistry(o, op[o].reg)
       /\ dir' = [dir EXCEPT ![b] = "none"]
       /\ record' = [record EXCEPT ![b] = NoRecord]
       /\ op' = [op EXCEPT ![o].pc = "reap", ![o].reg = {}, ![o].todo = Backup]
       /\ UNCHANGED <<copied, waived, gone, lock, up, opsLeft, crashesLeft>>

(* clean_shadow_force: what the UNFREEZEs have left is removed. *)
CreateSweep(o) ==
    LET b == op[o].b
    IN /\ At(o, "create", "reap") /\ op[o].todo = {} /\ ~op[o].ok
       /\ shadow' = [shadow EXCEPT ![b] = IF blocks_destructive_op(b) THEN @ ELSE {}]
       /\ Ends(o)
       /\ UNCHANGED <<copied, waived, gone, dir, record, up, leaked, bounds>>

s3_tables(o) == {t \in S3Table : op[o].task[t] = "done"}

(* The freeze of the S3 tables is deferred once its record is published;  *)
(* if it cannot be, they are unfrozen with the rest. *)
SplitFreeze(o) ==
    LET b == op[o].b
        kept == op[o].reg \cap s3_tables(o)
    IN /\ At(o, "create", "split")
       /\ \E published \in BOOLEAN :
            /\ Fault(IF kept # {} /\ ~published THEN {b} ELSE {})
            /\ IF kept # {} /\ published
               THEN record' = [record EXCEPT ![b] = new(ProcOf[o], kept)] /\ publish(b)
               ELSE UNCHANGED <<record, dir>>
            /\ op' = [op EXCEPT ![o].pc = "rest",
                                ![o].reg = IF published THEN @ \ kept ELSE @,
                                ![o].claimed = IF published THEN kept ELSE {}]
       /\ UNCHANGED <<copied, waived, gone, shadow, lock, up, leaked, opsLeft, crashesLeft>>

UnfreezeRest(o) ==
    /\ At(o, "create", "rest")
    /\ UnfreezeRegistry(o, op[o].reg)
    /\ op' = [op EXCEPT ![o].pc = "tail", ![o].reg = {}]
    /\ UNCHANGED <<copied, waived, gone, dir, record, lock, up, opsLeft, crashesLeft>>

(* Mutant: create hands its record over without demoting it. *)
CreateTailOwned(o) ==
    LET b == op[o].b
    IN /\ At(o, "create", "tail")
       /\ dir' = [dir EXCEPT ![b] = "complete"]
       /\ Ends(o)
       /\ UNCHANGED <<copied, waived, gone, shadow, record, up, leaked, bounds>>

(* Metadata, RBAC, sizes, diff and the manifest; then create hands its    *)
(* record over to the upload. *)
CreateTail(o) ==
    LET b == op[o].b
    IN /\ At(o, "create", "tail")
       /\ dir' = [dir EXCEPT ![b] = "complete"]
       /\ demote_on_operation_end(o, b)
       /\ Ends(o)
       /\ UNCHANGED <<copied, waived, gone, shadow, up, opsLeft, crashesLeft>>

(* The tail fails: the deferred freeze is released, the directory stays.  *)
CreateTailFails(o) ==
    LET b == op[o].b
    IN /\ At(o, "create", "tail")
       /\ IF op[o].claimed # {}
          THEN op' = [op EXCEPT ![o] = [Releasing(o, b, "unfreeze") EXCEPT
                                          !.ok = FALSE, !.held = op[o].claimed]]
               /\ UNCHANGED lock
          ELSE Ends(o)
       /\ UNCHANGED <<copied, waived, gone, shadow, dir, record, up, leaked, bounds>>

(* A task panics: what is recorded is unfrozen, the other tasks run on.   *)
TaskPanics(o) ==
    /\ At(o, "create", "freeze")
    /\ \E t \in Table, failed \in SUBSET op[o].reg :
         /\ op[o].task[t] \in {"sent", "frozen"}
         /\ Cardinality(failed) + 1 <= faultsLeft
         /\ faultsLeft' = faultsLeft - Cardinality(failed) - 1
         /\ shadow' = [shadow EXCEPT ![op[o].b] = @ \ (op[o].reg \ failed)]
         /\ Leak("unfreeze", op[o].b, failed)
         /\ op' = [op EXCEPT ![o] = [@ EXCEPT !.pc = "orphan", !.reg = {}, !.task[t] = "fail",
                                              !.cancelled = TRUE]]
    /\ lock' = Unlocked(o)
    /\ UNCHANGED <<copied, waived, gone, dir, record, up, opsLeft, crashesLeft>>

(* The watch loop cancels create: the tasks are aborted, the registry is  *)
(* unfrozen.  A FREEZE under way then may still take effect. *)
CancelCreate(o) ==
    LET b == op[o].b
        sent == {t \in Table : op[o].task[t] = "sent"}
    IN /\ At(o, "create", "freeze") /\ o \in Cancellable
       /\ \E late \in SUBSET sent :
            /\ shadow' = [shadow EXCEPT ![b] = (@ \ op[o].reg) \cup late]
            /\ Leak("detached", b, late)
       /\ gone' = Refrozen
       /\ Ends(o)
       /\ UNCHANGED <<copied, waived, dir, record, up, bounds>>

(* /kill of a create drops its future at an await: its lock goes and the  *)
(* registry with it, the tasks it has spawned are detached, a record it    *)
(* has published stays its process's. *)
KillCreate(o) ==
    LET b == op[o].b
        mine == IF op[o].reg # {} \/ op[o].pc \in {"rest", "tail"} \/ op[o].rel = b
                THEN record[b].retained ELSE {}
    IN /\ op[o].kind = "create" /\ o \in Killable
       /\ op[o].pc \in {"reap", "freeze", "undo", "rest", "tail", "unfreeze", "write"}
       /\ faultsLeft > 0 /\ faultsLeft' = faultsLeft - 1
       /\ leaked' = [leaked EXCEPT !["kill"] = @ \cup ({b} \X op[o].reg),
                                   !["owner"] = @ \cup ({b} \X mine)]
       /\ lock' = Unlocked(o)
       /\ op' = [op EXCEPT ![o] = IF op[o].pc = "freeze"
                                  THEN [@ EXCEPT !.pc = "orphan", !.reg = {}, !.cancelled = TRUE]
                                  ELSE Idle]
       /\ UNCHANGED <<copied, waived, gone, shadow, dir, record, up, opsLeft, crashesLeft>>

(* The last detached task has ended. *)
OrphanEnds(o) ==
    /\ op[o].pc = "orphan"
    /\ \A t \in Table : op[o].task[t] \in {"done", "skip", "fail"}
    /\ Ends(o)
    /\ UNCHANGED <<copied, waived, gone, shadow, dir, record, up, leaked, bounds>>

CreateFailed(o) ==
    /\ op[o].pc = "failed"
    /\ Ends(o)
    /\ UNCHANGED <<copied, waived, gone, shadow, dir, record, up, leaked, bounds>>

CreateStep(o) ==
    \/ CreateBegin(o) \/ (\E c \in Backup : ReapCandidate(o, c)) \/ ReapReread(o)
    \/ CreatePlanFails(o) \/ CreateDir(o)
    \/ \E t \in Table : TaskSend(o, t) \/ TaskFrozen(o, t) \/ TaskLost(o, t) \/ TaskNotFrozen(o, t)
                          \/ TaskCollected(o, t)
    \/ Joined(o) \/ CreateUndo(o) \/ CreateSweep(o) \/ SplitFreeze(o) \/ UnfreezeRest(o) \/ CreateTail(o)
    \/ CreateTailFails(o) \/ TaskPanics(o) \/ CancelCreate(o) \/ KillCreate(o)
    \/ OrphanEnds(o) \/ CreateFailed(o)

(***************************************************************************)
(* upload: a task of its own, so that a kill only takes its lock.          *)
(***************************************************************************)
(* What an upload that may claim the record finds pinned. *)
Pinned(b, p) == IF Usable(b, p) THEN record[b].retained \cap shadow[b] ELSE {}

(* The uploads that copy the objects of b: those that a kill has detached, *)
(* beside the one that holds the lock.                                     *)
Copiers(b) == {o \in Op : At(o, "upload", "copy") /\ op[o].b = b}

(* An upload that begins beside one that has copied all and lets go. *)
CopiedBeside(o) ==
    IF \E q \in Op : op[q].kind = "upload" /\ op[q].rel = op[o].b
    THEN copied \cup {o} ELSE copied \ {o}

(* An orphaned record could not be rewritten: only the lock protects it. *)
Unclaimed(o) == IF record'[op[o].b].owner # ProcOf[o] THEN waived \cup {o} ELSE waived \ {o}

(* Mutant: the record is not claimed. *)
UploadClaimNot(o) ==
    LET b == op[o].b
    IN /\ At(o, "upload", "begin") /\ dir[b] = "complete"
       /\ op' = [op EXCEPT ![o].pc = "copy", ![o].claimed = Pinned(b, ProcOf[o])]
       /\ copied' = CopiedBeside(o) /\ waived' = waived \ {o}
       /\ UNCHANGED <<gone, shadow, dir, record, lock, up, leaked, bounds>>

(* The record is claimed before the first copy.  claimed: the tables it   *)
(* pins then. *)
UploadClaim(o) ==
    LET b == op[o].b
    IN /\ At(o, "upload", "begin") /\ dir[b] = "complete"
       /\ load(b, ProcOf[o])
       /\ op' = [op EXCEPT ![o].pc = "copy", ![o].claimed = Pinned(b, ProcOf[o])]
       /\ copied' = CopiedBeside(o) /\ waived' = Unclaimed(o)
       /\ UNCHANGED <<gone, shadow, dir, lock, up, leaked, opsLeft, crashesLeft>>

UploadNoBackup(o) ==
    /\ At(o, "upload", "begin") /\ dir[op[o].b] # "complete"
    /\ Ends(o)
    /\ UNCHANGED <<copied, waived, gone, shadow, dir, record, up, leaked, bounds>>

(* upload_inner fails, is cancelled, or panics: the freeze is kept and    *)
(* ownership handed back. *)
UploadFails(o) ==
    LET b == op[o].b
    IN /\ At(o, "upload", "copy")
       /\ demote_on_operation_end(o, b)
       /\ Ends(o)
       /\ waived' = waived \cup Copiers(b)
       /\ UNCHANGED <<copied, gone, shadow, dir, up, opsLeft, crashesLeft>>

(* finalize_deferred_freeze after a success. *)
finalize_deferred_freeze(o) ==
    LET b == op[o].b
    IN /\ At(o, "upload", "copy")
       /\ load(b, ProcOf[o])
       /\ op' = [op EXCEPT ![o] = IF Usable(b, ProcOf[o]) THEN Releasing(o, b, "unfreeze")
                                  ELSE [op[o] EXCEPT !.pc = "cleanup"]]
       /\ copied' = copied \cup Copiers(b)
       /\ UNCHANGED <<waived, gone, shadow, dir, lock, up, leaked, opsLeft, crashesLeft>>

(* delete_local: refused while a record exists, which goes with the       *)
(* directory. *)
delete_local(b) ==
    IF dir[b] # "none" /\ ~blocks_destructive_op(b)
    THEN /\ dir' = [dir EXCEPT ![b] = "none"]
         /\ record' = [record EXCEPT ![b] = NoRecord]
    ELSE UNCHANGED <<dir, record>>

(* The upload is done: delete_local of its own backup, local retention's  *)
(* delete_local of an older one that is not broken, or neither.  A killed  *)
(* caller runs no retention. *)
UploadDone(o) ==
    /\ At(o, "upload", "cleanup")
    /\ \/ delete_local(op[o].b)
       \/ /\ ~op[o].cancelled
          /\ \E b \in Backup \ {op[o].b} : dir[b] = "complete" /\ delete_local(b)
       \/ UNCHANGED <<dir, record>>
    /\ Ends(o)
    /\ UNCHANGED <<copied, waived, gone, shadow, up, leaked, bounds>>

(* /kill takes the lock of the caller; the upload runs on until it sees   *)
(* the cancelled token, or to its end. *)
KillUpload(o) ==
    /\ op[o].kind = "upload" /\ o \in Killable /\ ~op[o].cancelled
    /\ op[o].pc \in {"copy", "unfreeze", "write", "cleanup"}
    /\ faultsLeft > 0 /\ faultsLeft' = faultsLeft - 1
    /\ op' = [op EXCEPT ![o].cancelled = TRUE]
    /\ lock' = Unlocked(o)
    /\ UNCHANGED <<copied, waived, gone, shadow, dir, record, up, leaked, opsLeft, crashesLeft>>

UploadStep(o) ==
    \/ UploadClaim(o) \/ UploadNoBackup(o) \/ UploadFails(o)
    \/ finalize_deferred_freeze(o) \/ UploadDone(o) \/ KillUpload(o)

(***************************************************************************)
(* release-deferred, delete, clean and clean_broken.                       *)
(***************************************************************************)
(* release_now, on an operator's word: no TTL, no owner. *)
release_now(o, b) ==
    /\ record[b].some
    /\ op' = [op EXCEPT ![o] = Releasing(o, b, "unfreeze")]
    /\ waived' = waived \cup Copiers(b)

ReleaseDeferred(o) ==
    /\ At(o, "release", "begin")
    /\ IF record[op[o].b].some
       THEN release_now(o, op[o].b) /\ UNCHANGED lock
       ELSE Ends(o) /\ UNCHANGED waived
    /\ UNCHANGED <<copied, gone, shadow, dir, record, up, leaked, bounds>>

DeleteLocal(o) ==
    /\ At(o, "delete", "begin")
    /\ delete_local(op[o].b)
    /\ Ends(o)
    /\ UNCHANGED <<copied, waived, gone, shadow, up, leaked, bounds>>

(* clean_shadow under the global lock: the reaper gets no lock.  With a   *)
(* name the record is asked, without one only the live PID locks are. *)
clean_shadow(o) ==
    LET b == op[o].b
        swept == IF b = Global THEN {c \in Backup : lock[c] = NoOp}
                 ELSE {c \in {b} : ~blocks_destructive_op(c) /\ lock[c] = NoOp}
        unasked == IF b = Global THEN swept ELSE {}
    IN /\ At(o, "clean", "begin")
       /\ shadow' = [c \in Backup |-> IF c \in swept THEN {} ELSE shadow[c]]
       /\ gone' = gone \cup (unasked \X Table)
       /\ waived' = waived \cup {q \in Op : op[q].b \in unasked}
       /\ Ends(o)
       /\ UNCHANGED <<copied, dir, record, up, leaked, bounds>>

(* clean_broken_local, one broken backup at a time: its freeze is         *)
(* released, then its directory goes. *)
CleanBrokenStart(o) ==
    /\ At(o, "clean_broken", "begin")
    /\ op' = [op EXCEPT ![o].pc = "broken", ![o].todo = {b \in Backup : dir[b] = "partial"}]
    /\ UNCHANGED <<copied, waived, gone, shadow, dir, record, lock, up, leaked, bounds>>

CleanBrokenLocal(o) ==
    /\ At(o, "clean_broken", "broken")
    /\ IF op[o].todo = {}
       THEN Ends(o) /\ UNCHANGED <<dir, record, waived>>
       ELSE \E b \in op[o].todo :
              \/ /\ release_now(o, b)
                 /\ UNCHANGED <<dir, record, lock>>
              \/ /\ ~record[b].some
                 /\ delete_local(b)
                 /\ op' = [op EXCEPT ![o].todo = @ \ {b}]
                 /\ UNCHANGED <<lock, waived>>
    /\ UNCHANGED <<copied, gone, shadow, up, leaked, bounds>>

AdminStep(o) ==
    \/ ReleaseDeferred(o) \/ DeleteLocal(o) \/ clean_shadow(o)
    \/ CleanBrokenStart(o) \/ CleanBrokenLocal(o)

(***************************************************************************)
(* The environment: time, and processes that die.                          *)
(***************************************************************************)
Expire(b) ==
    /\ record[b].some /\ ~record[b].expired
    /\ record' = [record EXCEPT ![b].expired = TRUE]
    /\ UNCHANGED <<copied, waived, gone, shadow, dir, lock, op, up, leaked, bounds>>

Crash(p) ==
    LET mine == {o \in Op : ProcOf[o] = p}
    IN /\ p \in up /\ crashesLeft > 0 /\ crashesLeft' = crashesLeft - 1
       /\ up' = up \ {p}
       /\ op' = [o \in Op |-> IF o \in mine THEN Idle ELSE op[o]]
       /\ lock' = [s \in DOMAIN lock |-> IF lock[s] \in mine THEN NoOp ELSE lock[s]]
       /\ leaked' = [leaked EXCEPT !["crash"] =
            @ \cup UNION {{op[o].b} \X (op[o].reg \cup {t \in Table : op[o].task[t] = "sent"})
                            : o \in {q \in mine : op[q].kind = "create"}}]
       (* A FREEZE under way when its client dies may still take effect. *)
       /\ \E late \in SUBSET {o \in mine : \E t \in Table : op[o].task[t] = "sent"} :
            shadow' = [b \in Backup |-> shadow[b] \cup
               UNION {{t \in Table : op[o].task[t] = "sent"}
                        : o \in {q \in late : op[q].kind = "create" /\ op[q].b = b}}]
       /\ gone' = Refrozen
       /\ UNCHANGED <<copied, waived, dir, record, opsLeft, faultsLeft>>

Next ==
    \/ \E o \in Op :
         \/ \E kind \in Kinds, b \in Backup \cup {Global} : Start(o, kind, b)
         \/ Unfreeze(o) \/ WriteRecord(o) \/ WriteFails(o)
         \/ CreateStep(o) \/ UploadStep(o) \/ AdminStep(o)
    \/ \E b \in Backup : Expire(b)
    \/ \E p \in Proc : Crash(p)

Spec == Init /\ [][Next]_vars

(***************************************************************************)
(* Properties.                                                             *)
(***************************************************************************)
(* Tables, records and operations are what the code's types allow. *)
TypeOK ==
    /\ shadow \in [Backup -> SUBSET Table]
    /\ dir \in [Backup -> {"none", "partial", "complete"}]
    /\ record \in [Backup -> [retained : SUBSET Table, owner : Proc \cup {Nobody},
                              expired : BOOLEAN, some : BOOLEAN]]
    /\ lock \in [Backup \cup {Global} -> Op \cup {NoOp}]
    /\ up \subseteq Proc
    /\ \A o \in Op :
         /\ op[o].kind \in AllKinds \cup {"idle"} /\ op[o].b \in Backup \cup {Global}
         /\ op[o].task \in [Table -> {"wait", "sent", "frozen", "done", "skip", "fail"}]
         /\ op[o].reg \in SUBSET Table /\ op[o].claimed \in SUBSET Table
         /\ op[o].held \in SUBSET Table /\ op[o].failed \subseteq op[o].held
         /\ op[o].todo \subseteq Backup /\ op[o].rel \in Backup \cup {Global}
         /\ op[o].cancelled \in BOOLEAN /\ op[o].ok \in BOOLEAN
    /\ gone \subseteq Backup \X Table

(* What an upload found pinned when it claimed the record stays frozen    *)
(* while it copies, whatever creates, reapers and other uploads do, also   *)
(* for one whose caller was killed and that runs on without a lock         *)
(* (upload/mod.rs:196-210): until another upload of the backup has copied  *)
(* everything, or, for a killed one, an operator or another upload of the  *)
(* backup has let go of the record, a clean without a name has swept the   *)
(* shadow, or its claim could not be written (deferred.rs:319-324). *)
CopyPinned ==
    \A o \in Op :
        /\ At(o, "upload", "copy") /\ o \notin copied
        /\ op[o].cancelled => o \notin waived
        => op[o].claimed \subseteq shadow[op[o].b]

StrandedOnlyBy(causes) ==
    \A b \in Backup : \A t \in shadow[b] :
        \/ t \in record[b].retained
        \/ \E o \in Op : op[o].kind = "create" /\ op[o].b = b /\ t \in op[o].reg
        \/ \E c \in causes : <<b, t>> \in leaked[c]

(* Every frozen table is known to someone who will unfreeze it: the       *)
(* registry of a running create or the record on disk.  Only an UNFREEZE   *)
(* that failed outside a release, a FREEZE whose answer was lost, a        *)
(* detached task, a kill, a crash, or the record a killed upload writes    *)
(* late loses one (deferred.rs:489-495, mod.rs:1133-1136). *)
NothingStranded == StrandedOnlyBy(Causes)

(* The record is not removed while a table remains frozen                 *)
(* (deferred.rs:494), not even by the upload that a kill has detached. *)
NoneStrandedLate == StrandedOnlyBy(Causes \ {"late"})

(* A record owned by a process that runs belongs to an operation of that  *)
(* process that still runs: otherwise its liveness would protect the       *)
(* record for ever and the TTL would never come due (deferred.rs:425-429). *)
(* Only a killed create, and an operation whose last write of the record   *)
(* failed (deferred.rs:483-489, 525-532), leaves it owned. *)
OwnerIsRunning ==
    \A b \in Backup :
        record[b].some /\ owner_is_live(record[b]) =>
            \/ \E o \in Op : ProcOf[o] = record[b].owner /\ op[o].b = b
            \/ \E t \in Table : <<b, t>> \in leaked["owner"]

(* What a record lists is frozen, over kills, crashes and failing writes: *)
(* create's own UNFREEZEs, its sweep, reaping and a clean with a name      *)
(* never destroy shadow data under a record (list.rs:1673-1676,            *)
(* deferred.rs:558-562).  It is gone only if a release has unfrozen it     *)
(* (and its record is still to be rewritten, or could not be), if a clean  *)
(* without a name has swept it, or if a killed upload wrote the record     *)
(* late. *)
RecordedStaysFrozen ==
    \A b \in Backup : \A t \in record[b].retained :
        t \in shadow[b] \/ <<b, t>> \in gone \/ <<b, t>> \in leaked["late"]

(* clean spares the shadow data of a record that nobody is releasing      *)
(* (list.rs:1673-1676). *)
CleanSparesRecorded ==
    \A b \in Backup :
        \/ record[b].retained \subseteq shadow[b]
        \/ \E o \in Op : op[o].rel = b /\ op[o].pc = "write"

(* A cancelled create unfreezes what it has frozen (mod.rs:899-902).      *)
CancelUnfreezes ==
    \A b \in Backup, t \in Table :
        <<b, t>> \in leaked["kill"] \cup leaked["detached"] => t \notin shadow[b]
=============================================================================
