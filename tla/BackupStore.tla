---------------------------- MODULE BackupStore -----------------------------
(***************************************************************************)
(* The backups of chbackup on S3: upload (src/upload/mod.rs), incremental  *)
(* diff (src/backup/diff.rs), and what deletes them again -- retention,    *)
(* `delete remote' and `clean_broken remote' (src/list.rs).                *)
(*                                                                         *)
(* A backup is a number, its creation timestamp.  A part stands for a part *)
(* name with its checksum: two backups hold the same part exactly when     *)
(* diff_parts would match it.  The data object of part p uploaded by       *)
(* backup b has the key <<b, p>>, under the prefix of b.                   *)
(*                                                                         *)
(* An op is a running command (command line, API task, watch iteration).   *)
(* Its PID lock is granted as LockTiers promises; a killed upload keeps    *)
(* running detached, without its lock, until it sees the cancellation.     *)
(***************************************************************************)
EXTENDS Naturals, FiniteSets

CONSTANTS
    MaxBackup,    \* bound: backups ever created
    Part,         \* distinguishable parts
    Op,           \* commands that may run at the same time
    Keep,         \* backups_to_keep_remote (0: unlimited)
    Own,          \* "uploaded" as the source of a part; no base for a diff
    NoKey,        \* an empty backup_key
    NoManifest,   \* no metadata.json: not a set of entries
    NoState,      \* no upload.state.json
    Workloads,    \* sets of optional commands and flags that are used together
    MaxCrashes,   \* bound: processes killed
    MaxFaults,    \* bound: failing S3 requests, but for
    MaxMisreads   \* bound: manifests list_remote cannot read though they exist

Backup  == 1..MaxBackup
Key     == Backup \X Part
Entry   == [part : Part, source : Backup \cup {Own}, key : Key \cup {NoKey}]
Global  == 0    \* the lock scope of the admin commands; a backup's is its number
NoLock  == MaxBackup + 1

(* Optional flags and commands a workload may use. *)
AllCommands == {"in_order", "create_diff", "upload_diff", "resume", "kill",
                "delete_remote", "clean_broken"}

ASSUME StoreAssumption ==
    /\ MaxBackup \in Nat /\ Keep \in Nat
    /\ MaxCrashes \in Nat /\ MaxFaults \in Nat /\ MaxMisreads \in Nat
    /\ Own \notin Backup
    /\ NoKey \notin Key
    /\ NoManifest \notin SUBSET Entry
    /\ Workloads \subseteq SUBSET AllCommands

VARIABLES
    local,     \* metadata.json in the local backup directory
    remote,    \* metadata.json under the backup's prefix on S3
    objects,   \* data objects on S3
    young,     \* prefixes written to less than clean_broken_min_age_secs ago
    state,     \* upload.state.json in the local backup directory
    op,        \* the commands in flight, see Blank
    commands,  \* the workload: which commands and flags are used
    crashes, faults, misreads

vars == <<local, remote, objects, young, state, op, commands, crashes, faults,
          misreads>>

(* The local variables of a command that does nothing. *)
Blank == [pc        |-> "idle",
          bk        |-> Global,      \* the backup it works on
          lock      |-> NoLock,      \* the scope lock it holds
          mem       |-> {},          \* upload: the manifest in memory
          pend      |-> {},          \* upload: parts not uploaded yet
          done      |-> {},          \* upload: parts uploaded by this run
          completed |-> {},          \* upload: keys in the resume state
          resume    |-> FALSE,       \* upload: --resume
          base      |-> Own,         \* upload: --diff-from-remote
          killed    |-> FALSE,       \* upload: its token is cancelled
          failed    |-> FALSE,       \* upload: a worker has returned Err
          todo      |-> {},          \* GC: backups still to delete
          fetch     |-> {},          \* GC: manifests still to read
          prot      |-> {},          \* GC: protected keys
          bases     |-> {},          \* GC: named incremental bases
          keys      |-> {},          \* GC: the listed keys to delete
          man       |-> FALSE]       \* GC: metadata.json is one of them

Init ==
    /\ local = [b \in Backup |-> NoManifest]
    /\ remote = [b \in Backup |-> NoManifest]
    /\ objects = {}
    /\ young = {}
    /\ state = [b \in Backup |-> NoState]
    /\ op = [o \in Op |-> Blank]
    /\ commands \in Workloads
    /\ crashes = 0 /\ faults = 0 /\ misreads = 0

-----------------------------------------------------------------------------
(* Locks and listings *)

(* acquire_scoped succeeds: LockTiers, with 0 for the global scope. *)
LockFree(o, s) ==
    \A q \in Op : op[q].lock # NoLock =>
        op[q].lock # s /\ op[q].lock # Global /\ s # Global

Created       == {b \in Backup : local[b] # NoManifest}
Valid         == {b \in Backup : remote[b] # NoManifest}
ListPrefix(b) == {k \in objects : k[1] = b}

(* list_remote reports a prefix without a manifest as broken, and one whose *)
(* manifest it cannot read (miss) as well.                                 *)
Broken(miss) == {b \in Backup \ Valid : ListPrefix(b) # {}} \cup miss

Misread(miss) ==
    /\ miss \subseteq Valid /\ misreads + Cardinality(miss) <= MaxMisreads
    /\ misreads' = misreads + Cardinality(miss)

Newest(S) == {b \in S : \A c \in S : c <= b}

(* collect_key_prefixes_from_manifest and collect_incremental_bases *)
KeysOf(m)  == {e.key : e \in m} \ {NoKey}
BasesOf(m) == {e.source : e \in m} \ {Own}

(* A part also found in the base takes the base's key, whatever it is. *)
diff_parts(m, baseName, base) ==
    {IF \E f \in base : f.part = e.part
     THEN [part |-> e.part, source |-> baseName,
           key |-> (CHOOSE f \in base : f.part = e.part).key]
     ELSE e : e \in m}

(* The oldest of the backups listed as valid, all but Keep of them. *)
plan_retention_deletions(listed) ==
    {b \in listed : Cardinality({c \in listed : c > b}) >= Keep}

Set(o, r) == op' = [op EXCEPT ![o] = r]

-----------------------------------------------------------------------------
(* create *)

(* The manifest `create' writes: parts without a key, then the diff against *)
(* a local (--diff-from) or remote (--diff-from-remote) base.              *)
Create(b, P, base) ==
    LET fresh == {[part |-> p, source |-> Own, key |-> NoKey] : p \in P} IN
    /\ b \notin Created /\ \A c \in Backup : c < b => c \in Created
    /\ ("in_order" \in commands => \A o \in Op : op[o].pc = "idle")
    /\ \A o \in Op : op[o].lock # Global
    /\ \/ base = Own /\ local' = [local EXCEPT ![b] = fresh]
       \/ /\ "create_diff" \in commands /\ base \in Created
          /\ local' = [local EXCEPT ![b] = diff_parts(fresh, base, local[base])]
       \/ /\ "create_diff" \in commands /\ base \in Valid
          /\ local' = [local EXCEPT ![b] = diff_parts(fresh, base, remote[base])]
    /\ UNCHANGED <<commands, remote, objects, young, state, op, crashes, faults, misreads>>

-----------------------------------------------------------------------------
(* upload *)

(* The completed keys of the resume state, if it is of the same parameters. *)
ResumedKeys(b, base, resume) ==
    IF resume /\ state[b] # NoState /\ state[b].base = base
    THEN state[b].completed ELSE {}

(* The work items: the parts neither carried nor completed. *)
WorkList(b, m, keys) ==
    {e.part : e \in {f \in m : f.source = Own /\ <<b, f.part>> \notin keys}}

(* upload_inner up to the work list: the manifest is loaded, diffed and    *)
(* saved, and the resume state read.                                       *)
UploadStart(o, b, base, resume) ==
    /\ op[o].pc = "idle" /\ LockFree(o, b) /\ b \in Created
    /\ "in_order" \in commands => b \in Newest(Created) /\ b \notin Valid
    /\ \/ base = Own
       \/ /\ "upload_diff" \in commands /\ base \in Valid \ {b}
          /\ "in_order" \in commands => base \in Newest(Valid)
    /\ resume => "resume" \in commands
    /\ LET m    == IF base = Own THEN local[b] ELSE diff_parts(local[b], base, remote[base])
           keys == ResumedKeys(b, base, resume)
       IN  /\ local' = [local EXCEPT ![b] = m]
           /\ Set(o, [Blank EXCEPT
                 !.pc = "parts", !.bk = b, !.lock = b, !.mem = m,
                 !.pend = WorkList(b, m, keys),
                 !.completed = keys, !.resume = resume, !.base = base])
    /\ UNCHANGED <<commands, remote, objects, young, state, crashes, faults, misreads>>

(* A worker uploads one part and records it in the resume state. *)
UploadPart(o, p) ==
    LET r == op[o]  k == <<r.bk, p>> IN
    /\ r.pc = "parts" /\ p \in r.pend
    /\ objects' = objects \cup {k}
    /\ young' = young \cup {r.bk}
    /\ state' = IF r.resume
                THEN [state EXCEPT ![r.bk] = [completed |-> r.completed \cup {k}, base |-> r.base]]
                ELSE state
    /\ Set(o, [r EXCEPT !.pend = @ \ {p}, !.done = @ \cup {p}, !.completed = @ \cup {k}])
    /\ UNCHANGED <<commands, local, remote, crashes, faults, misreads>>

(* A worker that sees the cancellation returns Ok with its part untouched. *)
PartCancelled(o, p) ==
    /\ op[o].pc = "parts" /\ op[o].killed /\ p \in op[o].pend
    /\ Set(o, [op[o] EXCEPT !.pend = @ \ {p}])
    /\ UNCHANGED <<commands, local, remote, objects, young, state, crashes, faults, misreads>>

(* The S3 requests of a part fail for good; the other workers go on. *)
PartFails(o, p) ==
    /\ op[o].pc = "parts" /\ p \in op[o].pend /\ faults < MaxFaults
    /\ faults' = faults + 1
    /\ Set(o, [op[o] EXCEPT !.pend = @ \ {p}, !.failed = TRUE])
    /\ UNCHANGED <<commands, local, remote, objects, young, state, crashes, misreads>>

(* The keys of the parts uploaded by this run are merged into the manifest. *)
Merged(r) ==
    {IF e.part \in r.done THEN [e EXCEPT !.source = Own, !.key = <<r.bk, e.part>>] ELSE e :
        e \in r.mem}

(* Mutant: the cancellation is not looked at again before the merge. *)
JoinUnguarded(o) ==
    LET r == op[o] IN
    /\ r.pc = "parts" /\ r.pend = {}
    /\ Set(o, IF r.failed THEN Blank
              ELSE [r EXCEPT !.pc = "publish", !.mem = Merged(r)])
    /\ UNCHANGED <<commands, local, remote, objects, young, state, crashes, faults, misreads>>

(* All workers have returned: give up after an error or a cancellation,    *)
(* else merge.                                                             *)
Join(o) ==
    LET r == op[o] IN
    /\ r.pc = "parts" /\ r.pend = {}
    /\ Set(o, IF r.failed \/ r.killed THEN Blank
              ELSE [r EXCEPT !.pc = "publish", !.mem = Merged(r)])
    /\ UNCHANGED <<commands, local, remote, objects, young, state, crashes, faults, misreads>>

(* metadata.json.tmp is copied over metadata.json in one S3 request. *)
Publish(o) ==
    LET r == op[o] IN
    /\ r.pc = "publish"
    /\ remote' = [remote EXCEPT ![r.bk] = r.mem]
    /\ young' = young \cup {r.bk}
    /\ Set(o, [r EXCEPT !.pc = "save"])
    /\ UNCHANGED <<commands, local, objects, state, crashes, faults, misreads>>

(* The local manifest gets the keys, the resume state is removed; a killed *)
(* upload ends here, its caller and the retention step are gone.           *)
SaveLocal(o) ==
    LET r == op[o] IN
    /\ r.pc = "save"
    /\ local' = [local EXCEPT ![r.bk] = r.mem]
    /\ state' = IF r.resume THEN [state EXCEPT ![r.bk] = NoState] ELSE state
    /\ Set(o, IF r.killed \/ Keep = 0 THEN Blank
              ELSE [Blank EXCEPT !.pc = "retain", !.bk = r.bk, !.lock = r.lock])
    /\ UNCHANGED <<commands, remote, objects, young, crashes, faults, misreads>>

(* The manifest cannot be written or copied: upload_inner returns Err. *)
UploadFails(o) ==
    /\ op[o].pc = "publish" /\ faults < MaxFaults
    /\ faults' = faults + 1
    /\ Set(o, Blank)
    /\ UNCHANGED <<commands, local, remote, objects, young, state, crashes, misreads>>

(* /kill drops the caller and with it the PID lock; the upload is detached. *)
Kill(o) ==
    /\ "kill" \in commands
    /\ op[o].pc \in {"parts", "publish", "save"} /\ ~op[o].killed
    /\ Set(o, [op[o] EXCEPT !.killed = TRUE, !.lock = NoLock])
    /\ UNCHANGED <<commands, local, remote, objects, young, state, crashes, faults, misreads>>

-----------------------------------------------------------------------------
(* retention_remote, run by a command after its upload *)

(* The backups are listed and the pass is planned; it ends at once when    *)
(* there is nothing to delete or the listing fails.                        *)
RetentionPlan(o, miss) ==
    LET listed == Valid \ miss
        del    == plan_retention_deletions(listed)
    IN
    /\ op[o].pc = "retain"
    /\ \/ /\ Misread(miss) /\ UNCHANGED faults
          /\ Set(o, IF del = {} THEN Blank
                    ELSE [op[o] EXCEPT !.pc = "fetch", !.todo = del, !.fetch = listed \ del])
       \/ /\ miss = {} /\ faults < MaxFaults /\ faults' = faults + 1
          /\ Set(o, Blank) /\ UNCHANGED misreads
    /\ UNCHANGED <<commands, local, remote, objects, young, state, crashes>>

(* The manifest of one surviving backup; the pass is abandoned without it. *)
FetchManifest(o, s) ==
    LET r == op[o] IN
    /\ r.pc = "fetch" /\ s \in r.fetch
    /\ \/ /\ s \in Valid
          /\ Set(o, [r EXCEPT !.fetch = @ \ {s},
                              !.prot = @ \cup KeysOf(remote[s]),
                              !.bases = @ \cup BasesOf(remote[s])])
          /\ UNCHANGED faults
       \/ s \notin Valid /\ Set(o, Blank) /\ UNCHANGED faults
       \/ s \in Valid /\ faults < MaxFaults /\ faults' = faults + 1 /\ Set(o, Blank)
    /\ UNCHANGED <<commands, local, remote, objects, young, state, crashes, misreads>>

Oldest(S) == {b \in S : \A c \in S : b <= c}

(* Mutant: every candidate is deleted, whatever references it. *)
RetentionUnprotected(o) ==
    LET r == op[o] IN
    /\ r.pc = "fetch" /\ r.fetch = {}
    /\ \E c \in Oldest(r.todo) :
          Set(o, [r EXCEPT !.todo = @ \ {c}, !.pc = "delete", !.bk = c, !.keys = ListPrefix(c)])
    /\ UNCHANGED <<commands, local, remote, objects, young, state, crashes, faults, misreads>>

(* Mutant: the unreferenced keys of a candidate are deleted, and its       *)
(* manifest with them, when others of its keys are still referenced.       *)
RetentionPartial(o) ==
    LET r == op[o] IN
    /\ r.pc = "fetch" /\ r.fetch = {}
    /\ \E c \in Oldest(r.todo) :
          Set(o, [r EXCEPT !.todo = @ \ {c}, !.pc = "delete", !.bk = c, !.keys = ListPrefix(c) \ r.prot])
    /\ UNCHANGED <<commands, local, remote, objects, young, state, crashes, faults, misreads>>

(* The next candidate is kept when a survivor names it as its base or      *)
(* references any of its keys, and marked for deletion otherwise.          *)
RetentionCandidate(o) ==
    LET r == op[o] IN
    /\ r.pc = "fetch" /\ r.fetch = {}
    /\ \E c \in Oldest(r.todo) :
          LET keys == ListPrefix(c)
              rest == [r EXCEPT !.todo = @ \ {c}]
          IN
          \/ /\ c \in r.bases \/ keys \cap r.prot # {} \/ (keys = {} /\ c \notin Valid)
             /\ Set(o, rest) /\ UNCHANGED faults
          \/ /\ c \notin r.bases /\ keys \cap r.prot = {} /\ (keys # {} \/ c \in Valid)
             /\ Set(o, [rest EXCEPT !.pc = "delete", !.bk = c, !.keys = keys])
             /\ UNCHANGED faults
          \/ /\ c \notin r.bases /\ faults < MaxFaults /\ faults' = faults + 1
             /\ Set(o, rest)
    /\ UNCHANGED <<commands, local, remote, objects, young, state, crashes, misreads>>

RetentionDone(o) ==
    /\ op[o].pc = "fetch" /\ op[o].fetch = {} /\ op[o].todo = {}
    /\ Set(o, Blank)
    /\ UNCHANGED <<commands, local, remote, objects, young, state, crashes, faults, misreads>>

(* delete_keys(data_keys): some failed keys of a batch are only logged; a  *)
(* batch that fails as a whole skips the candidate, after the batches that *)
(* went through.                                                           *)
RetentionDeleteData(o) ==
    LET r == op[o]
        skip == [r EXCEPT !.pc = "fetch", !.keys = {}]
        on   == [r EXCEPT !.pc = "delete_manifest", !.keys = {}]
    IN
    /\ r.pc = "delete"
    /\ \/ objects' = objects \ r.keys /\ Set(o, on) /\ UNCHANGED faults
       \/ /\ faults < MaxFaults /\ faults' = faults + 1
          /\ \E D \in SUBSET r.keys :
                /\ objects' = objects \ D
                /\ (D # {} /\ Set(o, on)) \/ Set(o, skip)
    /\ UNCHANGED <<commands, local, remote, young, state, crashes, misreads>>

(* ... and the manifest goes last. *)
RetentionDeleteManifest(o) ==
    LET r == op[o] IN
    /\ r.pc = "delete_manifest"
    /\ \/ remote' = [remote EXCEPT ![r.bk] = NoManifest] /\ UNCHANGED faults
       \/ faults < MaxFaults /\ faults' = faults + 1 /\ UNCHANGED remote
    /\ Set(o, [r EXCEPT !.pc = "fetch"])
    /\ UNCHANGED <<commands, local, objects, young, state, crashes, misreads>>

-----------------------------------------------------------------------------
(* Admin commands, under the global lock *)

(* delete_remote: everything under the prefix, manifest included, in no    *)
(* particular order; the keys of a batch that fail are only logged.        *)
DeleteRemote(o, b) ==
    /\ "delete_remote" \in commands
    /\ op[o].pc = "idle" /\ LockFree(o, Global)
    /\ b \in Valid \cup Broken({})
    /\ \/ /\ objects' = objects \ ListPrefix(b)
          /\ remote' = [remote EXCEPT ![b] = NoManifest]
          /\ UNCHANGED faults
       \/ /\ faults < MaxFaults /\ faults' = faults + 1
          /\ \E D \in SUBSET ListPrefix(b) : objects' = objects \ D
          /\ remote' \in {remote, [remote EXCEPT ![b] = NoManifest]}
    /\ UNCHANGED <<commands, local, young, state, op, crashes, misreads>>

(* clean_broken_remote lists the backups... *)
CleanStart(o, miss) ==
    /\ "clean_broken" \in commands
    /\ op[o].pc = "idle" /\ LockFree(o, Global) /\ Broken(miss) # {}
    /\ Misread(miss)
    /\ Set(o, [Blank EXCEPT !.pc = "clean_fetch", !.lock = Global,
                            !.todo = Broken(miss), !.fetch = Valid \ miss])
    /\ UNCHANGED <<commands, local, remote, objects, young, state, crashes, faults>>

(* ...protects what the valid manifests reference, or gives up... *)
CleanFetch(o, s) ==
    LET r == op[o] IN
    /\ r.pc = "clean_fetch" /\ s \in r.fetch
    /\ \/ /\ s \in Valid
          /\ Set(o, [r EXCEPT !.fetch = @ \ {s}, !.prot = @ \cup KeysOf(remote[s])])
          /\ UNCHANGED faults
       \/ faults < MaxFaults /\ faults' = faults + 1 /\ Set(o, Blank)
    /\ UNCHANGED <<commands, local, remote, objects, young, state, crashes, misreads>>

(* The candidate's part of the run: the planned keys, none to skip it. *)
CleanPlan(o, c, keys, man) ==
    LET r == op[o] IN
    /\ r.pc = "clean_fetch" /\ r.fetch = {} /\ c \in r.todo
    /\ Set(o, [r EXCEPT !.todo = @ \ {c}, !.bk = c, !.keys = keys, !.man = man,
                        !.pc = IF keys = {} /\ ~man THEN "clean_fetch" ELSE "clean_delete"])

(* Mutant: keys that valid manifests reference are deleted as well. *)
CleanCandidateUnprotected(o, c) ==
    LET skip == (\E q \in Op : op[q].lock = c) \/ c \in young IN
    /\ CleanPlan(o, c, IF skip THEN {} ELSE ListPrefix(c), ~skip /\ c \in Valid)
    /\ UNCHANGED <<commands, local, remote, objects, young, state, crashes, faults, misreads>>

(* ...plan_clean_broken_deletion: a live lock or a young object keeps the  *)
(* prefix, protected keys stay; a prefix that cannot be listed is left...  *)
CleanCandidate(o, c) ==
    LET skip == (\E q \in Op : op[q].lock = c) \/ c \in young IN
    /\ \/ /\ CleanPlan(o, c, IF skip THEN {} ELSE ListPrefix(c) \ op[o].prot,
                          ~skip /\ c \in Valid)
          /\ UNCHANGED faults
       \/ CleanPlan(o, c, {}, FALSE) /\ faults < MaxFaults /\ faults' = faults + 1
    /\ UNCHANGED <<commands, local, remote, objects, young, state, crashes, misreads>>

(* ...and the planned keys are deleted, all but those that fail. *)
CleanDelete(o) ==
    LET r == op[o]
        gone == [remote EXCEPT ![r.bk] = NoManifest]
    IN
    /\ r.pc = "clean_delete"
    /\ \/ /\ objects' = objects \ r.keys
          /\ remote' = IF r.man THEN gone ELSE remote
          /\ UNCHANGED faults
       \/ /\ faults < MaxFaults /\ faults' = faults + 1
          /\ \E D \in SUBSET r.keys : objects' = objects \ D
          /\ remote' \in IF r.man THEN {remote, gone} ELSE {remote}
    /\ Set(o, [r EXCEPT !.pc = "clean_fetch", !.keys = {}, !.man = FALSE])
    /\ UNCHANGED <<commands, local, young, state, crashes, misreads>>

CleanDone(o) ==
    /\ op[o].pc = "clean_fetch" /\ op[o].fetch = {} /\ op[o].todo = {}
    /\ Set(o, Blank)
    /\ UNCHANGED <<commands, local, remote, objects, young, state, crashes, faults, misreads>>

-----------------------------------------------------------------------------
(* External: the process of a command is killed. *)
Crash(o) ==
    /\ op[o].pc # "idle" /\ crashes < MaxCrashes
    /\ crashes' = crashes + 1
    /\ Set(o, Blank)
    /\ UNCHANGED <<commands, local, remote, objects, young, state, faults, misreads>>

(* External: clean_broken_min_age_secs pass without a write to a prefix.   *)
(* "Lower [it] only if no upload can outlive the window": an upload in     *)
(* flight writes, and clean_broken takes its `now', within that time.      *)
Age(b) ==
    /\ b \in young
    /\ \A o \in Op : op[o].bk = b => op[o].pc \notin {"parts", "publish"}
    /\ \A o \in Op : op[o].pc \notin {"clean_fetch", "clean_delete"}
    /\ young' = young \ {b}
    /\ UNCHANGED <<commands, local, remote, objects, state, op, crashes, faults, misreads>>

UploadStep(o) ==
    \/ \E p \in Part : UploadPart(o, p) \/ PartCancelled(o, p) \/ PartFails(o, p)
    \/ Join(o) \/ Publish(o) \/ SaveLocal(o) \/ UploadFails(o) \/ Kill(o)

RetentionStep(o) ==
    \/ \E miss \in SUBSET Backup : RetentionPlan(o, miss)
    \/ RetentionCandidate(o) \/ RetentionDone(o)
    \/ \E s \in Backup : FetchManifest(o, s)
    \/ RetentionDeleteData(o) \/ RetentionDeleteManifest(o)

AdminStep(o) ==
    \/ \E b \in Backup : DeleteRemote(o, b) \/ CleanFetch(o, b) \/ CleanCandidate(o, b)
    \/ \E miss \in SUBSET Backup : CleanStart(o, miss)
    \/ CleanDelete(o) \/ CleanDone(o)

Next ==
    \/ \E b \in Backup, P \in SUBSET Part \ {{}}, base \in Backup \cup {Own} :
          Create(b, P, base)
    \/ \E o \in Op :
          \/ \E b \in Backup, base \in Backup \cup {Own}, resume \in BOOLEAN :
                UploadStart(o, b, base, resume)
          \/ UploadStep(o) \/ RetentionStep(o) \/ AdminStep(o) \/ Crash(o)
    \/ \E b \in Backup : Age(b)

Spec == Init /\ [][Next]_vars

-----------------------------------------------------------------------------
(* Properties *)

Labels == {"idle", "parts", "publish", "save", "retain", "fetch", "delete",
           "delete_manifest", "clean_fetch", "clean_delete"}

OpState ==
    [pc : Labels, bk : Backup \cup {Global}, lock : Backup \cup {Global, NoLock},
     mem : SUBSET Entry, pend : SUBSET Part, done : SUBSET Part,
     completed : SUBSET Key, resume : BOOLEAN, base : Backup \cup {Own},
     killed : BOOLEAN, failed : BOOLEAN, todo : SUBSET Backup, fetch : SUBSET Backup,
     prot : SUBSET Key, bases : SUBSET Backup, keys : SUBSET Key, man : BOOLEAN]

(* Type correctness of the store, the local backups and the commands. *)
TypeOK ==
    /\ DOMAIN local = Backup /\ \A b \in Created : local[b] \subseteq Entry
    /\ DOMAIN remote = Backup /\ \A b \in Valid : remote[b] \subseteq Entry
    /\ objects \subseteq Key
    /\ young \subseteq Backup
    /\ state \in [Backup -> [completed : SUBSET Key, base : Backup \cup {Own}] \cup {NoState}]
    /\ op \in [Op -> OpState]
    /\ commands \in Workloads
    /\ crashes \in 0..MaxCrashes /\ faults \in 0..MaxFaults /\ misreads \in 0..MaxMisreads

(* The backups retention is asked to keep: the Keep newest valid ones. *)
Kept == {b \in Valid : Keep = 0 \/ Cardinality({c \in Valid : c > b}) < Keep}

(* The newest backups_to_keep_remote backups can be restored: each part of *)
(* their manifests has a key and the object is there, whatever uploads and *)
(* retention passes crashed or failed half-way before.                     *)
KeptRestorable == \A b \in Kept : \A e \in remote[b] : e.key \in objects

(* A manifest is published with a key for every part: upload writes it     *)
(* last, and never after a cancelled or failed part.                       *)
PublishedComplete == \A b \in Valid : \A e \in remote[b] : e.key # NoKey

(* Between commands no manifest points at keys that are gone: what the     *)
(* comment on retention's deletion order and the manual's account of the   *)
(* garbage collection promise.                                             *)
NoDanglingManifest ==
    (\A o \in Op : op[o].pc = "idle") =>
        \A b \in Valid : KeysOf(remote[b]) \subseteq objects

(* Retention is all-or-nothing: it never leaves "a backup that still owns  *)
(* live data but has no manifest", which clean_broken would destroy.       *)
LiveDataIsListed ==
    \A b \in Kept : \A k \in KeysOf(remote[b]) \cap objects : k[1] \in Valid

(* clean_broken never plans to delete an object that a valid manifest      *)
(* references, nor one uploaded by a command that may still publish its    *)
(* manifest: a running upload, or one killed after the cancellation check. *)
CleanSparesLive ==
    \A o \in Op : op[o].pc = "clean_delete" =>
        /\ \A b \in Valid : op[o].keys \cap KeysOf(remote[b]) = {}
        /\ \A q \in Op :
              op[q].pc = "publish" \/ (op[q].pc = "parts" /\ ~op[q].killed) =>
                op[o].keys \cap {<<op[q].bk, p>> : p \in op[q].done} = {}
=============================================================================
