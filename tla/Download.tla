------------------------------ MODULE Download ------------------------------
(***************************************************************************)
(* download(): a remote backup is fetched part by part into the local      *)
(* backup directory.  The parts are spread over the default disk and       *)
(* others, each in its own directory; metadata.json is written last and is *)
(* what makes the local backup a listed one.  download.state.json carries  *)
(* the finished keys for --resume and the disk map that delete_local needs *)
(* when metadata.json is missing.                                          *)
(*                                                                         *)
(* A part is the two files that matter: "sums" (checksums.txt, the only    *)
(* file whose CRC64 is compared, if the manifest has one) and "data" (the  *)
(* rest, which nothing checks).  Archives are unpacked file by file, so a  *)
(* crash or an error leaves torn and missing files.                        *)
(* Several backups are downloaded side by side (locks are per backup) and  *)
(* --hardlink-exists-files links parts out of each other's directories.    *)
(***************************************************************************)
EXTENDS Naturals, FiniteSets

CONSTANTS
    Backups, Parts,
    PartsOf,     \* [Backups -> SUBSET Parts]: the parts in a backup's manifest
    Shared,      \* parts with the same content in every backup (an incremental chain)
    S3Parts,     \* parts on an S3 object disk: only their metadata files are fetched
    NoCrc,       \* <<b, p>>: the manifest of b has no CRC64 for p (checksum_crc64 = 0)
    OtherDisk,   \* parts whose disk is not the default one
    Mapped,      \* backups whose manifest has a disk map (create always writes one)
    Resumes,     \* the values of --resume (and use_resumable_state) in use
    Hardlinks,   \* the values of --hardlink-exists-files in use
    Conc,        \* download_concurrency
    Retries,     \* retries_on_failure
    MaxVersion,  \* [Backups -> Nat]: how often a name is published (delete + upload again)
    StaleResume, \* a name is published again while a state file lists its old keys
    SaveFails,   \* a state file may fail to be written (save_state_graceful)
    Kills,       \* /kill is used
    MaxRuns, MaxFaults,
    MaxInterrupts \* crashes and kills

ASSUME BoundsAssumption ==
    /\ Conc \in Nat \ {0} /\ Retries \in Nat /\ MaxVersion \in [Backups -> Nat \ {0}]
    /\ MaxRuns \in Nat /\ MaxFaults \in Nat /\ MaxInterrupts \in Nat
    /\ IsFiniteSet(Parts) /\ "no file" \notin Parts
    /\ PartsOf \in [Backups -> SUBSET Parts] /\ Shared \subseteq Parts /\ S3Parts \subseteq Parts /\ OtherDisk \subseteq Parts
    /\ NoCrc \subseteq Backups \X Parts /\ Mapped \subseteq Backups
    /\ Resumes \subseteq BOOLEAN /\ Hardlinks \subseteq BOOLEAN
    /\ StaleResume \in BOOLEAN /\ SaveFails \in BOOLEAN /\ Kills \in BOOLEAN

VARIABLES
    remote,  \* [Backups -> Nat]: the published version, 0 when there is none
    disk,    \* [Backups -> [Parts -> [Files -> contents]]]: the local part directories
    dir,     \* [Backups -> BOOLEAN]: {data_path}/backup/{name} exists
    meta,    \* [Backups -> Nat]: the version metadata.json describes, 0 when absent or torn
    sealed,  \* [Backups -> BOOLEAN]: no run has got at the parts since metadata.json was written
    state,   \* [Backups -> state file]: download.state.json
    op,      \* [Backups -> run of download()]
    orphan,  \* [Backups -> [Parts -> unpack that outlives its run]]
    loose,   \* [Backups -> SUBSET Parts]: parts linked from one that was not whole itself, or
             \* written by a killed run's unpack, and neither fetched nor removed since
    boot,    \* backups whose download auto_resume has yet to start
    runs, faults, interrupts

vars == <<remote, disk, dir, meta, sealed, state, op, orphan, loose, boot, runs, faults, interrupts>>

Files == {"sums", "data"}
None == <<"none">>
Torn == <<"torn">>
Damaged == <<"damaged">>
NoFile == [done |-> {"no file"}]

Content(b, p, v) == IF p \in Shared THEN <<"part", p, v>> ELSE <<"part", b, p, v>>
Missing == [f \in Files |-> None]
WholeOf(b, p, v) == [f \in Files |-> Content(b, p, v)]

NoTask == [pc |-> "none", left |-> {}, got |-> Missing, src |-> None, tries |-> 0]
Idle == [pc |-> "idle", resume |-> FALSE, hard |-> FALSE, ver |-> 0, mem |-> {},
         task |-> [p \in Parts |-> NoTask]]

Init ==
    /\ remote = [b \in Backups |-> 1] /\ disk = [b \in Backups |-> [p \in Parts |-> Missing]]
    /\ dir = [b \in Backups |-> FALSE] /\ meta = [b \in Backups |-> 0]
    /\ sealed = [b \in Backups |-> FALSE]
    /\ state = [b \in Backups |-> NoFile] /\ op = [b \in Backups |-> Idle]
    /\ orphan = [b \in Backups |-> [p \in Parts |-> NoTask]]
    /\ loose = [b \in Backups |-> {}] /\ boot = {} /\ runs = 0 /\ faults = 0 /\ interrupts = 0

Saved == IF SaveFails /\ faults < MaxFaults THEN {TRUE, FALSE} ELSE {TRUE}
Fault == faults < MaxFaults /\ faults' = faults + 1

(* The run goes on, or returns Ok ("ok") or Err ("idle") and drops its per-backup lock. *)
GoesTo(b, pc) == op' = [op EXCEPT ![b].pc = pc]
End(b, pc) == op' = [op EXCEPT ![b] = [Idle EXCEPT !.pc = pc]]
Running(b) == op[b].pc \notin {"idle", "ok"}

-----------------------------------------------------------------------------
(* The run's sequential part. *)

Begin(b, resume, hard) ==
    /\ ~Running(b) /\ runs < MaxRuns
    /\ runs' = runs + 1
    /\ op' = [op EXCEPT ![b] = [Idle EXCEPT !.pc = "manifest", !.resume = resume, !.hard = hard]]
    /\ UNCHANGED <<remote, disk, dir, meta, sealed, state, orphan, loose, faults, interrupts>>

Start(b) == (\E r \in Resumes, h \in Hardlinks : Begin(b, r, h)) /\ UNCHANGED boot

(* A started server resumes what scan_resumable_state_files found. *)
auto_resume(b) == b \in boot /\ boot' = boot \ {b} /\ Begin(b, TRUE, FALSE)

(* BackupNotFound, or an unreadable manifest. *)
ManifestFails(b) ==
    /\ op[b].pc = "manifest" /\ End(b, "idle")
    /\ (remote[b] = 0 /\ UNCHANGED faults) \/ (remote[b] # 0 /\ Fault)
    /\ UNCHANGED <<remote, disk, dir, meta, sealed, state, orphan, loose, boot, runs, interrupts>>

(* The parts that must fit on a disk, those to be hardlinked discounted, do not: nothing of
   the backup was written yet. *)
check_disk_space(b) ==
    /\ op[b].pc = "manifest" /\ remote[b] # 0 /\ PartsOf[b] \ S3Parts # {} /\ Fault /\ End(b, "idle")
    /\ UNCHANGED <<remote, disk, dir, meta, sealed, state, orphan, loose, boot, runs, interrupts>>

completed_keys(b, resume) == IF resume /\ state[b] # NoFile THEN state[b].done ELSE {}

WorkItems(b, done) == [p \in Parts |-> IF p \in PartsOf[b] \ done THEN [NoTask EXCEPT !.pc = "wait"] ELSE NoTask]

(* The manifest is read, space checked, the directory created, the old state loaded, and the
   state file replaced by one that carries the disk map, if there is one, and no finished key. *)
Plan(b) ==
    /\ op[b].pc = "manifest" /\ remote[b] # 0
    /\ LET done == completed_keys(b, op[b].resume)
       IN  op' = [op EXCEPT ![b].pc = "parts", ![b].ver = remote[b], ![b].mem = done,
                            ![b].task = WorkItems(b, done)]
    /\ dir' = [dir EXCEPT ![b] = TRUE]
    /\ sealed' = [sealed EXCEPT ![b] = FALSE]
    /\ \E ok \in Saved :
         /\ state' = IF ok /\ b \in Mapped THEN [state EXCEPT ![b] = [done |-> {}]] ELSE state
         /\ faults' = IF ok \/ b \notin Mapped THEN faults ELSE faults + 1
    /\ UNCHANGED <<remote, disk, meta, orphan, loose, boot, runs, interrupts>>

Tasks(b, pcs) == {p \in Parts : op[b].task[p].pc \in pcs}

(* Every task is awaited before the first error is looked at. *)
Joined(b) == op[b].pc = "parts" /\ Tasks(b, {"none", "done", "failed"}) = Parts

\* Mutant: the first finished tasks are enough.
JoinFirst(b) ==
    /\ op[b].pc = "parts" /\ Tasks(b, {"none", "done"}) # {} /\ GoesTo(b, "extras")
    /\ UNCHANGED <<remote, disk, dir, meta, sealed, state, orphan, loose, boot, runs, faults, interrupts>>

JoinParts(b) ==
    /\ Joined(b)
    /\ IF Tasks(b, {"failed"}) = {} THEN GoesTo(b, "extras") ELSE End(b, "idle")
    /\ UNCHANGED <<remote, disk, dir, meta, sealed, state, orphan, loose, boot, runs, faults, interrupts>>

(* access/ and configs/, each file retried. *)
download_simple_directory(b) ==
    /\ op[b].pc = "extras"
    /\ (GoesTo(b, "publish") /\ UNCHANGED faults) \/ (End(b, "idle") /\ Fault)
    /\ UNCHANGED <<remote, disk, dir, meta, sealed, state, orphan, loose, boot, runs, interrupts>>

(* The tables' own metadata is written and metadata.json truncated ... *)
SaveTables(b) ==
    /\ op[b].pc = "publish"
    /\ \/ GoesTo(b, "write") /\ meta' = [meta EXCEPT ![b] = 0] /\ UNCHANGED faults
       \/ End(b, "idle") /\ Fault /\ UNCHANGED meta
    /\ UNCHANGED <<remote, disk, dir, sealed, state, orphan, loose, boot, runs, interrupts>>

(* ... and written. *)
Publish(b) ==
    /\ op[b].pc = "write"
    /\ \/ /\ GoesTo(b, "forget") /\ UNCHANGED faults
          /\ meta' = [meta EXCEPT ![b] = op[b].ver] /\ sealed' = [sealed EXCEPT ![b] = TRUE]
       \/ End(b, "idle") /\ Fault /\ UNCHANGED <<meta, sealed>>
    /\ UNCHANGED <<remote, disk, dir, state, orphan, loose, boot, runs, interrupts>>

DeleteState(b) ==
    /\ op[b].pc = "forget" /\ End(b, "ok")
    /\ state' = IF op[b].resume THEN [state EXCEPT ![b] = NoFile] ELSE state
    /\ UNCHANGED <<remote, disk, dir, meta, sealed, orphan, loose, boot, runs, faults, interrupts>>

-----------------------------------------------------------------------------
(* The task of one part. *)

Task(b, p) == op[b].task[p]
Goes(b, p, pc) == op' = [op EXCEPT ![b].task[p].pc = pc]
TaskOnly == UNCHANGED <<remote, dir, meta, sealed, boot, runs, interrupts>>

\* Mutant: the key is saved when the fetch starts.
StartTaskSaves(b, p) ==
    /\ op[b].pc = "parts" /\ Task(b, p).pc = "wait"
    /\ Goes(b, p, IF p \notin S3Parts /\ op[b].hard THEN "find" ELSE "fetch")
    /\ state' = IF op[b].resume THEN [state EXCEPT ![b] = [done |-> op[b].mem \cup {p}]] ELSE state
    /\ TaskOnly /\ UNCHANGED <<disk, orphan, loose, faults>>

StartTask(b, p) ==
    /\ op[b].pc = "parts" /\ Task(b, p).pc = "wait"
    /\ Cardinality(Parts \ Tasks(b, {"none", "wait", "done", "failed"})) < Conc
    /\ Goes(b, p, IF p \notin S3Parts /\ op[b].hard THEN "find" ELSE "fetch")
    /\ TaskOnly /\ UNCHANGED <<disk, state, orphan, loose, faults>>

(* What a file of the part may hold in version v as far as anybody looks: a damaged transfer
   shows in checksums.txt alone, and there only if the manifest has its CRC64. *)
Passes(b, p, v, f) ==
    {Content(b, p, v)} \cup (IF f = "sums" /\ p \notin S3Parts /\ <<b, p>> \notin NoCrc THEN {} ELSE {Damaged})
Intact(b, p, v) == \A f \in Files : disk[b][p][f] \in Passes(b, p, v, f)

(* Another local backup has the part under a checksums.txt with the CRC64 of the manifest. *)
find_existing_part(b, p) ==
    {c \in Backups \ {b} : <<b, p>> \notin NoCrc /\ disk[c][p]["sums"] = Content(b, p, op[b].ver)}

FindExisting(b, p) ==
    /\ Task(b, p).pc = "find"
    /\ \/ find_existing_part(b, p) = {} /\ Goes(b, p, "fetch")
       \/ \E c \in find_existing_part(b, p) :
            op' = [op EXCEPT ![b].task[p] = [@ EXCEPT !.pc = "link", !.src = <<c>>]]
    /\ TaskOnly /\ UNCHANGED <<disk, state, orphan, loose, faults>>

(* Whatever files the source has by then are linked; a file already in place or a source that
   went away is an error, and the part is fetched after all. *)
hardlink_existing_part(b, p) ==
    LET c == Task(b, p).src[1]
        from == {f \in Files : disk[c][p][f] # None}
        clash == \E f \in from : disk[b][p][f] # None
        whole == \A f \in Files : disk[c][p][f] \in Passes(b, p, op[b].ver, f)
    IN  /\ Task(b, p).pc = "link"
        /\ disk' = [disk EXCEPT ![b][p] = [f \in Files |->
                        IF f \in from /\ disk[b][p][f] = None THEN disk[c][p][f] ELSE disk[b][p][f]]]
        /\ op' = IF from = {} \/ clash
                 THEN [op EXCEPT ![b].task[p].pc = "fetch"]
                 ELSE [op EXCEPT ![b].task[p].pc = "save"]
        /\ loose' = [loose EXCEPT ![b] =
                        IF whole /\ ~clash /\ orphan[b][p] = NoTask THEN @ \ {p} ELSE @ \cup {p}]
        /\ TaskOnly /\ UNCHANGED <<state, orphan, faults>>

Fetched(b, p, left, got) ==
    /\ op' = [op EXCEPT ![b].task[p] = [@ EXCEPT !.pc = "unpack", !.left = left, !.got = got]]
    /\ loose' = [loose EXCEPT ![b] = IF orphan[b][p] = NoTask THEN @ \ {p} ELSE @ \cup {p}]
    /\ TaskOnly /\ UNCHANGED <<disk, state, orphan>>

(* The archive of the version published now, or one damaged on the way. *)
Arrives(b, p, left) ==
    \/ Fetched(b, p, left, WholeOf(b, p, remote[b])) /\ UNCHANGED faults
    \/ \E bad \in SUBSET Files \ {{}} :
         Fetched(b, p, left, [f \in Files |-> IF f \in bad THEN Damaged ELSE Content(b, p, remote[b])]) /\ Fault

Fetch(b, p) ==
    /\ Task(b, p).pc = "fetch" /\ p \notin S3Parts /\ remote[b] # 0
    /\ Arrives(b, p, Files)

(* The metadata files the part's prefix lists: none, and no error, once the backup is gone. *)
FetchS3(b, p) ==
    /\ Task(b, p).pc = "fetch" /\ p \in S3Parts
    /\ Arrives(b, p, IF remote[b] = 0 THEN {} ELSE Files)

(* A failed request ends the task: only a CRC64 mismatch is retried here. *)
FetchFails(b, p) ==
    /\ Task(b, p).pc = "fetch" /\ Goes(b, p, "failed")
    /\ (remote[b] = 0 /\ p \notin S3Parts /\ UNCHANGED faults) \/ (remote[b] # 0 /\ Fault)
    /\ TaskOnly /\ UNCHANGED <<disk, state, orphan, loose>>

(* The archive's files are replaced one after the other, in any order and each in two steps:
   a crash in between leaves a torn file. *)
Write(b, p, f, t) ==
    /\ f \in t.left /\ (disk[b][p][f] = Torn \/ \A g \in t.left : disk[b][p][g] # Torn)
    /\ disk' = [disk EXCEPT ![b][p][f] = IF @ = Torn THEN t.got[f] ELSE Torn]
Left(b, p, f, t) == IF disk[b][p][f] = Torn THEN t.left \ {f} ELSE t.left

unpack_archive(b, p) ==
    /\ Task(b, p).pc = "unpack"
    /\ \E f \in Files : /\ Write(b, p, f, Task(b, p))
                        /\ op' = [op EXCEPT ![b].task[p].left = Left(b, p, f, Task(b, p))]
    /\ TaskOnly /\ UNCHANGED <<state, orphan, loose, faults>>

(* The archive cannot be read on or a file not be written: no retry, and no cleaning up. *)
UnpackFails(b, p) ==
    /\ Task(b, p).pc = "unpack" /\ Task(b, p).left # {} /\ Fault /\ Goes(b, p, "failed")
    /\ TaskOnly /\ UNCHANGED <<disk, state, orphan, loose>>

\* Mutant: a part that fails its check is kept and counted as downloaded.
VerifyNever(b, p) ==
    /\ Task(b, p).pc = "unpack" /\ Task(b, p).left = {} /\ Goes(b, p, "save")
    /\ TaskOnly /\ UNCHANGED <<disk, state, orphan, loose, faults>>

(* Unpacked: the CRC64 of checksums.txt decides, if the manifest has it, and a mismatch
   removes the part. *)
Verify(b, p) ==
    LET good == p \in S3Parts \/ <<b, p>> \in NoCrc \/ disk[b][p]["sums"] = Content(b, p, op[b].ver)
        t == Task(b, p)
    IN  /\ t.pc = "unpack" /\ t.left = {}
        /\ disk' = IF good THEN disk ELSE [disk EXCEPT ![b][p] = Missing]
        /\ op' = [op EXCEPT ![b].task[p] =
                     IF good THEN [t EXCEPT !.pc = "save"]
                     ELSE IF t.tries < Retries THEN [NoTask EXCEPT !.pc = "fetch", !.tries = t.tries + 1]
                     ELSE [NoTask EXCEPT !.pc = "failed"]]
        /\ TaskOnly /\ UNCHANGED <<state, orphan, loose, faults>>

SaveDone(b, p) ==
    LET mem == op[b].mem \cup {p}
    IN  /\ Task(b, p).pc = "save"
        /\ op' = [op EXCEPT ![b].task[p] = [NoTask EXCEPT !.pc = "done"],
                            ![b].mem = IF op[b].resume THEN mem ELSE @]
        /\ \E ok \in Saved :
             /\ state' = IF op[b].resume /\ ok THEN [state EXCEPT ![b] = [done |-> mem]] ELSE state
             /\ faults' = IF op[b].resume /\ ~ok THEN faults + 1 ELSE faults
        /\ TaskOnly /\ UNCHANGED <<disk, orphan, loose>>

-----------------------------------------------------------------------------
(* Everybody else. *)

(* /kill drops the future and its lock; the tasks see the token at their next await, but an
   unpack on the blocking pool runs to its end.  (Bound: one such unpack per part.) *)
Kill(b) ==
    /\ Kills /\ interrupts < MaxInterrupts /\ interrupts' = interrupts + 1
    /\ Running(b) /\ orphan[b] = [p \in Parts |-> NoTask] /\ End(b, "idle")
    /\ orphan' = [orphan EXCEPT ![b] = [p \in Parts |->
                     IF Task(b, p).pc = "unpack" /\ Task(b, p).left # {} /\ p \notin S3Parts
                     THEN Task(b, p) ELSE NoTask]]
    /\ UNCHANGED <<remote, disk, dir, meta, sealed, state, loose, boot, runs, faults>>

(* Where a manifest has no disk map, every part is in the backup's own directory. *)
Away(b) == IF b \in Mapped THEN OtherDisk ELSE {}

OrphanUnpack(b, p) ==
    /\ \E f \in Files :
         /\ Write(b, p, f, orphan[b][p])
         /\ LET left == Left(b, p, f, orphan[b][p])
            IN  orphan' = [orphan EXCEPT ![b][p] = IF left = {} THEN NoTask ELSE [@ EXCEPT !.left = left]]
    /\ loose' = [loose EXCEPT ![b] = @ \cup {p}]
    /\ dir' = [dir EXCEPT ![b] = @ \/ p \notin Away(b)]
    /\ UNCHANGED <<remote, meta, sealed, state, op, boot, runs, faults, interrupts>>

(* delete_local finds the directories on other disks through metadata.json, or through the
   disk map of the state file. *)
delete_local(b) ==
    LET found == IF meta[b] # 0 \/ state[b] # NoFile THEN Parts ELSE Parts \ Away(b)
    IN  /\ ~Running(b) /\ dir[b]
        /\ disk' = [disk EXCEPT ![b] = [p \in Parts |-> IF p \in found THEN Missing ELSE @[p]]]
        /\ dir' = [dir EXCEPT ![b] = FALSE] /\ meta' = [meta EXCEPT ![b] = 0]
        /\ sealed' = [sealed EXCEPT ![b] = FALSE] /\ state' = [state EXCEPT ![b] = NoFile]
        /\ op' = [op EXCEPT ![b] = Idle] /\ loose' = [loose EXCEPT ![b] = @ \ found]
        /\ UNCHANGED <<remote, orphan, boot, runs, faults, interrupts>>

(* Retention or an operator elsewhere removes the remote backup, even under a running
   download; the name is published again once nothing here holds its lock. *)
DeleteRemote(b) ==
    /\ remote[b] # 0 /\ remote[b] < MaxVersion[b] /\ remote' = [remote EXCEPT ![b] = 0]
    /\ UNCHANGED <<disk, dir, meta, sealed, state, op, orphan, loose, boot, runs, faults, interrupts>>

PublishAgain(b) ==
    /\ remote[b] = 0 /\ ~Running(b) /\ orphan[b] = [p \in Parts |-> NoTask]
    /\ StaleResume \/ state[b] = NoFile \/ state[b].done = {}
    /\ remote' = [remote EXCEPT ![b] = MaxVersion[b]]
    /\ UNCHANGED <<disk, dir, meta, sealed, state, op, orphan, loose, boot, runs, faults, interrupts>>

Crash ==
    /\ interrupts < MaxInterrupts /\ interrupts' = interrupts + 1
    /\ op' = [b \in Backups |-> Idle]
    /\ orphan' = [b \in Backups |-> [p \in Parts |-> NoTask]]
    /\ boot' = {b \in Backups : state[b] # NoFile}
    /\ UNCHANGED <<remote, disk, dir, meta, sealed, state, loose, runs, faults>>

-----------------------------------------------------------------------------
RunStep(b) ==
    ManifestFails(b) \/ check_disk_space(b) \/ Plan(b) \/ JoinParts(b) \/ download_simple_directory(b)
        \/ SaveTables(b) \/ Publish(b) \/ DeleteState(b)
TaskStep(b, p) ==
    StartTask(b, p) \/ FindExisting(b, p) \/ hardlink_existing_part(b, p) \/ Fetch(b, p)
        \/ FetchS3(b, p) \/ FetchFails(b, p) \/ unpack_archive(b, p) \/ UnpackFails(b, p) \/ Verify(b, p) \/ SaveDone(b, p)

Next ==
    \/ \E b \in Backups : Start(b) \/ auto_resume(b) \/ RunStep(b) \/ Kill(b) \/ delete_local(b)
                          \/ DeleteRemote(b) \/ PublishAgain(b)
    \/ \E b \in Backups, p \in Parts : TaskStep(b, p) \/ OrphanUnpack(b, p)
    \/ Crash

(* tokio runs every ready task; requests answer or fail. *)
Fairness ==
    \A b \in Backups : WF_vars(RunStep(b)) /\ \A p \in Parts : WF_vars(TaskStep(b, p))

Spec == Init /\ [][Next]_vars /\ Fairness

-----------------------------------------------------------------------------
\* The variables keep their shapes, and the semaphore bounds the tasks at work.
TypeOK ==
    /\ \A b \in Backups :
         /\ remote[b] \in 0..MaxVersion[b] /\ meta[b] \in 0..MaxVersion[b] /\ dir[b] \in BOOLEAN /\ sealed[b] \in BOOLEAN
         /\ DOMAIN disk[b] = Parts /\ \A p \in Parts : DOMAIN disk[b][p] = Files
         /\ state[b] = NoFile \/ state[b].done \subseteq PartsOf[b]
         /\ op[b].mem \subseteq Parts /\ loose[b] \subseteq Parts
         /\ Cardinality(Parts \ Tasks(b, {"none", "wait", "done", "failed"})) <= Conc
    /\ boot \subseteq Backups /\ runs \in 0..MaxRuns

\* A download that returns Ok has every part of its manifest in place, every file of it unpacked
\* from the published version and checksums.txt as the manifest says, however many crashed,
\* killed or failed runs came before and whatever --resume skipped or was linked.  Not vouched
\* for: what a transfer damaged where the code does not look (Passes), parts linked from a part
\* that was itself half unpacked, and parts a killed run's unpack still writes to (`loose`).
SuccessMeansComplete ==
    [][\A b \in Backups : op[b].pc # "ok" /\ op'[b].pc = "ok" =>
          \A p \in PartsOf[b] \ loose[b] : Intact(b, p, op[b].ver)]_vars

\* What the properties below ask of the outside: a part on an object disk is not fetched from
\* a backup that was deleted under the download.  Its prefix then lists no file, which is no
\* error, and the part counts as downloaded.
S3PartsStay ==
    \A b \in Backups, p \in S3Parts : op[b].task[p].pc = "fetch" => remote[b] # 0

\* What --resume (and auto_resume) would skip is on disk: every key in the state file names a
\* part that is neither torn nor half there, nor older than its checksum (with the exemptions
\* of SuccessMeansComplete).
ResumeTruthful ==
    \A b \in Backups : state[b] # NoFile =>
        \A p \in state[b].done \ loose[b] : \E v \in 1..MaxVersion[b] : Intact(b, p, v)

\* A local backup that list shows as usable (it goes by metadata.json alone) is whole in the
\* version metadata.json describes, from the moment that file is written until a new run of the
\* same name begins on the parts or delete_local removes it: through a crash before the state
\* file is gone, later runs that fail early, and whatever other downloads do meanwhile (with the
\* exemptions of SuccessMeansComplete).
ListedWhole ==
    \A b \in Backups : sealed[b] => meta[b] # 0 /\ \A p \in PartsOf[b] \ loose[b] : Intact(b, p, meta[b])

\* delete_local leaves nothing of the backup behind on any disk, at whatever point its download
\* was interrupted (the disk map is in place before the first part).
DeleteRemovesAll ==
    [][\A b \in Backups : dir[b] /\ ~dir'[b] =>
          \A p \in Parts \ loose[b] : disk'[b][p] = Missing]_vars

\* Every download returns: retries are bounded, and no task waits for another for ever.
DownloadEnds == \A b \in Backups : Running(b) ~> ~Running(b)

-----------------------------------------------------------------------------
(* What the repository says and the code does not do; each is refuted by a configuration. *)

\* --hardlink-exists-files and /kill leave nothing half done in a download that returned Ok.
NoLooseEnds ==
    [][\A b \in Backups : op[b].pc # "ok" /\ op'[b].pc = "ok" =>
          \A p \in PartsOf[b] : Intact(b, p, op[b].ver)]_vars

\* "A checksum is computed for each part for later verification": a damaged archive is noticed.
DamageNoticed ==
    [][\A b \in Backups : op[b].pc # "ok" /\ op'[b].pc = "ok" =>
          \A p \in PartsOf[b], f \in Files : disk[b][p][f] # Damaged]_vars

\* "pick up where they left off": a resumed download never forgets finished parts.
ResumeKeeps ==
    [][\A b \in Backups : op[b].pc = "manifest" /\ op'[b].pc = "parts" /\ op[b].resume
           /\ state[b] # NoFile => state[b].done \subseteq state'[b].done]_vars

\* auto_resume is for interrupted downloads: one that returned Ok is not started again.
FinishedStaysFinished ==
    [][\A b \in Backups : op[b].pc = "ok" => b \notin boot' \ boot]_vars

\* A failed download over a listed local backup does not damage it.
RepeatSpares ==
    \A b \in Backups : meta[b] # 0 /\ ~Running(b) => \A p \in PartsOf[b] : Intact(b, p, meta[b])
=============================================================================
