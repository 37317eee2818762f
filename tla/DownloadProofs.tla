--------------------------- MODULE DownloadProofs ---------------------------
(***************************************************************************)
(* Proofs about Download, for any backups and parts, any spread of the     *)
(* parts over disks and any number of runs, faults, crashes and kills: the *)
(* semaphore bounds the tasks; and, where every state file is written, the *)
(* directories on other disks can always be found again, the state file    *)
(* names only parts that are there in full, and a backup whose             *)
(* metadata.json was just written, or whose download returned Ok, has all  *)
(* of its parts.  Damage in transit to files nobody checks is allowed for  *)
(* throughout (Passes).                                                    *)
(***************************************************************************)
EXTENDS Download, FiniteSetTheorems, TLAPS

Data == {None, Torn, Damaged}
            \cup {Content(b, p, v) : b \in Backups, p \in Parts, v \in Nat}
Labels == {"idle", "ok", "manifest", "parts", "extras", "publish", "write", "forget"}
TaskLabels == {"none", "wait", "find", "link", "fetch", "unpack", "save", "done", "failed"}
TaskRec ==
    [pc : TaskLabels, left : SUBSET Files, got : [Files -> Data], src : {None} \cup {<<c>> : c \in Backups},
     tries : Nat]
OpRec ==
    [pc : Labels, resume : BOOLEAN, hard : BOOLEAN, ver : Nat, mem : SUBSET Parts,
     task : [Parts -> TaskRec]]
StateFiles == {NoFile} \cup [done : SUBSET Parts]

TypeInv ==
    /\ remote \in [Backups -> Nat] /\ meta \in [Backups -> Nat] /\ dir \in [Backups -> BOOLEAN]
    /\ sealed \in [Backups -> BOOLEAN]
    /\ disk \in [Backups -> [Parts -> [Files -> Data]]]
    /\ state \in [Backups -> StateFiles] /\ op \in [Backups -> OpRec]
    /\ orphan \in [Backups -> [Parts -> TaskRec]] /\ loose \in [Backups -> SUBSET Parts]
    /\ boot \subseteq Backups /\ runs \in 0..MaxRuns

(* Every state file is written. *)
Kept == ~SaveFails /\ Mapped = Backups

(* The run has read the manifest and replaced the state file. *)
Planned(b) == op[b].pc \in {"parts", "extras", "publish", "write", "forget"}
Keys(b) == IF state[b] = NoFile THEN {} ELSE state[b].done
Busy(b) == {p \in Parts : op[b].task[p].pc \notin {"none", "wait", "done", "failed"}}

(* Where a run stands: the tasks belong to parts of the manifest and are   *)
(* over once the run has left them; the backup it downloads is the one     *)
(* published or none; and its state file is there, if it could be written. *)
RunInv(b) ==
    /\ remote[b] <= MaxVersion[b] /\ meta[b] <= MaxVersion[b]
    /\ op[b].mem \subseteq PartsOf[b] /\ Keys(b) \subseteq PartsOf[b]
    /\ \A p \in Parts : op[b].task[p].pc # "none" => Planned(b) /\ p \in PartsOf[b]
    /\ \A p \in Parts : op[b].pc # "parts" => op[b].task[p].pc \in {"none", "done"}
    /\ \A p \in Parts : op[b].task[p].pc = "link" => op[b].task[p].src \in {<<c>> : c \in Backups}
    /\ Planned(b) => /\ op[b].ver \in 1..MaxVersion[b] /\ remote[b] \in {0, op[b].ver}
                     /\ Kept => state[b] # NoFile
    /\ op[b].pc = "forget" => meta[b] = op[b].ver
    /\ sealed[b] => (Planned(b) => op[b].pc = "forget") /\ meta[b] # 0
    /\ Cardinality(Busy(b)) <= Conc

(* Without metadata.json and a state file there is nothing on other disks. *)
ClearInv(b) ==
    meta[b] = 0 /\ state[b] = NoFile => \A p \in OtherDisk \ loose[b] : disk[b][p] = Missing

-----------------------------------------------------------------------------
Fit(b, p) == \E v \in 1..MaxVersion[b] : Intact(b, p, v)

(* A key of the run is a part nobody works on, every part of the manifest  *)
(* has a task or is a key, and the state file holds keys of its run only.  *)
KeyInv(b, p) ==
    /\ op[b].task[p].pc # "none" /\ op[b].task[p].pc # "done" => p \notin op[b].mem
    /\ Planned(b) /\ p \in Keys(b) => p \in op[b].mem
    /\ Planned(b) /\ p \in PartsOf[b] /\ op[b].task[p].pc = "none" => p \in op[b].mem

(* What is vouched for (see loose) is whole: keys, in the run and in the   *)
(* file, are whole in some version, and in the version downloaded when no  *)
(* name is published again over old keys; a part is whole in the version   *)
(* downloaded once it was checked, and so far as it was unpacked before.   *)
WholeInv(b, p) == p \notin loose[b] =>
    /\ Planned(b) /\ p \in op[b].mem => Fit(b, p) /\ (~StaleResume => Intact(b, p, op[b].ver))
    /\ p \in Keys(b) => Fit(b, p) /\ (~StaleResume /\ remote[b] # 0 => Intact(b, p, remote[b]))
    /\ op[b].task[p].pc \in {"save", "done"} => Intact(b, p, op[b].ver)
    /\ op[b].task[p].pc = "unpack" =>
         /\ \A f \in Files : op[b].task[p].got[f] \in {Content(b, p, op[b].ver), Damaged}
         /\ \A f \in Files \ op[b].task[p].left : disk[b][p][f] = op[b].task[p].got[f]
    /\ ~StaleResume /\ sealed[b] /\ p \in PartsOf[b] => Intact(b, p, meta[b])

PartInv(b) == \A p \in Parts : KeyInv(b, p) /\ WholeInv(b, p)

-----------------------------------------------------------------------------
(* Shapes *)

LEMMA DataFacts ==
    /\ None \in Data /\ Torn \in Data /\ Damaged \in Data
    /\ Missing \in [Files -> Data]
    /\ \A b \in Backups, p \in Parts, v \in Nat : Content(b, p, v) \in Data
<1>1. None \in Data /\ Torn \in Data /\ Damaged \in Data
    BY DEF Data
<1>2. \A b \in Backups, p \in Parts, v \in Nat : Content(b, p, v) \in Data
    BY DEF Data
<1>3. Missing \in [Files -> Data]
    BY <1>1 DEF Missing
<1> QED
    BY <1>1, <1>2, <1>3

LEMMA NoTaskFacts ==
    /\ NoTask \in TaskRec /\ NoTask.pc = "none" /\ NoTask.left = {}
    /\ \A x \in TaskLabels : [NoTask EXCEPT !.pc = x] \in TaskRec /\ [NoTask EXCEPT !.pc = x].pc = x
<1>1. Missing \in [Files -> Data]
    BY DataFacts
<1> QED
    BY <1>1 DEF NoTask, TaskRec, TaskLabels, Files

LEMMA IdleFacts ==
    /\ Idle \in OpRec /\ Idle.pc = "idle" /\ Idle.mem = {}
    /\ \A p \in Parts : Idle.task[p] = NoTask
<1>1. [p \in Parts |-> NoTask] \in [Parts -> TaskRec]
    BY NoTaskFacts
<1> QED
    BY <1>1 DEF Idle, OpRec, Labels

LEMMA FileFacts ==
    ASSUME NEW S \in SUBSET Parts
    PROVE  [done |-> S] \in StateFiles /\ [done |-> S] # NoFile /\ [done |-> S].done = S
<1>1. [done |-> S] \in StateFiles /\ [done |-> S].done = S
    BY DEF StateFiles
<1>2. NoFile.done = {"no file"}
    BY DEF NoFile
<1>3. S # {"no file"}
    BY BoundsAssumption
<1> QED
    BY <1>1, <1>2, <1>3

LEMMA KeysType ==
    ASSUME TypeInv, NEW b \in Backups
    PROVE  Keys(b) \subseteq Parts /\ (state[b] # NoFile => Keys(b) = state[b].done)
<1>1. state[b] = NoFile \/ state[b] \in [done : SUBSET Parts]
    BY DEF TypeInv, StateFiles
<1> QED
    BY <1>1 DEF Keys

LEMMA OpFields ==
    ASSUME TypeInv, NEW b \in Backups
    PROVE  /\ op[b] \in OpRec /\ op[b].pc \in Labels /\ op[b].resume \in BOOLEAN
           /\ op[b].hard \in BOOLEAN /\ op[b].ver \in Nat /\ op[b].mem \subseteq Parts
           /\ op[b].task \in [Parts -> TaskRec]
<1>1. op[b] \in OpRec
    BY DEF TypeInv
<1> QED
    BY <1>1 DEF OpRec

LEMMA TaskFields ==
    ASSUME NEW t \in TaskRec
    PROVE  /\ t.pc \in TaskLabels /\ t.left \subseteq Files /\ t.got \in [Files -> Data] /\ t.tries \in Nat
           /\ t.src \in {None} \cup {<<c>> : c \in Backups}
BY DEF TaskRec

-----------------------------------------------------------------------------
(* What a step does to the run of b *)

(* The run of b begins or is over. *)
Ends(b, pc) ==
    /\ op' \in [Backups -> OpRec] /\ \A c \in Backups : c # b => op'[c] = op[c]
    /\ op'[b].pc = pc /\ op'[b].mem = {} /\ \A p \in Parts : op'[b].task[p] = NoTask

(* It goes on. *)
Turns(b, pc) ==
    /\ op' \in [Backups -> OpRec] /\ \A c \in Backups : c # b => op'[c] = op[c]
    /\ op'[b].pc = pc /\ op'[b].mem = op[b].mem /\ op'[b].ver = op[b].ver
    /\ op'[b].task = op[b].task

(* One of its tasks goes on. *)
Works(b, p, t, mem) ==
    /\ op' \in [Backups -> OpRec] /\ \A c \in Backups : c # b => op'[c] = op[c]
    /\ op'[b].pc = op[b].pc /\ op'[b].ver = op[b].ver /\ op'[b].mem = mem
    /\ op'[b].task[p] = t /\ \A q \in Parts : q # p => op'[b].task[q] = op[b].task[q]

LEMMA EndsIt ==
    ASSUME TypeInv, NEW b \in Backups, NEW pc \in Labels, End(b, pc)
    PROVE  Ends(b, pc)
<1>1. [Idle EXCEPT !.pc = pc] \in OpRec
    BY IdleFacts DEF OpRec
<1>2. /\ [Idle EXCEPT !.pc = pc].pc = pc /\ [Idle EXCEPT !.pc = pc].mem = Idle.mem
      /\ [Idle EXCEPT !.pc = pc].task = Idle.task
    BY IdleFacts DEF OpRec
<1>3. op' \in [Backups -> OpRec] /\ op'[b] = [Idle EXCEPT !.pc = pc]
      /\ \A c \in Backups : c # b => op'[c] = op[c]
    BY <1>1 DEF TypeInv, End
<1> QED
    BY <1>2, <1>3, IdleFacts DEF Ends

LEMMA TurnsIt ==
    ASSUME TypeInv, NEW b \in Backups, NEW pc \in Labels, GoesTo(b, pc)
    PROVE  Turns(b, pc)
<1>1. op[b] \in OpRec
    BY OpFields
<1>2. /\ [op[b] EXCEPT !.pc = pc] \in OpRec /\ [op[b] EXCEPT !.pc = pc].pc = pc
      /\ [op[b] EXCEPT !.pc = pc].mem = op[b].mem /\ [op[b] EXCEPT !.pc = pc].ver = op[b].ver
      /\ [op[b] EXCEPT !.pc = pc].task = op[b].task
    BY <1>1 DEF OpRec
<1>3. op' \in [Backups -> OpRec] /\ op'[b] = [op[b] EXCEPT !.pc = pc]
      /\ \A c \in Backups : c # b => op'[c] = op[c]
    BY <1>2 DEF TypeInv, GoesTo
<1> QED
    BY <1>2, <1>3 DEF Turns

LEMMA WorksIt ==
    ASSUME TypeInv, NEW b \in Backups, NEW p \in Parts, NEW t \in TaskRec, NEW mem \in SUBSET Parts,
           op' = [op EXCEPT ![b] = [op[b] EXCEPT !.task = [op[b].task EXCEPT ![p] = t], !.mem = mem]]
    PROVE  Works(b, p, t, mem)
<1>1. op[b] \in OpRec /\ op[b].task \in [Parts -> TaskRec]
    BY OpFields
<1> DEFINE new == [op[b].task EXCEPT ![p] = t]
<1>2. new \in [Parts -> TaskRec] /\ new[p] = t /\ \A q \in Parts : q # p => new[q] = op[b].task[q]
    BY <1>1
<1> DEFINE r == [op[b] EXCEPT !.task = new, !.mem = mem]
<1>3. op' = [op EXCEPT ![b] = r]
    OBVIOUS
<1> HIDE DEF new
<1>4. r \in OpRec /\ r.pc = op[b].pc /\ r.ver = op[b].ver /\ r.mem = mem /\ r.task = new
    BY <1>1, <1>2 DEF OpRec
<1> HIDE DEF r
<1>5. op' \in [Backups -> OpRec] /\ op'[b] = r /\ \A c \in Backups : c # b => op'[c] = op[c]
    BY <1>3, <1>4 DEF TypeInv
<1> QED
    BY <1>2, <1>4, <1>5 DEF Works

LEMMA GoesIt ==
    ASSUME TypeInv, NEW b \in Backups, NEW p \in Parts, NEW t \in TaskRec,
           op' = [op EXCEPT ![b] = [op[b] EXCEPT !.task = [op[b].task EXCEPT ![p] = t]]]
    PROVE  Works(b, p, t, op[b].mem)
<1>1. op[b] \in OpRec /\ op[b].task \in [Parts -> TaskRec]
    BY OpFields
<1> DEFINE new == [op[b].task EXCEPT ![p] = t]
<1>2. new \in [Parts -> TaskRec] /\ new[p] = t /\ \A q \in Parts : q # p => new[q] = op[b].task[q]
    BY <1>1
<1> DEFINE r == [op[b] EXCEPT !.task = new]
<1>3. op' = [op EXCEPT ![b] = r]
    OBVIOUS
<1> HIDE DEF new
<1>4. r \in OpRec /\ r.pc = op[b].pc /\ r.ver = op[b].ver /\ r.mem = op[b].mem /\ r.task = new
    BY <1>1, <1>2 DEF OpRec
<1> HIDE DEF r
<1>5. op' \in [Backups -> OpRec] /\ op'[b] = r /\ \A c \in Backups : c # b => op'[c] = op[c]
    BY <1>3, <1>4 DEF TypeInv
<1> QED
    BY <1>2, <1>4, <1>5 DEF Works

(* A task that keeps its record but for its place. *)
LEMMA GoesPc ==
    ASSUME TypeInv, NEW b \in Backups, NEW p \in Parts, NEW pc \in TaskLabels, Goes(b, p, pc)
    PROVE  \E t \in TaskRec :
               /\ Works(b, p, t, op[b].mem) /\ t.pc = pc
               /\ t.left = op[b].task[p].left /\ t.got = op[b].task[p].got
<1>1. op[b].task[p] \in TaskRec
    BY OpFields
<1> DEFINE n == [op[b].task[p] EXCEPT !.pc = pc]
<1>2. n \in TaskRec /\ n.pc = pc /\ n.left = op[b].task[p].left /\ n.got = op[b].task[p].got
    BY <1>1 DEF TaskRec
<1>3. op' = [op EXCEPT ![b] = [op[b] EXCEPT !.task = [op[b].task EXCEPT ![p] = n]]]
    BY DEF Goes
<1> HIDE DEF n
<1>4. Works(b, p, n, op[b].mem)
    BY <1>2, <1>3, GoesIt
<1> QED
    BY <1>2, <1>4

-----------------------------------------------------------------------------
(* What a step does to the part directories *)

(* Only one part of b is written. *)
Stores(b, p, x) ==
    /\ disk' \in [Backups -> [Parts -> [Files -> Data]]]
    /\ \A c \in Backups : c # b => disk'[c] = disk[c]
    /\ disk'[b][p] = x /\ \A q \in Parts : q # p => disk'[b][q] = disk[b][q]

LEMMA StoresIt ==
    ASSUME TypeInv, NEW b \in Backups, NEW p \in Parts, NEW x \in [Files -> Data],
           disk' = [disk EXCEPT ![b] = [disk[b] EXCEPT ![p] = x]]
    PROVE  Stores(b, p, x)
<1>1. disk[b] \in [Parts -> [Files -> Data]]
    BY DEF TypeInv
<1> DEFINE D == [Files -> Data]
<1>2. disk \in [Backups -> [Parts -> D]] /\ x \in D /\ disk[b] \in [Parts -> D]
    BY <1>1 DEF TypeInv
<1> HIDE DEF D
<1> DEFINE n == [disk[b] EXCEPT ![p] = x]
<1>3. n \in [Parts -> D] /\ n[p] = x /\ \A q \in Parts : q # p => n[q] = disk[b][q]
    BY <1>2
<1>4. disk' = [disk EXCEPT ![b] = n]
    OBVIOUS
<1> HIDE DEF n
<1>5. disk' \in [Backups -> [Parts -> D]] /\ disk'[b] = n /\ \A c \in Backups : c # b => disk'[c] = disk[c]
    BY <1>2, <1>3, <1>4
<1> QED
    BY <1>3, <1>5 DEF Stores, D

LEMMA WriteIt ==
    ASSUME TypeInv, NEW b \in Backups, NEW p \in Parts, NEW f \in Files, NEW t \in TaskRec,
           Write(b, p, f, t)
    PROVE  /\ \E y : Stores(b, p, y)
           /\ disk'[b][p][f] = (IF disk[b][p][f] = Torn THEN t.got[f] ELSE Torn)
           /\ \A g \in Files : g # f => disk'[b][p][g] = disk[b][p][g]
<1> DEFINE w == IF disk[b][p][f] = Torn THEN t.got[f] ELSE Torn
<1>1. w \in Data
    BY TaskFields, DataFacts
<1>2. disk[b][p] \in [Files -> Data]
    BY DEF TypeInv
<1>3. disk' = [disk EXCEPT ![b] = [disk[b] EXCEPT ![p] = [disk[b][p] EXCEPT ![f] = w]]]
    BY DEF Write
<1> HIDE DEF w
<1> DEFINE x == [disk[b][p] EXCEPT ![f] = w]
<1>4. x \in [Files -> Data] /\ x[f] = w /\ \A g \in Files : g # f => x[g] = disk[b][p][g]
    BY <1>1, <1>2
<1>5. disk' = [disk EXCEPT ![b] = [disk[b] EXCEPT ![p] = x]]
    BY <1>3
<1> HIDE DEF x
<1>6. Stores(b, p, x)
    BY <1>4, <1>5, StoresIt
<1>7. disk'[b][p] = x
    BY <1>6 DEF Stores
<1> QED
    BY <1>4, <1>6, <1>7 DEF w

-----------------------------------------------------------------------------
(* Backups a step leaves alone *)

SameAt(c) ==
    /\ op'[c] = op[c] /\ remote'[c] = remote[c] /\ disk'[c] = disk[c] /\ meta'[c] = meta[c] /\ sealed'[c] = sealed[c]
    /\ state'[c] = state[c] /\ loose'[c] = loose[c] /\ dir'[c] = dir[c]

LEMMA SameKeeps ==
    ASSUME NEW c \in Backups, SameAt(c)
    PROVE  /\ RunInv(c) => RunInv(c)'
           /\ ClearInv(c) => ClearInv(c)'
           /\ PartInv(c) => PartInv(c)'
<1>1. Keys(c)' = Keys(c) /\ Planned(c)' = Planned(c) /\ Busy(c)' = Busy(c)
    BY DEF SameAt, Keys, Planned, Busy
<1>2. RunInv(c) => RunInv(c)'
    BY <1>1 DEF SameAt, RunInv
<1>3. ClearInv(c) => ClearInv(c)'
    BY DEF SameAt, ClearInv
<1>4. ASSUME NEW p \in Parts PROVE (KeyInv(c, p) => KeyInv(c, p)') /\ (WholeInv(c, p) => WholeInv(c, p)')
  <2>1. Fit(c, p)' = Fit(c, p)
    BY DEF SameAt, Fit, Intact
  <2> QED
    BY <1>1, <2>1 DEF SameAt, KeyInv, WholeInv, Intact
<1> QED
    BY <1>2, <1>3, <1>4 DEF PartInv

(* A run that begins or is over and left nothing else behind. *)
StillAt(b) ==
    /\ remote'[b] = remote[b] /\ disk'[b] = disk[b] /\ meta'[b] = meta[b] /\ state'[b] = state[b]
    /\ loose'[b] = loose[b] /\ sealed'[b] = sealed[b]

OverAt(b) ==
    /\ op'[b].pc \in {"idle", "ok", "manifest"} /\ op'[b].mem = {}
    /\ \A p \in Parts : op'[b].task[p] = NoTask

LEMMA OverRun ==
    ASSUME TypeInv, NEW b \in Backups, RunInv(b), OverAt(b), Keys(b)' \subseteq PartsOf[b],
           remote'[b] = remote[b], meta'[b] <= MaxVersion[b], sealed'[b] => meta'[b] # 0
    PROVE  RunInv(b)'
<1>1. \A p \in Parts : op'[b].task[p].pc = "none"
    BY NoTaskFacts DEF OverAt
<1>2. Busy(b)' = {}
    BY <1>1 DEF Busy
<1>3. Cardinality(Busy(b)') <= Conc
  <2>1. Cardinality({}) = 0
    BY FS_EmptySet
  <2>2. Conc \in Nat
    BY BoundsAssumption
  <2> QED
    BY <1>2, <2>1, <2>2
<1> QED
    BY <1>1, <1>3 DEF OverAt, RunInv, Planned

LEMMA OverKeeps ==
    ASSUME TypeInv, NEW b \in Backups, RunInv(b), OverAt(b), StillAt(b)
    PROVE  /\ RunInv(b)'
           /\ ClearInv(b) => ClearInv(b)'
           /\ Kept /\ PartInv(b) => PartInv(b)'
<1>1. Keys(b)' = Keys(b) /\ ~Planned(b)'
    BY DEF StillAt, Keys, Planned, OverAt
<1>2. RunInv(b)'
    BY <1>1, OverRun DEF StillAt, RunInv
<1>3. ClearInv(b) => ClearInv(b)'
    BY DEF StillAt, ClearInv
<1>4. ASSUME Kept, PartInv(b), NEW p \in Parts PROVE KeyInv(b, p)' /\ WholeInv(b, p)'
  <2>1. op'[b].task[p].pc = "none"
    BY NoTaskFacts DEF OverAt
  <2>2. Fit(b, p)' = Fit(b, p) /\ \A v : Intact(b, p, v)' = Intact(b, p, v)
    BY DEF StillAt, Fit, Intact
  <2>3. Planned(b) => state[b] # NoFile
    BY <1>4 DEF RunInv
  <2>4. KeyInv(b, p)'
    BY <1>1, <2>1 DEF KeyInv
  <2>5. WholeInv(b, p)
    BY <1>4 DEF PartInv
  <2>6. WholeInv(b, p)'
    BY <1>1, <2>1, <2>2, <2>3, <2>5 DEF WholeInv, StillAt, Intact
  <2> QED
    BY <2>4, <2>6
<1> QED
    BY <1>2, <1>3, <1>4 DEF PartInv

-----------------------------------------------------------------------------
(* The steps of a run *)

(* What every step of b is shown to do. *)
Keeps(b) ==
    /\ TypeInv' /\ RunInv(b)' /\ \A c \in Backups : c # b => SameAt(c)
    /\ Kept /\ ClearInv(b) => ClearInv(b)'
    /\ Kept /\ S3PartsStay /\ PartInv(b) => PartInv(b)'
    /\ op'[b].pc = "ok" => op[b].pc \in {"ok", "forget"}
    /\ dir[b] /\ ~dir'[b] => delete_local(b)

LEMMA BeginStep ==
    ASSUME TypeInv, NEW b \in Backups, RunInv(b),
           Start(b) \/ auto_resume(b)
    PROVE  Keeps(b)
<1>0. boot' \subseteq Backups
    BY DEF Start, auto_resume, TypeInv
<1>1. PICK r \in BOOLEAN, h \in BOOLEAN : Begin(b, r, h)
  <2>1. CASE Start(b)
    BY <2>1, BoundsAssumption DEF Start
  <2>2. CASE auto_resume(b)
    BY <2>2 DEF auto_resume
  <2> QED
    BY <2>1, <2>2
<1> DEFINE n == [Idle EXCEPT !.pc = "manifest", !.resume = r, !.hard = h]
<1>2. n \in OpRec /\ n.pc = "manifest" /\ n.mem = Idle.mem /\ n.task = Idle.task
    BY IdleFacts DEF OpRec, Labels
<1>3. op' = [op EXCEPT ![b] = n] /\ UNCHANGED <<remote, disk, dir, meta, sealed, state, orphan, loose>>
      /\ runs < MaxRuns /\ runs' = runs + 1
    BY <1>1 DEF Begin
<1> HIDE DEF n
<1>4. op' \in [Backups -> OpRec] /\ op'[b] = n /\ \A c \in Backups : c # b => op'[c] = op[c]
    BY <1>2, <1>3 DEF TypeInv
<1>5. OverAt(b)
    BY <1>2, <1>4, IdleFacts DEF OverAt
<1>6. StillAt(b) /\ \A c \in Backups : c # b => SameAt(c)
    BY <1>3, <1>4 DEF StillAt, SameAt
<1>7. runs' \in 0..MaxRuns
  <2>1. runs \in 0..MaxRuns
    BY DEF TypeInv
  <2>2. MaxRuns \in Nat
    BY BoundsAssumption
  <2> QED
    BY <1>3, <2>1, <2>2
<1>8. TypeInv'
    BY <1>0, <1>3, <1>4, <1>7 DEF TypeInv
<1>9. op'[b].pc # "ok" /\ dir' = dir
    BY <1>2, <1>3, <1>4
<1> QED
    BY <1>5, <1>6, <1>8, <1>9, OverKeeps DEF Keeps

(* A run that ends before it is published. *)
LEMMA FailStep ==
    ASSUME TypeInv, NEW b \in Backups, RunInv(b), End(b, "idle"),
           UNCHANGED <<remote, disk, dir, meta, sealed, state, loose, boot, runs>>,
           orphan' \in [Backups -> [Parts -> TaskRec]]
    PROVE  Keeps(b)
<1>1. Ends(b, "idle")
    BY EndsIt DEF Labels
<1>2. OverAt(b)
    BY <1>1 DEF Ends, OverAt
<1>3. StillAt(b) /\ \A c \in Backups : c # b => SameAt(c)
    BY <1>1 DEF StillAt, SameAt, Ends
<1>4. TypeInv'
    BY <1>1 DEF TypeInv, Ends
<1>5. op'[b].pc # "ok" /\ dir' = dir
    BY <1>1 DEF Ends
<1> QED
    BY <1>2, <1>3, <1>4, <1>5, OverKeeps DEF Keeps

LEMMA KillStep ==
    ASSUME TypeInv, NEW b \in Backups, RunInv(b), Kill(b)
    PROVE  Keeps(b)
<1> DEFINE n == [p \in Parts |-> IF Task(b, p).pc = "unpack" /\ Task(b, p).left # {} /\ p \notin S3Parts
                                 THEN Task(b, p) ELSE NoTask]
<1>1. n \in [Parts -> TaskRec]
    BY OpFields, NoTaskFacts DEF Task
<1>2. orphan' = [orphan EXCEPT ![b] = n]
    BY DEF Kill
<1> HIDE DEF n
<1>3. orphan' \in [Backups -> [Parts -> TaskRec]]
    BY <1>1, <1>2 DEF TypeInv
<1> QED
    BY <1>3, FailStep DEF Kill

(* Steps that move the run on, all of whose tasks are over. *)
LEMMA TurnKeeps ==
    ASSUME TypeInv, NEW b \in Backups, RunInv(b), Planned(b), NEW pc \in {"extras", "publish", "write", "forget"},
           Turns(b, pc), \A p \in Parts : op[b].task[p].pc \in {"none", "done"},
           UNCHANGED <<remote, disk, dir, state, orphan, loose, boot, runs>>,
           meta' \in [Backups -> Nat], \A c \in Backups : c # b => meta'[c] = meta[c],
           meta'[b] \in {0, meta[b], op[b].ver}, pc = "forget" => meta'[b] = op[b].ver,
           sealed' \in [Backups -> BOOLEAN], \A c \in Backups : c # b => sealed'[c] = sealed[c],
           sealed'[b] => pc = "forget"
    PROVE  Keeps(b)
<1>1. \A c \in Backups : c # b => SameAt(c)
    BY DEF SameAt, Turns
<1>2. TypeInv'
    BY DEF TypeInv, Turns
<1>3. Planned(b)' /\ Keys(b)' = Keys(b) /\ Busy(b)' = Busy(b)
    BY DEF Planned, Keys, Busy, Turns
<1>4. op[b].ver \in 1..MaxVersion[b] /\ remote[b] \in {0, op[b].ver} /\ (Kept => state[b] # NoFile)
    BY DEF RunInv
<1>5. MaxVersion[b] \in Nat
    BY BoundsAssumption
<1>6. meta'[b] <= MaxVersion[b]
    BY <1>4, <1>5 DEF RunInv, TypeInv
<1>7. RunInv(b)'
  <2>1. sealed'[b] => op'[b].pc = "forget" /\ meta'[b] # 0
    BY <1>4, <1>5 DEF Turns
  <2> QED
    BY <1>3, <1>4, <1>6, <2>1 DEF RunInv, Turns
<1>8. ASSUME Kept PROVE ClearInv(b)'
    BY <1>4, <1>8 DEF ClearInv
<1>9. ASSUME Kept, PartInv(b), NEW p \in Parts PROVE KeyInv(b, p)' /\ WholeInv(b, p)'
  <2>1. KeyInv(b, p) /\ WholeInv(b, p)
    BY <1>9 DEF PartInv
  <2>2. op'[b].task[p].pc = op[b].task[p].pc /\ op'[b].task[p].pc # "unpack"
    BY DEF Turns
  <2>3. Fit(b, p)' = Fit(b, p) /\ \A v : Intact(b, p, v)' = Intact(b, p, v)
    BY DEF Fit, Intact
  <2>4. KeyInv(b, p)'
    BY <1>3, <2>1, <2>2 DEF KeyInv, Turns
  <2>5. sealed'[b] /\ ~StaleResume /\ p \in PartsOf[b] /\ p \notin loose[b] => Intact(b, p, meta'[b])
    BY <2>1, <2>2 DEF KeyInv, WholeInv, Turns
  <2>6. WholeInv(b, p)'
    BY <1>3, <2>1, <2>2, <2>3, <2>5 DEF WholeInv, Turns
  <2> QED
    BY <2>4, <2>6
<1>10. op'[b].pc # "ok" /\ dir' = dir
    BY DEF Turns
<1> QED
    BY <1>1, <1>2, <1>7, <1>8, <1>9, <1>10 DEF Keeps, PartInv

LEMMA JoinStep ==
    ASSUME TypeInv, NEW b \in Backups, RunInv(b), JoinParts(b)
    PROVE  Keeps(b)
<1>1. CASE End(b, "idle")
    BY <1>1, FailStep DEF JoinParts, TypeInv
<1>2. CASE Tasks(b, {"failed"}) = {} /\ GoesTo(b, "extras")
  <2>1. Turns(b, "extras")
    BY <1>2, TurnsIt DEF Labels
  <2>2. ASSUME NEW p \in Parts PROVE op[b].task[p].pc \in {"none", "done"}
    BY <1>2 DEF JoinParts, Joined, Tasks
  <2>3. Planned(b)
    BY DEF JoinParts, Joined, Planned
  <2>4. ~sealed[b]
    BY <2>3 DEF JoinParts, Joined, RunInv
  <2> QED
    BY <2>1, <2>2, <2>3, <2>4, TurnKeeps DEF JoinParts, TypeInv
<1> QED
    BY <1>1, <1>2 DEF JoinParts

LEMMA ExtrasStep ==
    ASSUME TypeInv, NEW b \in Backups, RunInv(b), download_simple_directory(b)
    PROVE  Keeps(b)
<1>1. CASE End(b, "idle")
    BY <1>1, FailStep DEF download_simple_directory, TypeInv
<1>2. CASE GoesTo(b, "publish")
  <2>1. Turns(b, "publish")
    BY <1>2, TurnsIt DEF Labels
  <2>2. (\A p \in Parts : op[b].task[p].pc \in {"none", "done"}) /\ Planned(b)
    BY DEF download_simple_directory, RunInv, Planned
  <2>3. ~sealed[b]
    BY <2>2 DEF download_simple_directory, RunInv
  <2> QED
    BY <2>1, <2>2, <2>3, TurnKeeps DEF download_simple_directory, TypeInv
<1> QED
    BY <1>1, <1>2 DEF download_simple_directory

LEMMA TablesStep ==
    ASSUME TypeInv, NEW b \in Backups, RunInv(b), SaveTables(b)
    PROVE  Keeps(b)
<1>1. CASE End(b, "idle") /\ UNCHANGED meta
    BY <1>1, FailStep DEF SaveTables, TypeInv
<1>2. CASE GoesTo(b, "write") /\ meta' = [meta EXCEPT ![b] = 0]
  <2>1. Turns(b, "write")
    BY <1>2, TurnsIt DEF Labels
  <2>2. (\A p \in Parts : op[b].task[p].pc \in {"none", "done"}) /\ Planned(b) /\ ~sealed[b]
    BY DEF SaveTables, RunInv, Planned
  <2>3. meta' \in [Backups -> Nat] /\ meta'[b] = 0 /\ \A c \in Backups : c # b => meta'[c] = meta[c]
    BY <1>2 DEF TypeInv
  <2>4. sealed' = sealed /\ sealed' \in [Backups -> BOOLEAN]
    BY DEF SaveTables, TypeInv
  <2> QED
    BY <2>1, <2>2, <2>3, <2>4, TurnKeeps DEF SaveTables
<1> QED
    BY <1>1, <1>2 DEF SaveTables

LEMMA PublishStep ==
    ASSUME TypeInv, NEW b \in Backups, RunInv(b), Publish(b)
    PROVE  Keeps(b)
<1>1. CASE End(b, "idle") /\ UNCHANGED <<meta, sealed>>
    BY <1>1, FailStep DEF Publish, TypeInv
<1>2. CASE /\ GoesTo(b, "forget") /\ meta' = [meta EXCEPT ![b] = op[b].ver]
           /\ sealed' = [sealed EXCEPT ![b] = TRUE]
  <2>1. Turns(b, "forget")
    BY <1>2, TurnsIt DEF Labels
  <2>2. (\A p \in Parts : op[b].task[p].pc \in {"none", "done"}) /\ Planned(b)
    BY DEF Publish, RunInv, Planned
  <2>3. meta' \in [Backups -> Nat] /\ meta'[b] = op[b].ver /\ \A c \in Backups : c # b => meta'[c] = meta[c]
    <3>1. op[b].ver \in Nat
      BY OpFields
    <3> QED
      BY <1>2, <3>1 DEF TypeInv
  <2>4. sealed' \in [Backups -> BOOLEAN] /\ \A c \in Backups : c # b => sealed'[c] = sealed[c]
    BY <1>2 DEF TypeInv
  <2> QED
    BY <2>1, <2>2, <2>3, <2>4, TurnKeeps DEF Publish
<1> QED
    BY <1>1, <1>2 DEF Publish

LEMMA CompletedKeys ==
    ASSUME TypeInv, NEW b \in Backups, NEW resume \in BOOLEAN
    PROVE  completed_keys(b, resume) \subseteq Keys(b)
BY DEF completed_keys, Keys

LEMMA WorkItemFacts ==
    ASSUME NEW b \in Backups, NEW done \in SUBSET Parts
    PROVE  /\ WorkItems(b, done) \in [Parts -> TaskRec]
           /\ \A p \in Parts : WorkItems(b, done)[p].pc = (IF p \in PartsOf[b] \ done THEN "wait" ELSE "none")
<1>1. /\ [NoTask EXCEPT !.pc = "wait"] \in TaskRec /\ [NoTask EXCEPT !.pc = "wait"].pc = "wait"
      /\ NoTask \in TaskRec /\ NoTask.pc = "none"
    BY NoTaskFacts DEF TaskLabels
<1> DEFINE w == [NoTask EXCEPT !.pc = "wait"]
<1>2. w \in TaskRec /\ w.pc = "wait"
    BY <1>1
<1>3. WorkItems(b, done) = [p \in Parts |-> IF p \in PartsOf[b] \ done THEN w ELSE NoTask]
    BY DEF WorkItems
<1> HIDE DEF w
<1> QED
    BY <1>1, <1>2, <1>3

(* The state file is replaced, and every part that is no key gets a task. *)
LEMMA PlanStep ==
    ASSUME TypeInv, NEW b \in Backups, RunInv(b), Plan(b)
    PROVE  Keeps(b)
<1> DEFINE done == completed_keys(b, op[b].resume)
           w == WorkItems(b, done)
           n == [op[b] EXCEPT !.pc = "parts", !.ver = remote[b], !.mem = done, !.task = w]
<1>1. op[b] \in OpRec /\ op[b].resume \in BOOLEAN /\ op[b].mem \subseteq Parts
    BY OpFields
<1>2. done \subseteq Keys(b) /\ done \subseteq Parts /\ done \subseteq PartsOf[b]
    BY <1>1, CompletedKeys, KeysType DEF RunInv
<1>3. w \in [Parts -> TaskRec]
      /\ \A p \in Parts : w[p].pc = (IF p \in PartsOf[b] \ done THEN "wait" ELSE "none")
    BY <1>2, WorkItemFacts
<1>4. op' = [op EXCEPT ![b] = n]
    BY DEF Plan
<1>5. remote[b] \in Nat /\ remote[b] # 0 /\ remote[b] \in 1..MaxVersion[b] /\ MaxVersion[b] \in Nat
  <2>1. remote[b] \in Nat /\ remote[b] # 0 /\ remote[b] <= MaxVersion[b]
    BY DEF TypeInv, Plan, RunInv
  <2>2. MaxVersion[b] \in Nat
    BY BoundsAssumption
  <2> QED
    BY <2>1, <2>2
<1> HIDE DEF done, w
<1>6. n \in OpRec /\ n.pc = "parts" /\ n.ver = remote[b] /\ n.mem = done /\ n.task = w
    BY <1>1, <1>2, <1>3, <1>5 DEF OpRec, Labels
<1> HIDE DEF n
<1>7. op' \in [Backups -> OpRec] /\ op'[b] = n /\ \A c \in Backups : c # b => op'[c] = op[c]
    BY <1>4, <1>6 DEF TypeInv
<1>8. PICK ok \in BOOLEAN : (Kept => ok) /\ state' = IF ok THEN [state EXCEPT ![b] = [done |-> {}]] ELSE state
  <2>1. PICK k \in Saved : state' = IF k /\ b \in Mapped THEN [state EXCEPT ![b] = [done |-> {}]] ELSE state
    BY DEF Plan
  <2>2. Kept => (k /\ b \in Mapped)
    BY DEF Saved, Kept
  <2>3. (k /\ b \in Mapped) \in BOOLEAN
    OBVIOUS
  <2> QED
    BY <2>1, <2>2, <2>3
<1>9. [done |-> {}] \in StateFiles /\ [done |-> {}] # NoFile /\ [done |-> {}].done = {}
    BY FileFacts
<1>10. /\ state' \in [Backups -> StateFiles] /\ \A c \in Backups : c # b => state'[c] = state[c]
       /\ ok => state'[b] = [done |-> {}]
       /\ ~ok => state'[b] = state[b]
  <2> DEFINE e == [done |-> {}]
  <2>1. e \in StateFiles
    BY <1>9
  <2>2. state' = IF ok THEN [state EXCEPT ![b] = e] ELSE state
    BY <1>8
  <2> HIDE DEF e
  <2>3. CASE ok
    BY <2>1, <2>2, <2>3 DEF TypeInv, e
  <2>4. CASE ~ok
    BY <2>2, <2>4 DEF TypeInv
  <2> QED
    BY <2>3, <2>4
<1>11. Kept => ok
    BY <1>8
<1>12. /\ dir' \in [Backups -> BOOLEAN] /\ dir'[b] /\ \A c \in Backups : c # b => dir'[c] = dir[c]
       /\ sealed' \in [Backups -> BOOLEAN] /\ ~sealed'[b] /\ \A c \in Backups : c # b => sealed'[c] = sealed[c]
       /\ UNCHANGED <<remote, disk, meta, orphan, loose, boot, runs>>
    BY DEF Plan, TypeInv
<1>13. TypeInv'
    BY <1>7, <1>10, <1>12 DEF TypeInv
<1>14. \A c \in Backups : c # b => SameAt(c)
    BY <1>7, <1>10, <1>12 DEF SameAt
<1>15. Planned(b)' /\ op'[b].pc = "parts" /\ op'[b].ver = remote[b] /\ op'[b].mem = done /\ op'[b].task = w
    BY <1>6, <1>7 DEF Planned
<1>16. /\ ok => Keys(b)' = {} /\ state'[b] # NoFile
       /\ Keys(b)' \subseteq PartsOf[b]
  <2>1. CASE ok
    BY <1>9, <1>10, <2>1 DEF Keys
  <2>2. CASE ~ok
    BY <1>10, <2>2 DEF Keys, RunInv
  <2> QED
    BY <2>1, <2>2
<1>17. Cardinality(Busy(b)') <= Conc
  <2>1. Busy(b)' = {}
    BY <1>3, <1>15 DEF Busy
  <2>2. Cardinality({}) = 0
    BY FS_EmptySet
  <2>3. Conc \in Nat
    BY BoundsAssumption
  <2> QED
    BY <2>1, <2>2, <2>3
<1>18. RunInv(b)'
    BY <1>2, <1>3, <1>5, <1>11, <1>12, <1>15, <1>16, <1>17 DEF RunInv
<1>19. ASSUME Kept PROVE ClearInv(b)'
    BY <1>11, <1>16, <1>19 DEF ClearInv
<1>20. ASSUME Kept, PartInv(b), NEW p \in Parts PROVE KeyInv(b, p)' /\ WholeInv(b, p)'
  <2>1. WholeInv(b, p)
    BY <1>20 DEF PartInv
  <2>2. Fit(b, p)' = Fit(b, p) /\ \A v : Intact(b, p, v)' = Intact(b, p, v)
    BY <1>12 DEF Fit, Intact
  <2>3. KeyInv(b, p)'
    BY <1>3, <1>11, <1>15, <1>16, <1>20 DEF KeyInv
  <2>4. op'[b].task[p].pc \in {"wait", "none"}
    BY <1>3, <1>15
  <2>5. WholeInv(b, p)'
    BY <1>2, <1>5, <1>11, <1>12, <1>15, <1>16, <1>20, <2>1, <2>2, <2>4 DEF WholeInv, Intact
  <2> QED
    BY <2>3, <2>5
<1> QED
    BY <1>12, <1>13, <1>14, <1>15, <1>18, <1>19, <1>20 DEF Keeps, PartInv

LEMMA ForgetStep ==
    ASSUME TypeInv, NEW b \in Backups, RunInv(b), DeleteState(b)
    PROVE  Keeps(b)
<1>1. Ends(b, "ok")
    BY EndsIt DEF Labels, DeleteState
<1>2. OverAt(b) /\ op'[b].pc = "ok"
    BY <1>1 DEF Ends, OverAt
<1>3. /\ state' \in [Backups -> StateFiles] /\ \A c \in Backups : c # b => state'[c] = state[c]
      /\ state'[b] \in {state[b], NoFile}
  <2>1. NoFile \in StateFiles
    BY DEF StateFiles
  <2>2. CASE op[b].resume
    BY <2>1, <2>2 DEF DeleteState, TypeInv
  <2>3. CASE ~op[b].resume
    BY <2>3 DEF DeleteState, TypeInv
  <2> QED
    BY <2>2, <2>3
<1>4. UNCHANGED <<remote, disk, dir, meta, sealed, orphan, loose, boot, runs>>
    BY DEF DeleteState
<1>5. TypeInv'
    BY <1>1, <1>3, <1>4 DEF TypeInv, Ends
<1>6. \A c \in Backups : c # b => SameAt(c)
    BY <1>1, <1>3, <1>4 DEF SameAt, Ends
<1>7. Keys(b)' \subseteq Keys(b) /\ ~Planned(b)'
    BY <1>2, <1>3 DEF Keys, Planned
<1>8. RunInv(b)'
  <2>1. sealed'[b] => meta'[b] # 0
    BY <1>4 DEF RunInv
  <2> QED
    BY <1>2, <1>4, <1>7, <2>1, OverRun DEF RunInv
<1>9. Planned(b) /\ meta[b] = op[b].ver /\ op[b].ver # 0 /\ \A p \in Parts : op[b].task[p].pc \in {"none", "done"}
  <2>1. op[b].pc = "forget"
    BY DEF DeleteState
  <2>2. Planned(b)
    BY <2>1 DEF Planned
  <2>3. /\ meta[b] = op[b].ver /\ op[b].ver \in 1..MaxVersion[b]
        /\ \A p \in Parts : op[b].task[p].pc \in {"none", "done"}
    BY <2>1, <2>2 DEF RunInv
  <2>4. MaxVersion[b] \in Nat
    BY BoundsAssumption
  <2> QED
    BY <2>2, <2>3, <2>4
<1>10. ClearInv(b)'
    BY <1>4, <1>9 DEF ClearInv
<1>11. ASSUME PartInv(b), NEW p \in Parts PROVE KeyInv(b, p)' /\ WholeInv(b, p)'
  <2>1. KeyInv(b, p) /\ WholeInv(b, p)
    BY <1>11 DEF PartInv
  <2>2. op'[b].task[p].pc = "none"
    BY <1>2, NoTaskFacts DEF OverAt
  <2>3. Fit(b, p)' = Fit(b, p) /\ \A v : Intact(b, p, v)' = Intact(b, p, v)
    BY <1>4 DEF Fit, Intact
  <2>4. p \notin loose[b] /\ ~StaleResume /\ p \in PartsOf[b] => Intact(b, p, meta[b])
    BY <1>9, <2>1 DEF KeyInv, WholeInv
  <2>5. KeyInv(b, p)'
    BY <1>7, <2>2 DEF KeyInv
  <2>6. WholeInv(b, p)'
    BY <1>4, <1>7, <2>1, <2>2, <2>3, <2>4 DEF WholeInv, Intact
  <2> QED
    BY <2>5, <2>6
<1> QED
    BY <1>4, <1>5, <1>6, <1>8, <1>10, <1>11 DEF Keeps, PartInv, DeleteState

-----------------------------------------------------------------------------
(* The steps of others *)

LEMMA DeleteLocalStep ==
    ASSUME TypeInv, NEW b \in Backups, RunInv(b), delete_local(b)
    PROVE  /\ Keeps(b)
           /\ ClearInv(b) => \A p \in Parts \ loose[b] : disk'[b][p] = Missing
<1> DEFINE found == IF meta[b] # 0 \/ state[b] # NoFile THEN Parts ELSE Parts \ Away(b)
           n == [p \in Parts |-> IF p \in found THEN Missing ELSE disk[b][p]]
<1>1. /\ disk' = [disk EXCEPT ![b] = n] /\ dir' = [dir EXCEPT ![b] = FALSE] /\ meta' = [meta EXCEPT ![b] = 0]
      /\ sealed' = [sealed EXCEPT ![b] = FALSE]
      /\ state' = [state EXCEPT ![b] = NoFile] /\ op' = [op EXCEPT ![b] = Idle]
      /\ loose' = [loose EXCEPT ![b] = loose[b] \ found] /\ UNCHANGED <<remote, orphan, boot, runs>>
    BY DEF delete_local
<1>2. n \in [Parts -> [Files -> Data]] /\ \A p \in Parts : n[p] = IF p \in found THEN Missing ELSE disk[b][p]
    BY DataFacts DEF TypeInv
<1>3. found \subseteq Parts /\ (found # Parts => Parts \ OtherDisk \subseteq found /\ meta[b] = 0 /\ state[b] = NoFile)
    BY DEF Away
<1> HIDE DEF found, n
<1>4. disk' \in [Backups -> [Parts -> [Files -> Data]]] /\ disk'[b] = n
      /\ \A c \in Backups : c # b => disk'[c] = disk[c]
    BY <1>1, <1>2 DEF TypeInv
<1>5. state' \in [Backups -> StateFiles] /\ state'[b] = NoFile
      /\ \A c \in Backups : c # b => state'[c] = state[c]
  <2>1. NoFile \in StateFiles
    BY DEF StateFiles
  <2> QED
    BY <1>1, <2>1 DEF TypeInv
<1>6. op' \in [Backups -> OpRec] /\ op'[b] = Idle /\ \A c \in Backups : c # b => op'[c] = op[c]
    BY <1>1, IdleFacts DEF TypeInv
<1>7. /\ dir' \in [Backups -> BOOLEAN] /\ meta' \in [Backups -> Nat] /\ loose' \in [Backups -> SUBSET Parts]
      /\ meta'[b] = 0 /\ loose'[b] = loose[b] \ found /\ sealed' \in [Backups -> BOOLEAN] /\ ~sealed'[b]
      /\ \A c \in Backups : c # b => sealed'[c] = sealed[c]
      /\ \A c \in Backups : c # b => meta'[c] = meta[c] /\ loose'[c] = loose[c] /\ dir'[c] = dir[c]
    BY <1>1 DEF TypeInv
<1>8. TypeInv'
    BY <1>1, <1>4, <1>5, <1>6, <1>7 DEF TypeInv
<1>9. \A c \in Backups : c # b => SameAt(c)
    BY <1>1, <1>4, <1>5, <1>6, <1>7 DEF SameAt
<1>10. OverAt(b) /\ ~Planned(b)' /\ Keys(b)' = {}
    BY <1>5, <1>6, IdleFacts DEF OverAt, Planned, Keys
<1>11. RunInv(b)'
  <2>0. MaxVersion[b] \in Nat
    BY BoundsAssumption
  <2>1. meta'[b] <= MaxVersion[b]
    BY <1>7, <2>0
  <2>2. remote'[b] = remote[b]
    BY <1>1
  <2> QED
    BY <1>7, <1>10, <2>1, <2>2, OverRun
<1>12. ASSUME ClearInv(b), NEW p \in Parts \ loose[b] PROVE disk'[b][p] = Missing
    BY <1>2, <1>3, <1>4, <1>12 DEF ClearInv
<1>13. ASSUME ClearInv(b) PROVE ClearInv(b)'
  <2>1. OtherDisk \subseteq Parts
    BY BoundsAssumption
  <2>2. ASSUME NEW p \in OtherDisk \ loose'[b] PROVE disk'[b][p] = Missing
    BY <1>2, <1>4, <1>7, <1>12, <1>13, <2>1, <2>2
  <2> QED
    BY <2>2 DEF ClearInv
<1>14. ASSUME NEW p \in Parts PROVE KeyInv(b, p)' /\ WholeInv(b, p)'
  <2>1. op'[b].task[p].pc = "none"
    BY <1>10, NoTaskFacts DEF OverAt
  <2> QED
    BY <1>7, <1>10, <2>1 DEF KeyInv, WholeInv
<1> QED
    BY <1>6, <1>8, <1>9, <1>11, <1>12, <1>13, <1>14, IdleFacts DEF Keeps, PartInv

LEMMA RemoteStep ==
    ASSUME TypeInv, NEW b \in Backups, RunInv(b), DeleteRemote(b) \/ PublishAgain(b)
    PROVE  Keeps(b)
<1>1. UNCHANGED <<disk, dir, meta, sealed, state, op, orphan, loose, boot, runs>>
    BY DEF DeleteRemote, PublishAgain
<1>2. MaxVersion[b] \in Nat
    BY BoundsAssumption
<1>3. /\ remote' \in [Backups -> Nat] /\ remote'[b] \in {0, MaxVersion[b]}
      /\ \A c \in Backups : c # b => remote'[c] = remote[c]
  <2>1. CASE DeleteRemote(b)
    BY <2>1 DEF DeleteRemote, TypeInv
  <2>2. CASE PublishAgain(b)
    BY <1>2, <2>2 DEF PublishAgain, TypeInv
  <2> QED
    BY <2>1, <2>2
<1>4. remote'[b] # 0 => ~Planned(b) /\ (StaleResume \/ Keys(b) = {})
  <2>1. CASE DeleteRemote(b)
    BY <2>1 DEF DeleteRemote, TypeInv
  <2>2. CASE PublishAgain(b)
    BY <2>2 DEF PublishAgain, Running, Planned, Keys
  <2> QED
    BY <2>1, <2>2
<1>5. TypeInv'
    BY <1>1, <1>3 DEF TypeInv
<1>6. \A c \in Backups : c # b => SameAt(c)
    BY <1>1, <1>3 DEF SameAt
<1>7. Planned(b)' = Planned(b) /\ Keys(b)' = Keys(b) /\ Busy(b)' = Busy(b)
    BY <1>1 DEF Planned, Keys, Busy
<1>8. remote'[b] <= MaxVersion[b]
    BY <1>2, <1>3
<1>9. RunInv(b)'
    BY <1>1, <1>4, <1>7, <1>8 DEF RunInv
<1>10. ClearInv(b) => ClearInv(b)'
    BY <1>1 DEF ClearInv
<1>11. ASSUME PartInv(b), NEW p \in Parts PROVE KeyInv(b, p)' /\ WholeInv(b, p)'
  <2>1. KeyInv(b, p) /\ WholeInv(b, p)
    BY <1>11 DEF PartInv
  <2>2. Fit(b, p)' = Fit(b, p) /\ \A v : Intact(b, p, v)' = Intact(b, p, v)
    BY <1>1 DEF Fit, Intact
  <2>3. KeyInv(b, p)'
    BY <1>1, <1>7, <2>1 DEF KeyInv
  <2>4. WholeInv(b, p)'
    BY <1>1, <1>4, <1>7, <2>1, <2>2 DEF WholeInv, Intact
  <2> QED
    BY <2>3, <2>4
<1> QED
    BY <1>1, <1>5, <1>6, <1>9, <1>10, <1>11 DEF Keeps, PartInv

LEMMA CrashStep ==
    ASSUME TypeInv, \A b \in Backups : RunInv(b), Crash
    PROVE  /\ TypeInv' /\ \A b \in Backups : RunInv(b)'
           /\ Kept => \A b \in Backups : ClearInv(b) => ClearInv(b)'
           /\ Kept => \A b \in Backups : PartInv(b) => PartInv(b)'
<1>1. /\ op' = [b \in Backups |-> Idle] /\ UNCHANGED <<remote, disk, dir, meta, sealed, state, loose, runs>>
      /\ boot' \subseteq Backups
    BY DEF Crash
<1>2. orphan' \in [Backups -> [Parts -> TaskRec]]
  <2>1. [p \in Parts |-> NoTask] \in [Parts -> TaskRec]
    BY NoTaskFacts
  <2> QED
    BY <2>1 DEF Crash
<1>3. op' \in [Backups -> OpRec] /\ \A b \in Backups : op'[b] = Idle
    BY <1>1, IdleFacts
<1>4. TypeInv'
    BY <1>1, <1>2, <1>3 DEF TypeInv
<1>5. \A b \in Backups : OverAt(b) /\ StillAt(b)
    BY <1>1, <1>3, IdleFacts DEF OverAt, StillAt
<1> QED
    BY <1>4, <1>5, OverKeeps

-----------------------------------------------------------------------------
(* The steps of a task *)

Over == {"none", "done"}
Quiet == {"none", "wait", "done", "failed"}

LEMMA TaskShape ==
    ASSUME TypeInv, NEW b \in Backups, RunInv(b), NEW p \in Parts, op[b].task[p].pc \notin Over
    PROVE  /\ op[b].pc = "parts" /\ Planned(b) /\ p \in PartsOf[b] /\ op[b].ver \in 1..MaxVersion[b]
           /\ remote[b] \in {0, op[b].ver} /\ (Kept => state[b] # NoFile)
           /\ op[b].task[p] \in TaskRec
<1>1. op[b].pc = "parts" /\ Planned(b) /\ p \in PartsOf[b]
    BY DEF RunInv, Over
<1>2. op[b].task[p] \in TaskRec
    BY OpFields
<1> QED
    BY <1>1, <1>2 DEF RunInv

(* What the task may hold of its part. *)
Holds(b, p, t) == p \notin loose[b] =>
    /\ t.pc \in {"save", "done"} => Intact(b, p, op[b].ver)
    /\ t.pc = "unpack" => /\ \A f \in Files : t.got[f] \in {Content(b, p, op[b].ver), Damaged}
                          /\ \A f \in Files \ t.left : disk[b][p][f] = t.got[f]

LEMMA BusyBound ==
    ASSUME TypeInv, NEW b \in Backups, RunInv(b), NEW p \in Parts, NEW t, NEW mem, Works(b, p, t, mem),
           t.pc \in Quiet \/ op[b].task[p].pc \notin Quiet \/ Cardinality(Busy(b)) < Conc
    PROVE  Cardinality(Busy(b)') <= Conc
<1>1. IsFiniteSet(Busy(b)) /\ Cardinality(Busy(b)) \in Nat /\ Conc \in Nat
  <2>1. IsFiniteSet(Busy(b))
    BY BoundsAssumption, FS_Subset DEF Busy
  <2> QED
    BY <2>1, FS_CardinalityType, BoundsAssumption
<1>2. Cardinality(Busy(b)) <= Conc
    BY DEF RunInv
<1>3. ASSUME t.pc \in Quiet \/ op[b].task[p].pc \notin Quiet PROVE Busy(b)' \subseteq Busy(b)
    BY <1>3 DEF Busy, Works, Quiet
<1>4. Busy(b)' \subseteq Busy(b) \cup {p}
    BY DEF Busy, Works
<1>5. CASE Busy(b)' \subseteq Busy(b)
  <2>1. Cardinality(Busy(b)') <= Cardinality(Busy(b)) /\ Cardinality(Busy(b)') \in Nat
    BY <1>1, <1>5, FS_Subset, FS_CardinalityType
  <2> QED
    BY <1>1, <1>2, <2>1
<1>6. CASE Cardinality(Busy(b)) < Conc /\ p \notin Busy(b)
  <2>1. IsFiniteSet(Busy(b) \cup {p}) /\ Cardinality(Busy(b) \cup {p}) = Cardinality(Busy(b)) + 1
    BY <1>1, <1>6, FS_AddElement
  <2>2. Cardinality(Busy(b)') <= Cardinality(Busy(b) \cup {p}) /\ Cardinality(Busy(b)') \in Nat
    BY <1>4, <2>1, FS_Subset, FS_CardinalityType
  <2> QED
    BY <1>1, <1>6, <2>1, <2>2
<1> QED
    BY <1>3, <1>4, <1>5, <1>6

LEMMA TaskKeeps ==
    ASSUME TypeInv, NEW b \in Backups, RunInv(b), NEW p \in Parts, op[b].task[p].pc \notin Over,
           NEW t, t.pc # "none", NEW mem, Works(b, p, t, mem),
           mem = op[b].mem \/ (mem = op[b].mem \cup {p} /\ t.pc = "done"),
           t.pc \in Quiet \/ op[b].task[p].pc \notin Quiet \/ Cardinality(Busy(b)) < Conc,
           t.pc = "link" => t.src \in {<<c>> : c \in Backups},
           UNCHANGED <<remote, dir, meta, sealed, orphan, boot, runs>>,
           disk' = disk \/ \E x : Stores(b, p, x),
           loose' \in [Backups -> SUBSET Parts], \A c \in Backups : c # b => loose'[c] = loose[c],
           \A q \in Parts : q # p => (q \in loose'[b] <=> q \in loose[b]),
           state' \in [Backups -> StateFiles], \A c \in Backups : c # b => state'[c] = state[c],
           state'[b] = state[b] \/ state'[b] = [done |-> mem],
           Kept /\ S3PartsStay /\ PartInv(b) => Holds(b, p, t)'
    PROVE  Keeps(b)
<1>1. op[b].pc = "parts" /\ Planned(b) /\ p \in PartsOf[b] /\ op[b].ver \in 1..MaxVersion[b]
      /\ remote[b] \in {0, op[b].ver} /\ (Kept => state[b] # NoFile)
    BY TaskShape
<1>2. disk' \in [Backups -> [Parts -> [Files -> Data]]] /\ (\A c \in Backups : c # b => disk'[c] = disk[c])
      /\ \A q \in Parts : q # p => disk'[b][q] = disk[b][q]
  <2>1. CASE disk' = disk
    BY <2>1 DEF TypeInv
  <2>2. CASE \E x : Stores(b, p, x)
    BY <2>2 DEF Stores
  <2> QED
    BY <2>1, <2>2
<1>3. TypeInv'
    BY <1>2 DEF TypeInv, Works
<1>4. \A c \in Backups : c # b => SameAt(c)
    BY <1>2 DEF SameAt, Works
<1>5. mem \subseteq PartsOf[b] /\ mem \subseteq Parts
    BY <1>1, OpFields DEF RunInv
<1>6. /\ Keys(b)' = Keys(b) \/ Keys(b)' = mem
      /\ state[b] # NoFile => state'[b] # NoFile
  <2>1. CASE state'[b] = state[b]
    BY <2>1 DEF Keys
  <2>2. CASE state'[b] = [done |-> mem]
    BY <1>5, <2>2, FileFacts DEF Keys
  <2> QED
    BY <2>1, <2>2
<1>7. Planned(b)' /\ op'[b].pc = "parts" /\ op'[b].ver = op[b].ver /\ op'[b].mem = mem /\ op'[b].task[p] = t
      /\ \A q \in Parts : q # p => op'[b].task[q] = op[b].task[q]
    BY <1>1 DEF Planned, Works
<1>8. Cardinality(Busy(b)') <= Conc
    BY BusyBound
<1>9. RunInv(b)' /\ ~sealed'[b]
  <2>1. ~sealed[b] /\ sealed'[b] = sealed[b]
    BY <1>1 DEF RunInv
  <2> QED
    BY <1>1, <1>5, <1>6, <1>7, <1>8, <2>1 DEF RunInv
<1>10. ASSUME Kept PROVE ClearInv(b)'
    BY <1>1, <1>6, <1>10 DEF ClearInv
<1>11. ASSUME Kept, S3PartsStay, PartInv(b), NEW q \in Parts, q # p
       PROVE  KeyInv(b, q)' /\ WholeInv(b, q)'
  <2>1. KeyInv(b, q) /\ WholeInv(b, q) /\ state'[b] # NoFile
    BY <1>1, <1>6, <1>11 DEF PartInv
  <2>2. Fit(b, q)' = Fit(b, q) /\ \A v : Intact(b, q, v)' = Intact(b, q, v)
    BY <1>2, <1>11 DEF Fit, Intact
  <2>3. op'[b].task[q] = op[b].task[q] /\ (q \in op'[b].mem <=> q \in op[b].mem)
        /\ (q \in Keys(b)' => q \in op[b].mem)
    BY <1>1, <1>6, <1>7, <1>11, <2>1 DEF KeyInv
  <2>4. KeyInv(b, q)'
    BY <1>1, <1>7, <2>1, <2>3 DEF KeyInv
  <2>5. WholeInv(b, q)'
    BY <1>1, <1>2, <1>7, <1>9, <1>11, <2>1, <2>2, <2>3 DEF WholeInv
  <2> QED
    BY <2>4, <2>5
<1>12. ASSUME Kept, S3PartsStay, PartInv(b) PROVE KeyInv(b, p)' /\ WholeInv(b, p)'
  <2>1. KeyInv(b, p) /\ Holds(b, p, t)' /\ state'[b] # NoFile
    BY <1>1, <1>6, <1>12 DEF PartInv
  <2>2. p \notin op[b].mem /\ p \notin Keys(b)
    BY <1>1, <2>1 DEF KeyInv, Over
  <2>3. KeyInv(b, p)'
    BY <1>6, <1>7, <2>2 DEF KeyInv
  <2>4. ASSUME p \notin loose'[b], p \in mem PROVE Fit(b, p)' /\ Intact(b, p, op[b].ver)'
    BY <1>1, <1>7, <2>1, <2>2, <2>4 DEF Holds, Fit, Intact
  <2>5. WholeInv(b, p)'
    BY <1>1, <1>6, <1>7, <1>9, <2>1, <2>2, <2>4 DEF WholeInv, Holds, Intact
  <2> QED
    BY <2>3, <2>5
<1> QED
    BY <1>3, <1>4, <1>7, <1>9, <1>10, <1>11, <1>12 DEF Keeps, PartInv

LEMMA SamePart ==
    ASSUME NEW b \in Backups, NEW p \in Parts, NEW t, WholeInv(b, p), NEW mem, Works(b, p, t, mem),
           UNCHANGED <<disk, loose>>, t.pc \in {"save", "done"} => op[b].task[p].pc \in {"save", "done"},
           t.pc # "unpack"
    PROVE  Holds(b, p, t)'
BY DEF WholeInv, Holds, Intact, Works

LEMMA StartTaskStep ==
    ASSUME TypeInv, NEW b \in Backups, RunInv(b), NEW p \in Parts, StartTask(b, p)
    PROVE  Keeps(b)
<1> DEFINE x == IF p \notin S3Parts /\ op[b].hard THEN "find" ELSE "fetch"
<1>1. op[b].task[p].pc = "wait" /\ x \in TaskLabels /\ x \in {"find", "fetch"}
    BY DEF StartTask, Task, TaskLabels
<1>2. Goes(b, p, x)
    BY DEF StartTask
<1> HIDE DEF x
<1>3. PICK t : Works(b, p, t, op[b].mem) /\ t.pc = x
    BY <1>1, <1>2, GoesPc
<1>4. Cardinality(Busy(b)) < Conc
  <2>1. Busy(b) = Parts \ Tasks(b, {"none", "wait", "done", "failed"})
    BY DEF Busy, Tasks
  <2> QED
    BY <2>1 DEF StartTask
<1>5. op[b].task[p].pc \notin Over
    BY <1>1 DEF Over
<1>6. UNCHANGED <<remote, dir, meta, sealed, orphan, boot, runs, disk, loose, state>>
    BY DEF StartTask, TaskOnly
<1>7. PartInv(b) => Holds(b, p, t)'
    BY <1>1, <1>3, <1>6, SamePart DEF PartInv
<1>8. t.pc # "none" /\ t.pc # "link"
    BY <1>1, <1>3
<1>9. loose' \in [Backups -> SUBSET Parts] /\ state' \in [Backups -> StateFiles]
    BY <1>6 DEF TypeInv
<1> QED
    BY <1>3, <1>4, <1>5, <1>6, <1>7, <1>8, <1>9, TaskKeeps

(* A task that moves on without touching the part. *)
LEMMA MoveStep ==
    ASSUME TypeInv, NEW b \in Backups, RunInv(b), NEW p \in Parts,
           NEW t, t.pc \in {"link", "fetch", "failed"},
           t.pc = "link" => t.src \in {<<c>> : c \in Backups}, Works(b, p, t, op[b].mem),
           op[b].task[p].pc \in {"find", "fetch", "unpack"},
           UNCHANGED <<remote, dir, meta, sealed, orphan, boot, runs, disk, loose, state>>
    PROVE  Keeps(b)
<1>1. op[b].task[p].pc \notin Over /\ op[b].task[p].pc \notin Quiet /\ t.pc # "none"
    BY DEF Over, Quiet
<1>2. PartInv(b) => Holds(b, p, t)'
    BY SamePart DEF PartInv
<1>3. loose' \in [Backups -> SUBSET Parts] /\ state' \in [Backups -> StateFiles]
    BY DEF TypeInv
<1> QED
    BY <1>1, <1>2, <1>3, TaskKeeps

LEMMA FindStep ==
    ASSUME TypeInv, NEW b \in Backups, RunInv(b), NEW p \in Parts, FindExisting(b, p)
    PROVE  Keeps(b)
<1>1. op[b].task[p].pc = "find"
    BY DEF FindExisting, Task
<1>2. UNCHANGED <<remote, dir, meta, sealed, orphan, boot, runs, disk, loose, state>>
    BY DEF FindExisting, TaskOnly
<1>3. CASE Goes(b, p, "fetch")
  <2>1. PICK t : Works(b, p, t, op[b].mem) /\ t.pc = "fetch"
    BY <1>3, GoesPc DEF TaskLabels
  <2> QED
    BY <1>1, <1>2, <2>1, MoveStep
<1>4. CASE \E c \in find_existing_part(b, p) :
              op' = [op EXCEPT ![b].task[p] = [@ EXCEPT !.pc = "link", !.src = <<c>>]]
  <2>1. PICK c \in find_existing_part(b, p) :
              op' = [op EXCEPT ![b].task[p] = [@ EXCEPT !.pc = "link", !.src = <<c>>]]
    BY <1>4
  <2>2. c \in Backups
    BY DEF find_existing_part
  <2> DEFINE s == <<c>>
             n == [op[b].task[p] EXCEPT !.pc = "link", !.src = s]
  <2>3. s \in {<<d>> : d \in Backups} /\ s \in {None} \cup {<<d>> : d \in Backups}
    BY <2>2
  <2>4. op' = [op EXCEPT ![b] = [op[b] EXCEPT !.task = [op[b].task EXCEPT ![p] = n]]]
    BY <2>1
  <2>5. op[b].task[p] \in TaskRec
    BY OpFields
  <2> HIDE DEF s
  <2>6. n \in TaskRec /\ n.pc = "link" /\ n.src = s
    BY <2>3, <2>5 DEF TaskRec, TaskLabels
  <2> HIDE DEF n
  <2>7. PICK t : Works(b, p, t, op[b].mem) /\ t.pc = "link" /\ t.src \in {<<d>> : d \in Backups}
    BY <2>3, <2>4, <2>6, GoesIt
  <2> QED
    BY <1>1, <1>2, <2>7, MoveStep
<1> QED
    BY <1>3, <1>4 DEF FindExisting

LEMMA FetchFailsStep ==
    ASSUME TypeInv, NEW b \in Backups, RunInv(b), NEW p \in Parts, FetchFails(b, p)
    PROVE  Keeps(b)
<1>1. op[b].task[p].pc = "fetch" /\ Goes(b, p, "failed")
      /\ UNCHANGED <<remote, dir, meta, sealed, orphan, boot, runs, disk, loose, state>>
    BY DEF FetchFails, Task, TaskOnly
<1>2. PICK t : Works(b, p, t, op[b].mem) /\ t.pc = "failed"
    BY <1>1, GoesPc DEF TaskLabels
<1> QED
    BY <1>1, <1>2, MoveStep

LEMMA LooseMore ==
    ASSUME TypeInv, NEW b \in Backups, NEW p \in Parts, loose' = [loose EXCEPT ![b] = loose[b] \cup {p}]
    PROVE  /\ loose' \in [Backups -> SUBSET Parts] /\ \A c \in Backups : c # b => loose'[c] = loose[c]
           /\ p \in loose'[b] /\ \A q \in Parts : q # p => (q \in loose'[b] <=> q \in loose[b])
BY DEF TypeInv

LEMMA NoneFails ==
    ASSUME NEW b \in Backups, NEW p \in Parts, NEW v, NEW f \in Files
    PROVE  None \notin Passes(b, p, v, f)
<1>1. None # Damaged /\ None # Content(b, p, v)
    BY DEF None, Damaged, Content
<1> QED
    BY <1>1 DEF Passes

LEMMA LinkStep ==
    ASSUME TypeInv, NEW b \in Backups, RunInv(b), NEW p \in Parts, hardlink_existing_part(b, p)
    PROVE  Keeps(b)
<1>1. op[b].task[p].pc = "link" /\ UNCHANGED <<remote, dir, meta, sealed, orphan, boot, runs, state>>
    BY DEF hardlink_existing_part, Task, TaskOnly
<1>2. PICK c \in Backups : op[b].task[p].src = <<c>>
    BY <1>1 DEF RunInv
<1>3. op[b].task[p].src[1] = c
    BY <1>2
<1> DEFINE from == {f \in Files : disk[c][p][f] # None}
           clash == \E f \in from : disk[b][p][f] # None
           whole == \A f \in Files : disk[c][p][f] \in Passes(b, p, op[b].ver, f)
           x == [f \in Files |->
                    IF f \in from /\ disk[b][p][f] = None THEN disk[c][p][f] ELSE disk[b][p][f]]
<1>4. disk' = [disk EXCEPT ![b] = [disk[b] EXCEPT ![p] = x]]
    BY <1>3 DEF hardlink_existing_part, Task
<1>5. x \in [Files -> Data]
  <2>1. disk[b][p] \in [Files -> Data] /\ disk[c][p] \in [Files -> Data]
    BY DEF TypeInv
  <2> QED
    BY <2>1
<1>12. whole /\ ~clash => \A f \in Files : x[f] \in Passes(b, p, op[b].ver, f)
  <2>1. \A g \in Files : None \notin Passes(b, p, op[b].ver, g)
    BY NoneFails
  <2>2. ASSUME whole, ~clash, NEW f \in Files PROVE x[f] = disk[c][p][f]
    <3>1. f \in from
      BY <2>1, <2>2
    <3>2. disk[b][p][f] = None
      BY <2>2, <3>1
    <3> QED
      BY <3>1, <3>2
  <2> QED
    BY <2>2
<1>13. loose' = [loose EXCEPT ![b] =
                    IF whole /\ ~clash /\ orphan[b][p] = NoTask THEN loose[b] \ {p} ELSE loose[b] \cup {p}]
    BY <1>3 DEF hardlink_existing_part, Task
<1> HIDE DEF x, whole, clash
<1>6. Stores(b, p, x)
    BY <1>4, <1>5, StoresIt
<1>7. PICK t : Works(b, p, t, op[b].mem) /\ t.pc \in {"fetch", "save"}
  <2>1. Goes(b, p, "fetch") \/ Goes(b, p, "save")
    BY DEF hardlink_existing_part, Goes
  <2> QED
    BY <2>1, GoesPc DEF TaskLabels
<1>8. /\ loose' \in [Backups -> SUBSET Parts] /\ \A d \in Backups : d # b => loose'[d] = loose[d]
      /\ p \in loose'[b] \/ (whole /\ ~clash)
      /\ \A q \in Parts : q # p => (q \in loose'[b] <=> q \in loose[b])
  <2>1. CASE whole /\ ~clash /\ orphan[b][p] = NoTask
    BY <1>13, <2>1 DEF TypeInv
  <2>2. CASE ~(whole /\ ~clash /\ orphan[b][p] = NoTask)
    BY <1>13, <2>2 DEF TypeInv
  <2> QED
    BY <2>1, <2>2
<1>9. Holds(b, p, t)'
  <2>1. disk'[b][p] = x /\ op'[b].ver = op[b].ver
    BY <1>6, <1>7 DEF Stores, Works
  <2>2. ASSUME p \notin loose'[b] PROVE \A f \in Files : disk'[b][p][f] \in Passes(b, p, op'[b].ver, f)
    BY <1>8, <1>12, <2>1, <2>2
  <2> QED
    BY <1>7, <2>2 DEF Holds, Intact
<1>10. op[b].task[p].pc \notin Over /\ op[b].task[p].pc \notin Quiet /\ t.pc # "none" /\ t.pc # "link"
    BY <1>1, <1>7 DEF Over, Quiet
<1>14. \E y : Stores(b, p, y)
    BY <1>6
<1>11. state' \in [Backups -> StateFiles]
    BY <1>1 DEF TypeInv
<1> QED
    BY <1>1, <1>7, <1>8, <1>9, <1>10, <1>11, <1>14, TaskKeeps

LEMMA FetchedStep ==
    ASSUME TypeInv, NEW b \in Backups, RunInv(b), NEW p \in Parts, op[b].task[p].pc = "fetch",
           NEW left \in SUBSET Files, NEW got \in [Files -> Data], Fetched(b, p, left, got),
           Kept /\ S3PartsStay =>
               left = Files /\ \A f \in Files : got[f] \in {Content(b, p, op[b].ver), Damaged}
    PROVE  Keeps(b)
<1>1. UNCHANGED <<remote, dir, meta, sealed, orphan, boot, runs, disk, state>>
    BY DEF Fetched, TaskOnly
<1>2. op[b].task[p] \in TaskRec
    BY OpFields
<1> DEFINE n == [op[b].task[p] EXCEPT !.pc = "unpack", !.left = left, !.got = got]
<1>3. n \in TaskRec /\ n.pc = "unpack" /\ n.left = left /\ n.got = got
    BY <1>2 DEF TaskRec, TaskLabels
<1>4. op' = [op EXCEPT ![b] = [op[b] EXCEPT !.task = [op[b].task EXCEPT ![p] = n]]]
    BY DEF Fetched
<1> HIDE DEF n
<1>5. PICK t : Works(b, p, t, op[b].mem) /\ t.pc = "unpack" /\ t.left = left /\ t.got = got
    BY <1>3, <1>4, GoesIt
<1>6. /\ loose' \in [Backups -> SUBSET Parts] /\ \A d \in Backups : d # b => loose'[d] = loose[d]
      /\ \A q \in Parts : q # p => (q \in loose'[b] <=> q \in loose[b])
  <2>1. CASE orphan[b][p] = NoTask
    BY <2>1 DEF Fetched, TypeInv
  <2>2. CASE orphan[b][p] # NoTask
    BY <2>2 DEF Fetched, TypeInv
  <2> QED
    BY <2>1, <2>2
<1>7. Kept /\ S3PartsStay => Holds(b, p, t)'
  <2>1. op'[b].ver = op[b].ver
    BY <1>5 DEF Works
  <2> QED
    BY <1>5, <2>1 DEF Holds
<1>8. op[b].task[p].pc \notin Over /\ op[b].task[p].pc \notin Quiet /\ t.pc # "none" /\ t.pc # "link"
    BY <1>5 DEF Over, Quiet
<1>9. state' \in [Backups -> StateFiles]
    BY <1>1 DEF TypeInv
<1> QED
    BY <1>1, <1>5, <1>6, <1>7, <1>8, <1>9, TaskKeeps

LEMMA FetchStep ==
    ASSUME TypeInv, NEW b \in Backups, RunInv(b), NEW p \in Parts, Fetch(b, p) \/ FetchS3(b, p)
    PROVE  Keeps(b)
<1>1. op[b].task[p].pc = "fetch" /\ remote[b] \in Nat
    BY DEF Fetch, FetchS3, Task, TypeInv
<1>2. Content(b, p, remote[b]) \in Data /\ Damaged \in Data
    BY <1>1, DataFacts
<1>3. op[b].task[p].pc \notin Over
    BY <1>1 DEF Over
<1>4. remote[b] \in {0, op[b].ver}
    BY <1>3, TaskShape
<1>5. ASSUME NEW left \in SUBSET Files, Arrives(b, p, left)
      PROVE  \E got \in [Files -> Data] :
                 Fetched(b, p, left, got) /\ \A f \in Files : got[f] \in {Content(b, p, remote[b]), Damaged}
  <2>1. CASE Fetched(b, p, left, WholeOf(b, p, remote[b]))
    <3>1. /\ WholeOf(b, p, remote[b]) \in [Files -> Data]
          /\ \A f \in Files : WholeOf(b, p, remote[b])[f] \in {Content(b, p, remote[b]), Damaged}
      BY <1>2 DEF WholeOf
    <3> QED
      BY <2>1, <3>1
  <2>2. CASE \E bad \in SUBSET Files \ {{}} :
          Fetched(b, p, left, [f \in Files |-> IF f \in bad THEN Damaged ELSE Content(b, p, remote[b])])
    <3>1. PICK bad \in SUBSET Files \ {{}} :
          Fetched(b, p, left, [f \in Files |-> IF f \in bad THEN Damaged ELSE Content(b, p, remote[b])])
      BY <2>2
    <3> DEFINE g == [f \in Files |-> IF f \in bad THEN Damaged ELSE Content(b, p, remote[b])]
    <3>2. g \in [Files -> Data] /\ \A f \in Files : g[f] \in {Content(b, p, remote[b]), Damaged}
      BY <1>2
    <3>3. Fetched(b, p, left, g)
      BY <3>1
    <3> HIDE DEF g
    <3> QED
      BY <3>2, <3>3
  <2> QED
    BY <1>5, <2>1, <2>2 DEF Arrives
<1>6. CASE Fetch(b, p)
  <2>1. Arrives(b, p, Files) /\ remote[b] = op[b].ver
    BY <1>4, <1>6 DEF Fetch
  <2>2. PICK got \in [Files -> Data] :
            Fetched(b, p, Files, got) /\ \A f \in Files : got[f] \in {Content(b, p, remote[b]), Damaged}
    BY <1>5, <2>1
  <2> QED
    BY <1>1, <2>1, <2>2, FetchedStep
<1>7. CASE FetchS3(b, p)
  <2> DEFINE left == IF remote[b] = 0 THEN {} ELSE Files
  <2>1. p \in S3Parts /\ Arrives(b, p, left) /\ left \in SUBSET Files /\ (remote[b] # 0 => left = Files)
    BY <1>7 DEF FetchS3
  <2> HIDE DEF left
  <2>2. PICK got \in [Files -> Data] :
            Fetched(b, p, left, got) /\ \A f \in Files : got[f] \in {Content(b, p, remote[b]), Damaged}
    BY <1>5, <2>1
  <2>3. S3PartsStay => remote[b] # 0
    BY <1>1, <2>1 DEF S3PartsStay
  <2> QED
    BY <1>1, <1>4, <2>1, <2>2, <2>3, FetchedStep
<1> QED
    BY <1>6, <1>7

(* A file is written only as long as it is left to be written. *)
LEMMA UnpackStep ==
    ASSUME TypeInv, NEW b \in Backups, RunInv(b), NEW p \in Parts, unpack_archive(b, p)
    PROVE  Keeps(b)
<1>1. op[b].task[p].pc = "unpack" /\ UNCHANGED <<remote, dir, meta, sealed, orphan, boot, runs, state, loose>>
    BY DEF unpack_archive, Task, TaskOnly
<1>2. PICK f \in Files : /\ Write(b, p, f, op[b].task[p])
                         /\ op' = [op EXCEPT ![b].task[p].left = Left(b, p, f, op[b].task[p])]
    BY DEF unpack_archive, Task
<1>3. op[b].task[p] \in TaskRec /\ op[b].task[p].left \subseteq Files
    BY OpFields, TaskFields
<1> DEFINE w == Left(b, p, f, op[b].task[p])
           n == [op[b].task[p] EXCEPT !.left = w]
<1>4. w = (IF disk[b][p][f] = Torn THEN op[b].task[p].left \ {f} ELSE op[b].task[p].left)
    BY DEF Left
<1>5. op' = [op EXCEPT ![b] = [op[b] EXCEPT !.task = [op[b].task EXCEPT ![p] = n]]]
    BY <1>2
<1> HIDE DEF w
<1>6. n \in TaskRec /\ n.pc = "unpack" /\ n.left = w /\ n.got = op[b].task[p].got
    BY <1>1, <1>3, <1>4 DEF TaskRec
<1> HIDE DEF n
<1>7. PICK t : Works(b, p, t, op[b].mem) /\ t.pc = "unpack" /\ t.left = w /\ t.got = op[b].task[p].got
    BY <1>5, <1>6, GoesIt
<1>8. /\ disk'[b][p][f] = (IF disk[b][p][f] = Torn THEN op[b].task[p].got[f] ELSE Torn)
      /\ \A g \in Files : g # f => disk'[b][p][g] = disk[b][p][g]
      /\ \E y : Stores(b, p, y)
    BY <1>2, <1>3, WriteIt
<1>9. f \in op[b].task[p].left
    BY <1>2 DEF Write
<1>10. ASSUME PartInv(b) PROVE Holds(b, p, t)'
  <2>1. WholeInv(b, p) /\ op'[b].ver = op[b].ver
    BY <1>7, <1>10 DEF PartInv, Works
  <2>2. p \notin loose[b] => /\ \A g \in Files : op[b].task[p].got[g] \in {Content(b, p, op[b].ver), Damaged}
                             /\ \A g \in Files \ op[b].task[p].left : disk[b][p][g] = op[b].task[p].got[g]
    BY <1>1, <2>1 DEF WholeInv
  <2>3. ASSUME p \notin loose[b], NEW g \in Files \ w PROVE disk'[b][p][g] = op[b].task[p].got[g]
    BY <1>4, <1>8, <1>9, <2>2, <2>3
  <2> QED
    BY <1>1, <1>7, <2>1, <2>2, <2>3 DEF Holds
<1>11. op[b].task[p].pc \notin Over /\ op[b].task[p].pc \notin Quiet /\ t.pc # "none" /\ t.pc # "link"
    BY <1>1, <1>7 DEF Over, Quiet
<1>12. loose' \in [Backups -> SUBSET Parts] /\ state' \in [Backups -> StateFiles]
    BY <1>1 DEF TypeInv
<1> QED
    BY <1>1, <1>7, <1>8, <1>10, <1>11, <1>12, TaskKeeps

LEMMA UnpackFailsStep ==
    ASSUME TypeInv, NEW b \in Backups, RunInv(b), NEW p \in Parts, UnpackFails(b, p)
    PROVE  Keeps(b)
<1>1. op[b].task[p].pc = "unpack" /\ Goes(b, p, "failed")
      /\ UNCHANGED <<remote, dir, meta, sealed, orphan, boot, runs, disk, loose, state>>
    BY DEF UnpackFails, Task, TaskOnly
<1>2. PICK t : Works(b, p, t, op[b].mem) /\ t.pc = "failed"
    BY <1>1, GoesPc DEF TaskLabels
<1> QED
    BY <1>1, <1>2, MoveStep

LEMMA VerifyStep ==
    ASSUME TypeInv, NEW b \in Backups, RunInv(b), NEW p \in Parts, Verify(b, p)
    PROVE  Keeps(b)
<1> DEFINE u == op[b].task[p]
           good == p \in S3Parts \/ <<b, p>> \in NoCrc \/ disk[b][p]["sums"] = Content(b, p, op[b].ver)
           again == [NoTask EXCEPT !.pc = "fetch", !.tries = u.tries + 1]
           n == IF good THEN [u EXCEPT !.pc = "save"]
                ELSE IF u.tries < Retries THEN again ELSE [NoTask EXCEPT !.pc = "failed"]
<1>1. u.pc = "unpack" /\ u.left = {} /\ UNCHANGED <<remote, dir, meta, sealed, orphan, boot, runs, state, loose>>
    BY DEF Verify, Task, TaskOnly
<1>2. disk' = IF good THEN disk ELSE [disk EXCEPT ![b] = [disk[b] EXCEPT ![p] = Missing]]
    BY DEF Verify
<1>3. op' = [op EXCEPT ![b] = [op[b] EXCEPT !.task = [op[b].task EXCEPT ![p] = n]]]
    BY DEF Verify, Task
<1>4. u \in TaskRec /\ u.tries \in Nat
    BY OpFields, TaskFields
<1>5. u.pc = "unpack" /\ u.left = {} /\ (~good => p \notin S3Parts)
    BY <1>1
<1> HIDE DEF u
<1>6. [u EXCEPT !.pc = "save"] \in TaskRec /\ [u EXCEPT !.pc = "save"].pc = "save"
    BY <1>4 DEF TaskRec, TaskLabels
<1>7. again \in TaskRec /\ again.pc = "fetch"
  <2> DEFINE k == u.tries + 1
  <2>1. k \in Nat /\ NoTask \in TaskRec
    BY <1>4, NoTaskFacts
  <2> HIDE DEF k
  <2>2. [NoTask EXCEPT !.pc = "fetch", !.tries = k] \in TaskRec
        /\ [NoTask EXCEPT !.pc = "fetch", !.tries = k].pc = "fetch"
    BY <2>1 DEF TaskRec, TaskLabels
  <2> QED
    BY <2>2 DEF k
<1>8. [NoTask EXCEPT !.pc = "failed"] \in TaskRec /\ [NoTask EXCEPT !.pc = "failed"].pc = "failed"
    BY NoTaskFacts DEF TaskLabels
<1>9. n \in TaskRec /\ (good => n.pc = "save") /\ (~good => n.pc \in {"fetch", "failed"})
  <2>1. CASE good
    BY <1>6, <2>1
  <2>2. CASE ~good /\ u.tries < Retries
    BY <1>7, <2>2
  <2>3. CASE ~good /\ ~(u.tries < Retries)
    BY <1>8, <2>3
  <2> QED
    BY <2>1, <2>2, <2>3
<1> HIDE DEF n
<1>10. PICK t : Works(b, p, t, op[b].mem) /\ (good => t.pc = "save") /\ (~good => t.pc \in {"fetch", "failed"})
    BY <1>3, <1>9, GoesIt
<1>11. disk' = disk \/ \E y : Stores(b, p, y)
    BY <1>2, DataFacts, StoresIt
<1>12. ASSUME PartInv(b) PROVE Holds(b, p, t)'
  <2>1. CASE ~good
    BY <1>10, <2>1 DEF Holds
  <2>2. CASE good /\ p \notin loose[b]
    <3>1. \A f \in Files : disk[b][p][f] = u.got[f] /\ u.got[f] \in {Content(b, p, op[b].ver), Damaged}
      BY <1>5, <1>12, <2>2 DEF PartInv, WholeInv, u
    <3>2. ASSUME NEW f \in Files PROVE disk[b][p][f] \in Passes(b, p, op[b].ver, f)
      BY <2>2, <3>1 DEF Passes, Files
    <3>4. Intact(b, p, op[b].ver)
      BY <3>2 DEF Intact
    <3>5. disk' = disk /\ op'[b].ver = op[b].ver /\ t.pc = "save"
      BY <1>2, <1>10, <2>2 DEF Works
    <3> QED
      BY <3>4, <3>5 DEF Holds, Intact
  <2>3. CASE p \in loose[b]
    BY <1>1, <2>3 DEF Holds
  <2> QED
    BY <2>1, <2>2, <2>3
<1>13. op[b].task[p].pc \notin Over /\ op[b].task[p].pc \notin Quiet /\ t.pc # "none" /\ t.pc # "link"
    BY <1>5, <1>10 DEF Over, Quiet, u
<1>14. loose' \in [Backups -> SUBSET Parts] /\ state' \in [Backups -> StateFiles]
    BY <1>1 DEF TypeInv
<1> QED
    BY <1>1, <1>10, <1>11, <1>12, <1>13, <1>14, TaskKeeps

LEMMA SaveDoneStep ==
    ASSUME TypeInv, NEW b \in Backups, RunInv(b), NEW p \in Parts, SaveDone(b, p)
    PROVE  Keeps(b)
<1> DEFINE all == op[b].mem \cup {p}
           m == IF op[b].resume THEN all ELSE op[b].mem
           n == [NoTask EXCEPT !.pc = "done"]
<1>1. op[b].task[p].pc = "save" /\ UNCHANGED <<remote, dir, meta, sealed, orphan, boot, runs, disk, loose>>
    BY DEF SaveDone, Task, TaskOnly
<1>2. op' = [op EXCEPT ![b] = [op[b] EXCEPT !.task = [op[b].task EXCEPT ![p] = n], !.mem = m]]
    BY DEF SaveDone
<1>3. all \in SUBSET Parts /\ m \in SUBSET Parts /\ (m = op[b].mem \/ m = all)
    BY OpFields
<1>4. n \in TaskRec /\ n.pc = "done"
    BY NoTaskFacts DEF TaskLabels
<1>5. state' = state \/ (m = all /\ state' = [state EXCEPT ![b] = [done |-> all]])
    BY DEF SaveDone
<1> HIDE DEF n, m
<1>6. PICK t, mem : Works(b, p, t, mem) /\ t.pc = "done" /\ mem = m
    BY <1>2, <1>3, <1>4, WorksIt
<1>7. mem = op[b].mem \/ mem = op[b].mem \cup {p}
    BY <1>3, <1>6
<1>8. /\ state' \in [Backups -> StateFiles] /\ \A c \in Backups : c # b => state'[c] = state[c]
      /\ state'[b] = state[b] \/ state'[b] = [done |-> mem]
  <2>1. CASE state' = state
    BY <2>1 DEF TypeInv
  <2>2. CASE m = all /\ state' = [state EXCEPT ![b] = [done |-> all]]
    <3> DEFINE e == [done |-> all]
    <3>1. e \in StateFiles /\ state' = [state EXCEPT ![b] = e] /\ e = [done |-> mem]
      BY <1>3, <1>6, <2>2, FileFacts
    <3> HIDE DEF e
    <3> QED
      BY <3>1 DEF TypeInv
  <2> QED
    BY <1>5, <2>1, <2>2
<1>9. op[b].task[p].pc \notin Over /\ t.pc \in Quiet /\ t.pc # "none" /\ t.pc # "link"
    BY <1>1, <1>6 DEF Over, Quiet
<1>10. PartInv(b) => Holds(b, p, t)'
    BY <1>1, <1>6, SamePart DEF PartInv
<1>11. loose' \in [Backups -> SUBSET Parts]
    BY <1>1 DEF TypeInv
<1> QED
    BY <1>1, <1>6, <1>7, <1>8, <1>9, <1>10, <1>11, TaskKeeps

(* What a killed run still unpacks is loose. *)
LEMMA OrphanStep ==
    ASSUME TypeInv, NEW b \in Backups, RunInv(b), NEW p \in Parts, OrphanUnpack(b, p)
    PROVE  Keeps(b)
<1>1. UNCHANGED <<remote, meta, sealed, state, op, boot, runs>>
    BY DEF OrphanUnpack
<1>2. orphan[b][p] \in TaskRec
    BY DEF TypeInv
<1>3. PICK f \in Files :
         /\ Write(b, p, f, orphan[b][p])
         /\ orphan' = [orphan EXCEPT ![b][p] =
                          IF Left(b, p, f, orphan[b][p]) = {} THEN NoTask
                          ELSE [@ EXCEPT !.left = Left(b, p, f, orphan[b][p])]]
    BY DEF OrphanUnpack
<1>4. PICK y : Stores(b, p, y)
    BY <1>2, <1>3, WriteIt
<1>5. orphan' \in [Backups -> [Parts -> TaskRec]]
  <2> DEFINE w == Left(b, p, f, orphan[b][p])
             u == [orphan[b][p] EXCEPT !.left = w]
             n == IF w = {} THEN NoTask ELSE u
             row == [orphan[b] EXCEPT ![p] = n]
  <2>1. w \subseteq Files
    BY <1>2, TaskFields DEF Left
  <2>2. orphan' = [orphan EXCEPT ![b] = row]
    BY <1>3
  <2> HIDE DEF w
  <2>3. u \in TaskRec
    BY <1>2, <2>1 DEF TaskRec
  <2> HIDE DEF u
  <2>4. n \in TaskRec
    BY <2>3, NoTaskFacts
  <2> HIDE DEF n
  <2>5. row \in [Parts -> TaskRec]
    BY <2>4 DEF TypeInv
  <2> HIDE DEF row
  <2> QED
    BY <2>2, <2>5 DEF TypeInv
<1>6. /\ loose' \in [Backups -> SUBSET Parts] /\ \A d \in Backups : d # b => loose'[d] = loose[d]
      /\ p \in loose'[b] /\ \A q \in Parts : q # p => (q \in loose'[b] <=> q \in loose[b])
    BY LooseMore DEF OrphanUnpack
<1>7. dir' \in [Backups -> BOOLEAN] /\ (dir[b] => dir'[b]) /\ \A c \in Backups : c # b => dir'[c] = dir[c]
    BY DEF OrphanUnpack, TypeInv
<1>8. TypeInv'
    BY <1>1, <1>4, <1>5, <1>6, <1>7 DEF TypeInv, Stores
<1>9. \A c \in Backups : c # b => SameAt(c)
    BY <1>1, <1>4, <1>6, <1>7 DEF SameAt, Stores
<1>10. Planned(b)' = Planned(b) /\ Keys(b)' = Keys(b) /\ Busy(b)' = Busy(b)
    BY <1>1 DEF Planned, Keys, Busy
<1>11. RunInv(b)'
    BY <1>1, <1>10 DEF RunInv
<1>12. OtherDisk \subseteq Parts
    BY BoundsAssumption
<1>13. ClearInv(b) => ClearInv(b)'
    BY <1>1, <1>4, <1>6, <1>12 DEF ClearInv, Stores
<1>14. ASSUME PartInv(b), NEW q \in Parts PROVE KeyInv(b, q)' /\ WholeInv(b, q)'
  <2>1. KeyInv(b, q) /\ WholeInv(b, q)
    BY <1>14 DEF PartInv
  <2>2. KeyInv(b, q)'
    BY <1>1, <1>10, <2>1 DEF KeyInv
  <2>3. CASE q = p
    BY <1>6, <2>2, <2>3 DEF WholeInv
  <2>4. CASE q # p
    <3>1. Fit(b, q)' = Fit(b, q) /\ disk'[b][q] = disk[b][q]
      BY <1>4, <2>4 DEF Fit, Intact, Stores
    <3>2. WholeInv(b, q)'
      BY <1>1, <1>6, <1>10, <2>1, <2>4, <3>1 DEF WholeInv, Intact
    <3> QED
      BY <2>2, <3>2
  <2> QED
    BY <2>3, <2>4
<1> QED
    BY <1>1, <1>7, <1>8, <1>9, <1>11, <1>13, <1>14 DEF Keeps, PartInv

-----------------------------------------------------------------------------
(* The invariants *)

DownloadInv == TypeInv /\ \A b \in Backups : RunInv(b)
ClearAll == Kept => \A b \in Backups : ClearInv(b)
WholeAll == Kept => \A b \in Backups : PartInv(b)

LEMMA StepsKeep ==
    ASSUME TypeInv, \A b \in Backups : RunInv(b), Next
    PROVE  (\E b \in Backups : Keeps(b)) \/ Crash
<1>1. CASE \E b \in Backups : Start(b) \/ auto_resume(b) \/ RunStep(b) \/ Kill(b) \/ delete_local(b)
                               \/ DeleteRemote(b) \/ PublishAgain(b)
  <2>1. PICK b \in Backups : Start(b) \/ auto_resume(b) \/ RunStep(b) \/ Kill(b) \/ delete_local(b)
                               \/ DeleteRemote(b) \/ PublishAgain(b)
    BY <1>1
  <2>2. RunInv(b)
    OBVIOUS
  <2>3. CASE Start(b) \/ auto_resume(b)
    BY <2>2, <2>3, BeginStep
  <2>4. CASE RunStep(b)
    <3>1. CASE ManifestFails(b)
      BY <2>2, <3>1, FailStep DEF ManifestFails, TypeInv
    <3>2. CASE check_disk_space(b)
      BY <2>2, <3>2, FailStep DEF check_disk_space, TypeInv
    <3>3. CASE Plan(b)
      BY <2>2, <3>3, PlanStep
    <3>4. CASE JoinParts(b)
      BY <2>2, <3>4, JoinStep
    <3>5. CASE download_simple_directory(b)
      BY <2>2, <3>5, ExtrasStep
    <3>6. CASE Publish(b)
      BY <2>2, <3>6, PublishStep
    <3>7. CASE DeleteState(b)
      BY <2>2, <3>7, ForgetStep
    <3>8. CASE SaveTables(b)
      BY <2>2, <3>8, TablesStep
    <3> QED
      BY <2>4, <3>1, <3>2, <3>3, <3>4, <3>5, <3>6, <3>7, <3>8 DEF RunStep
  <2>5. CASE Kill(b)
    BY <2>2, <2>5, KillStep
  <2>6. CASE delete_local(b)
    BY <2>2, <2>6, DeleteLocalStep
  <2>7. CASE DeleteRemote(b) \/ PublishAgain(b)
    BY <2>2, <2>7, RemoteStep
  <2> QED
    BY <2>1, <2>3, <2>4, <2>5, <2>6, <2>7
<1>2. CASE \E b \in Backups, p \in Parts : TaskStep(b, p) \/ OrphanUnpack(b, p)
  <2>1. PICK b \in Backups, p \in Parts : TaskStep(b, p) \/ OrphanUnpack(b, p)
    BY <1>2
  <2>2. RunInv(b)
    OBVIOUS
  <2>3. CASE OrphanUnpack(b, p)
    BY <2>2, <2>3, OrphanStep
  <2>4. CASE TaskStep(b, p)
    <3>1. CASE StartTask(b, p)
      BY <2>2, <3>1, StartTaskStep
    <3>2. CASE FindExisting(b, p)
      BY <2>2, <3>2, FindStep
    <3>3. CASE hardlink_existing_part(b, p)
      BY <2>2, <3>3, LinkStep
    <3>4. CASE Fetch(b, p) \/ FetchS3(b, p)
      BY <2>2, <3>4, FetchStep
    <3>5. CASE FetchFails(b, p)
      BY <2>2, <3>5, FetchFailsStep
    <3>6. CASE unpack_archive(b, p)
      BY <2>2, <3>6, UnpackStep
    <3>7. CASE Verify(b, p)
      BY <2>2, <3>7, VerifyStep
    <3>8. CASE SaveDone(b, p)
      BY <2>2, <3>8, SaveDoneStep
    <3>9. CASE UnpackFails(b, p)
      BY <2>2, <3>9, UnpackFailsStep
    <3> QED
      BY <2>4, <3>1, <3>2, <3>3, <3>4, <3>5, <3>6, <3>7, <3>8, <3>9 DEF TaskStep
  <2> QED
    BY <2>1, <2>3, <2>4
<1> QED
    BY <1>1, <1>2 DEF Next

LEMMA NextKeeps ==
    ASSUME DownloadInv, [Next]_vars
    PROVE  /\ DownloadInv'
           /\ ClearAll => ClearAll'
           /\ S3PartsStay /\ WholeAll => WholeAll'
<1>1. TypeInv /\ \A b \in Backups : RunInv(b)
    BY DEF DownloadInv
<1>2. CASE \E b \in Backups : Keeps(b)
  <2>1. PICK b \in Backups : Keeps(b)
    BY <1>2
  <2>2. TypeInv' /\ RunInv(b)' /\ \A c \in Backups : c # b => SameAt(c)
    BY <2>1 DEF Keeps
  <2>3. ASSUME NEW c \in Backups, c # b
        PROVE  RunInv(c)' /\ (ClearInv(c) => ClearInv(c)') /\ (PartInv(c) => PartInv(c)')
    BY <1>1, <2>2, <2>3, SameKeeps
  <2>4. DownloadInv'
    BY <2>2, <2>3 DEF DownloadInv
  <2>5. ClearAll => ClearAll'
    <3>1. ASSUME Kept, ClearAll, NEW c \in Backups PROVE ClearInv(c)'
      BY <2>1, <2>3, <3>1 DEF Keeps, ClearAll
    <3> QED
      BY <3>1 DEF ClearAll
  <2>6. S3PartsStay /\ WholeAll => WholeAll'
    <3>1. ASSUME Kept, S3PartsStay, WholeAll, NEW c \in Backups PROVE PartInv(c)'
      BY <2>1, <2>3, <3>1 DEF Keeps, WholeAll
    <3> QED
      BY <3>1 DEF WholeAll
  <2> QED
    BY <2>4, <2>5, <2>6
<1>3. CASE Crash
  <2>1. /\ TypeInv' /\ \A b \in Backups : RunInv(b)'
        /\ Kept => \A b \in Backups : ClearInv(b) => ClearInv(b)'
        /\ Kept => \A b \in Backups : PartInv(b) => PartInv(b)'
    BY <1>1, <1>3, CrashStep
  <2> QED
    BY <2>1 DEF DownloadInv, ClearAll, WholeAll
<1>4. CASE UNCHANGED vars
  <2>1. \A c \in Backups : SameAt(c)
    BY <1>4 DEF vars, SameAt
  <2>2. TypeInv'
    BY <1>1, <1>4 DEF vars, TypeInv
  <2> QED
    BY <1>1, <2>1, <2>2, SameKeeps DEF DownloadInv, ClearAll, WholeAll
<1> QED
    BY <1>1, <1>2, <1>3, <1>4, StepsKeep

LEMMA InitKeeps == Init => DownloadInv /\ ClearAll /\ WholeAll
<1> SUFFICES ASSUME Init PROVE DownloadInv /\ ClearAll /\ WholeAll
    OBVIOUS
<1>1. op = [b \in Backups |-> Idle] /\ \A b \in Backups : op[b] = Idle
    BY DEF Init
<1>2. op \in [Backups -> OpRec]
    BY <1>1, IdleFacts
<1>3. disk \in [Backups -> [Parts -> [Files -> Data]]] /\ \A b \in Backups, p \in Parts : disk[b][p] = Missing
  <2>1. [p \in Parts |-> Missing] \in [Parts -> [Files -> Data]]
    BY DataFacts
  <2> QED
    BY <2>1 DEF Init
<1>4. orphan \in [Backups -> [Parts -> TaskRec]]
  <2>1. [p \in Parts |-> NoTask] \in [Parts -> TaskRec]
    BY NoTaskFacts
  <2> QED
    BY <2>1 DEF Init
<1>5. state \in [Backups -> StateFiles] /\ \A b \in Backups : state[b] = NoFile
    BY DEF Init, StateFiles
<1>6. TypeInv
  <2>1. runs \in 0..MaxRuns
    <3>1. runs = 0 /\ MaxRuns \in Nat
      BY BoundsAssumption DEF Init
    <3> QED
      BY <3>1
  <2>2. /\ remote \in [Backups -> Nat] /\ meta \in [Backups -> Nat] /\ dir \in [Backups -> BOOLEAN]
        /\ loose \in [Backups -> SUBSET Parts] /\ boot \subseteq Backups /\ sealed \in [Backups -> BOOLEAN]
    BY DEF Init
  <2> QED
    BY <1>2, <1>3, <1>4, <1>5, <2>1, <2>2 DEF TypeInv
<1>7. ASSUME NEW b \in Backups PROVE RunInv(b) /\ ClearInv(b) /\ PartInv(b)
  <2>1. op[b].pc = "idle" /\ op[b].mem = {} /\ \A p \in Parts : op[b].task[p].pc = "none"
    BY <1>1, IdleFacts, NoTaskFacts
  <2>2. ~Planned(b) /\ Keys(b) = {} /\ Busy(b) = {}
    BY <1>5, <2>1 DEF Planned, Keys, Busy
  <2>3. remote[b] = 1 /\ meta[b] = 0 /\ ~sealed[b]
    BY DEF Init
  <2>4. MaxVersion[b] \in Nat \ {0} /\ Conc \in Nat
    BY BoundsAssumption
  <2>5. Cardinality({}) = 0
    BY FS_EmptySet
  <2>6. remote[b] <= MaxVersion[b] /\ meta[b] <= MaxVersion[b] /\ Cardinality(Busy(b)) <= Conc
    BY <2>2, <2>3, <2>4, <2>5
  <2>7. RunInv(b)
    BY <2>1, <2>2, <2>3, <2>6 DEF RunInv
  <2>8. ClearInv(b)
    BY <1>3, BoundsAssumption DEF ClearInv
  <2>9. PartInv(b)
    BY <2>1, <2>2, <2>3 DEF PartInv, KeyInv, WholeInv
  <2> QED
    BY <2>7, <2>8, <2>9
<1> QED
    BY <1>6, <1>7 DEF DownloadInv, ClearAll, WholeAll

-----------------------------------------------------------------------------
(* The theorems *)

LEMMA InvHolds == Spec => [](DownloadInv /\ ClearAll)
<1>1. Init => DownloadInv /\ ClearAll
    BY InitKeeps
<1>2. (DownloadInv /\ ClearAll) /\ [Next]_vars => (DownloadInv /\ ClearAll)'
    BY NextKeeps
<1> QED
    BY <1>1, <1>2, PTL DEF Spec

LEMMA WholeHolds == Spec /\ []S3PartsStay => [](DownloadInv /\ WholeAll)
<1>1. Init => DownloadInv /\ WholeAll
    BY InitKeeps
<1>2. S3PartsStay /\ (DownloadInv /\ WholeAll) /\ [Next]_vars => (DownloadInv /\ WholeAll)'
    BY NextKeeps
<1> QED
    BY <1>1, <1>2, PTL DEF Spec

(* The variables of a download keep their shapes, a state file names parts *)
(* of the manifest, and the semaphore of download() keeps the tasks at     *)
(* work within download_concurrency.                                       *)
THEOREM TypeCorrect == Spec => []TypeOK
<1>1. DownloadInv => TypeOK
  <2> SUFFICES ASSUME DownloadInv PROVE TypeOK
    OBVIOUS
  <2>1. TypeInv /\ \A b \in Backups : RunInv(b)
    BY DEF DownloadInv
  <2>2. ASSUME NEW b \in Backups
        PROVE  /\ remote[b] \in 0..MaxVersion[b] /\ meta[b] \in 0..MaxVersion[b] /\ dir[b] \in BOOLEAN
               /\ sealed[b] \in BOOLEAN
               /\ DOMAIN disk[b] = Parts /\ \A p \in Parts : DOMAIN disk[b][p] = Files
               /\ state[b] = NoFile \/ state[b].done \subseteq PartsOf[b]
               /\ op[b].mem \subseteq Parts /\ loose[b] \subseteq Parts
               /\ Cardinality(Parts \ Tasks(b, {"none", "wait", "done", "failed"})) <= Conc
    <3>1. RunInv(b)
      BY <2>1
    <3>2. remote[b] \in Nat /\ meta[b] \in Nat /\ dir[b] \in BOOLEAN /\ sealed[b] \in BOOLEAN /\ loose[b] \subseteq Parts
      BY <2>1 DEF TypeInv
    <3>3. MaxVersion[b] \in Nat
      BY BoundsAssumption
    <3>4. remote[b] \in 0..MaxVersion[b] /\ meta[b] \in 0..MaxVersion[b]
      BY <3>1, <3>2, <3>3 DEF RunInv
    <3>5. DOMAIN disk[b] = Parts /\ \A p \in Parts : DOMAIN disk[b][p] = Files
      BY <2>1 DEF TypeInv
    <3>6. state[b] = NoFile \/ state[b].done \subseteq PartsOf[b]
      BY <3>1 DEF RunInv, Keys
    <3>7. op[b].mem \subseteq Parts
      BY <2>1, OpFields
    <3>8. Busy(b) = Parts \ Tasks(b, {"none", "wait", "done", "failed"})
      BY DEF Busy, Tasks
    <3> QED
      BY <3>1, <3>2, <3>4, <3>5, <3>6, <3>7, <3>8 DEF RunInv
  <2>3. boot \subseteq Backups /\ runs \in 0..MaxRuns
    BY <2>1 DEF TypeInv
  <2> QED
    BY <2>2, <2>3 DEF TypeOK
<1> QED
    BY <1>1, InvHolds, PTL

(* Where state files are written, delete_local leaves nothing of a      *)
(* backup behind on any disk, however its download was interrupted: the    *)
(* disk map is in place before the first part and goes only once           *)
(* metadata.json has taken over.                                           *)
THEOREM DeletesAll ==
    ASSUME ~SaveFails, Mapped = Backups
    PROVE  Spec => DeleteRemovesAll
<1>1. ASSUME DownloadInv, ClearAll, [Next]_vars
      PROVE  [\A b \in Backups : dir[b] /\ ~dir'[b] =>
                \A p \in Parts \ loose[b] : disk'[b][p] = Missing]_vars
  <2>1. SUFFICES ASSUME Next, NEW b \in Backups, dir[b], ~dir'[b], NEW p \in Parts \ loose[b]
                 PROVE  disk'[b][p] = Missing
    BY <1>1
  <2>2. TypeInv /\ RunInv(b) /\ ClearInv(b) /\ \A c \in Backups : RunInv(c)
    BY <1>1 DEF DownloadInv, ClearAll, Kept
  <2>3. delete_local(b)
    <3>1. CASE \E c \in Backups : Keeps(c)
      BY <2>1, <3>1 DEF Keeps, SameAt
    <3>2. CASE Crash
      BY <2>1, <3>2 DEF Crash
    <3> QED
      BY <2>1, <2>2, <3>1, <3>2, StepsKeep
  <2> QED
    BY <2>1, <2>2, <2>3, DeleteLocalStep
<1> QED
    BY <1>1, InvHolds, PTL DEF Spec, DeleteRemovesAll

(* What --resume would skip is whole: where state files are written (no    *)
(* write fails and every manifest has a disk map) and no part on an object *)
(* disk is fetched from a deleted backup, every key of download.state.json *)
(* names a part that is there in full and passes its check, through any    *)
(* crashes, kills and failed runs, and though the name was published       *)
(* again.                                                                  *)
THEOREM ResumeIsTruthful ==
    ASSUME ~SaveFails, Mapped = Backups
    PROVE  Spec /\ []S3PartsStay => []ResumeTruthful
<1>1. DownloadInv /\ WholeAll => ResumeTruthful
  <2> SUFFICES ASSUME DownloadInv, WholeAll, NEW b \in Backups, state[b] # NoFile,
                      NEW p \in state[b].done \ loose[b]
               PROVE  \E v \in 1..MaxVersion[b] : Intact(b, p, v)
    BY DEF ResumeTruthful
  <2>1. p \in Keys(b) /\ p \in Parts
    BY KeysType DEF DownloadInv
  <2>2. WholeInv(b, p)
    BY <2>1 DEF WholeAll, PartInv, Kept
  <2> QED
    BY <2>1, <2>2 DEF WholeInv, Fit, Kept
<1> QED
    BY <1>1, WholeHolds, PTL

(* A local backup that list shows, which it does by metadata.json alone,   *)
(* is whole as far as its checksums tell from the moment metadata.json is  *)
(* written until a new run begins on its parts: under the same conditions, *)
(* if no name is published again over keys of the old one.                 *)
THEOREM ListedAreWhole ==
    ASSUME ~SaveFails, Mapped = Backups, ~StaleResume
    PROVE  Spec /\ []S3PartsStay => []ListedWhole
<1>1. DownloadInv /\ WholeAll => ListedWhole
  <2> SUFFICES ASSUME DownloadInv, WholeAll, NEW b \in Backups, sealed[b]
               PROVE  meta[b] # 0 /\ \A p \in PartsOf[b] \ loose[b] : Intact(b, p, meta[b])
    BY DEF ListedWhole
  <2>1. meta[b] # 0
    BY DEF DownloadInv, RunInv
  <2>2. ASSUME NEW p \in PartsOf[b] \ loose[b] PROVE Intact(b, p, meta[b])
    <3>1. p \in Parts
      BY BoundsAssumption
    <3>2. WholeInv(b, p)
      BY <3>1 DEF WholeAll, PartInv, Kept
    <3> QED
      BY <2>2, <3>2 DEF WholeInv
  <2> QED
    BY <2>1, <2>2
<1> QED
    BY <1>1, WholeHolds, PTL

(* A download that returns Ok has every part of its manifest unpacked in   *)
(* full, with the checksums.txt of the manifest where that has a checksum, *)
(* whatever runs came before and whatever --resume skipped or was linked   *)
(* from whole parts, under the conditions of ListedAreWhole.  That the     *)
(* rest of an archive arrived undamaged is not claimed: nobody looks.      *)
THEOREM SuccessIsComplete ==
    ASSUME ~SaveFails, Mapped = Backups, ~StaleResume
    PROVE  Spec /\ []S3PartsStay => SuccessMeansComplete
<1>1. ASSUME DownloadInv, WholeAll, [Next]_vars
      PROVE  [\A b \in Backups : op[b].pc # "ok" /\ op'[b].pc = "ok" =>
                \A p \in PartsOf[b] \ loose[b] : Intact(b, p, op[b].ver)]_vars
  <2>1. SUFFICES ASSUME Next, NEW b \in Backups, op[b].pc # "ok", op'[b].pc = "ok",
                        NEW p \in PartsOf[b] \ loose[b]
                 PROVE  Intact(b, p, op[b].ver)
    BY <1>1
  <2>2. TypeInv /\ RunInv(b) /\ PartInv(b) /\ \A c \in Backups : RunInv(c)
    BY <1>1 DEF DownloadInv, WholeAll, Kept
  <2>3. op[b].pc = "forget"
    <3>1. CASE \E c \in Backups : Keeps(c)
      BY <2>1, <3>1 DEF Keeps, SameAt
    <3>2. CASE Crash
      <4>1. op'[b] = Idle
        BY <3>2 DEF Crash
      <4> QED
        BY <2>1, <4>1, IdleFacts
    <3> QED
      BY <2>1, <2>2, <3>1, <3>2, StepsKeep
  <2>4. p \in Parts
    BY BoundsAssumption
  <2>5. Planned(b) /\ op[b].task[p].pc \in {"none", "done"} /\ KeyInv(b, p) /\ WholeInv(b, p)
    BY <2>2, <2>3, <2>4 DEF Planned, RunInv, PartInv
  <2> QED
    BY <2>1, <2>5 DEF KeyInv, WholeInv
<1> QED
    BY <1>1, WholeHolds, PTL DEF Spec, SuccessMeansComplete
=============================================================================
