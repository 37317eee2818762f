--------------------------- MODULE RestoreProofs ----------------------------
(***************************************************************************)
(* Proofs about Restore, for any tables, parts, commands, faults, crashes  *)
(* and kills and any number of restores: a restore that reports success    *)
(* has every part in place, the state file names attached parts only (each *)
(* up to the answers of ClickHouse that attach.rs takes for benign), and   *)
(* streaming tables come to life after the data.                           *)
(***************************************************************************)
EXTENDS Restore, FiniteSetTheorems, WellFoundedInduction, TLAPS

RunPcs == {"idle", "drop", "dropdb", "databases", "tables", "load", "sync", "tasks", "mutations",
           "postponed", "ddl", "extras", "finish"} \cup Ended
TaskPcs == {"none", "detach", "link", "reattach", "ready", "s3", "stage", "attach", "done", "err"}
TabStates == {"absent", "live", "detached", "readonly"}
CmdRec == [rm : BOOLEAN, resume : BOOLEAN, kind : Kinds, sel : SUBSET Tables]
TaskRec == [pc : TaskPcs, work : SUBSET Nat, unsaved : SUBSET Nat, bad : BOOLEAN]
RunRec ==
    [pc : RunPcs, cmd : CmdRec, allowed : SUBSET Tables, todo : SUBSET Objects,
     failed : SUBSET Objects, progress : BOOLEAN, round : Nat,
     already : [Tables -> SUBSET Nat], st : [Tables -> SUBSET Nat],
     skipped : SUBSET (Tables \X Nat), task : [Tables -> TaskRec]]
FileRec == [params : Kinds \X (SUBSET Tables), attached : [Tables -> SUBSET Nat]]

(* Without --resume there is no state to save. *)
PlainOK(a) == ~a.cmd.resume => \A t \in Tables : a.st[t] = {} /\ a.task[t].unsaved = {}

(* The restores: those before the last one have ended. *)
RunsInv ==
    /\ cur \in 0..MaxRuns
    /\ run \in [1..MaxRuns -> RunRec]
    /\ \A r \in 1..MaxRuns : r < cur => run[r].pc \in Ended
    /\ \A r \in 1..MaxRuns : PlainOK(run[r])

(* The server: a live part has a number of its own and holds a part of the *)
(* manifest or data of no restore.                                         *)
StoreInv ==
    /\ tab \in [Objects -> TabStates]
    /\ live \in [Tables -> SUBSET (Nat \X Nat)]
    /\ \A t \in Tables : \A x \in live[t] : x[2] \in Blocks[t] \cup {0}
    /\ benign \in [Tables -> SUBSET Nat] /\ staged \in [Tables -> SUBSET Nat]
    /\ \A t \in Tables : benign[t] \subseteq Blocks[t] /\ staged[t] \subseteq Blocks[t]
    /\ file = NoState \/ file \in FileRec
    /\ access \in {"old", "gone", "new"} /\ faults \in Nat

(* Part names are positive and unique, and each table has finitely many. *)
NamesInv ==
    \A t \in Tables :
        /\ IsFiniteSet(live[t])
        /\ \A x \in live[t] : x[1] # 0
        /\ \A x, y \in live[t] : x[1] = y[1] => x = y

(* A table with parts exists; only ATTACH TABLE mode detaches tables, and  *)
(* no postponed table or view is ever detached or read-only.               *)
TabInv ==
    /\ \A t \in Tables : live[t] # {} \/ benign[t] # {} => tab[t] # "absent"
    /\ \A t \in Tables : tab[t] \in {"detached", "readonly"} => AsAttach /\ t \in Replicated \ S3Tables
    /\ \A o \in Later \cup Views : tab[o] \in {"absent", "live"}

Early == {"drop", "dropdb", "databases", "tables", "load"}

(* Before the load nothing is known to be attached and there is no task. *)
FreshOK(a) ==
    /\ a.pc \in Early => \A t \in Tables : a.st[t] = {}
    /\ a.pc \in Early \cup {"sync"} => \A t \in Tables : a.task[t].unsaved = {}

(* A selected table that was refused counts with all its parts as skipped. *)
SelOK(a) ==
    /\ a.allowed \subseteq a.cmd.sel
    /\ \A t \in a.cmd.sel \ a.allowed : Parts(t) # {} /\ Parts(t) \subseteq a.skipped

(* ATTACH TABLE mode: only of planned tables; detached until re-attached. *)
ModeOK(a) ==
    a.pc = "tasks" => \A t \in Tables :
        /\ a.task[t].pc \in {"detach", "link", "reattach"} => t \in Planned(a.cmd)
        /\ a.task[t].pc \in {"link", "reattach"} => tab[t] = "detached"

(* What a full restore has created by the phase it is in. *)
CreatedOK(a) ==
    a.cmd.kind = "full" =>
        /\ a.pc = "tables" => \A t \in a.allowed \ a.todo : tab[t] # "absent"
        /\ a.pc \in {"load", "sync", "tasks", "mutations", "postponed", "ddl", "extras", "finish", "ok"} =>
              \A t \in a.allowed : tab[t] # "absent"
        /\ a.pc = "postponed" => \A o \in Later \ a.todo : tab[o] = "live"
        /\ a.pc \in {"ddl", "extras", "finish", "ok"} => \A o \in Later : tab[o] = "live"
        /\ a.pc = "ddl" => \A o \in Views \ (a.todo \cup a.failed) : tab[o] = "live"
        /\ a.pc \in {"extras", "finish", "ok"} => \A o \in Views : tab[o] = "live"

PhaseInv == cur > 0 => FreshOK(R) /\ SelOK(R) /\ ModeOK(R) /\ CreatedOK(R)

BaseInv == RunsInv /\ StoreInv /\ NamesInv /\ TabInv /\ PhaseInv

-----------------------------------------------------------------------------
Skips(a, t) == {b \in Blocks[t] : <<t, b>> \in a.skipped}

(* What the present restore takes for attached is. *)
AlreadyOK(a) == a.pc \in {"sync", "tasks"} =>
    \A t \in Tables : a.already[t] \cap Blocks[t] \subseteq Has(t)

(* Where the parts of a table are while its task is at work, and after. *)
TaskOK(a, t) ==
    LET k == a.task[t] IN
    /\ k.pc = "none" => Parts(t) \subseteq a.skipped
    /\ k.pc = "reattach" => \A b \in Blocks[t] : b \in Has(t) \/ <<t, b>> \in lost
    /\ k.pc = "attach" /\ ~k.bad => Blocks[t] \subseteq Has(t) \cup Skips(a, t) \cup k.work
    /\ k.pc = "done" => Blocks[t] \subseteq Has(t) \cup Skips(a, t)

Past == {"mutations", "postponed", "ddl", "extras", "finish", "ok"}

DataOK(a) ==
    /\ a.pc = "tasks" => \A t \in a.allowed : TaskOK(a, t)
    /\ a.pc = "mutations" => \A t \in a.allowed :
          a.task[t].pc = "done" \/ Parts(t) \subseteq a.skipped
    /\ a.pc \in Past /\ a.cmd.kind # "schema" => \A t \in a.allowed : Blocks[t] \subseteq Has(t) \cup Skips(a, t)

AlreadyInv == cur > 0 => AlreadyOK(R)
DataInv == cur > 0 => DataOK(R)

(* The pending mutations, unless something failed or is at work unseen. *)
Calm == faults = 0 /\ \A r \in 1..cur : run[r].pc # "killed"
MutOK(a) ==
    a.pc \in Past \ {"mutations"} /\ a.cmd.kind # "schema" /\ a.skipped = {} /\ Calm =>
        \A t \in a.allowed : \A x \in live[t] : x[2] # 0 => x[1] \in mutated[t]
MutInv == cur > 0 => MutOK(R)

(* The state file, and the state a task with --resume would write to it. *)
FileInv == file # NoState => \A t \in Tables : file.attached[t] \cap Blocks[t] \subseteq Has(t)
StateInv ==
    \A r \in 1..cur : run[r].pc \notin Ended \ {"killed"} =>
        \A t \in Tables : /\ run[r].st[t] \cap Blocks[t] \subseteq Has(t)
                          /\ run[r].task[t].unsaved \cap Blocks[t] \subseteq Has(t)

(* A restore that drops finds no state file of the backup and no killed    *)
(* --resume restore that may still write one.                              *)
DropsClean ==
    cur > 0 /\ R.pc \in {"drop", "dropdb"} =>
        file = NoState /\ \A r \in 1..cur : run[r].pc = "killed" => ~run[r].cmd.resume

(* Where a restore goes by the name of a live part, to merge system.parts  *)
(* into the state or to leave out a link, the part holds that data, or     *)
(* ClickHouse said that it is there.                                      *)
NamesTruthful ==
    cur > 0 => \A t \in Tables :
        \/ R.pc = "load" /\ cmd.resume /\ t \in R.allowed
        \/ R.pc = "tasks" /\ R.task[t].pc = "link"
        => Names(t) \cap Blocks[t] \subseteq Has(t)

-----------------------------------------------------------------------------
(* Records of a restore *)

Set(r, n) == run' = [run EXCEPT ![r] = n]

(* n is a with another phase or list of objects. *)
Quiet(a, n) ==
    /\ n.cmd = a.cmd /\ n.allowed = a.allowed /\ n.skipped = a.skipped
    /\ n.task = a.task /\ n.st = a.st /\ n.already = a.already

LEMMA CurRec ==
    ASSUME RunsInv, cur > 0
    PROVE  /\ cur \in 1..MaxRuns /\ R = run[cur] /\ R \in RunRec
           /\ cmd = R.cmd /\ cmd \in CmdRec /\ R.allowed \subseteq Tables
<1>1. cur \in 1..MaxRuns /\ R = run[cur]
  BY RestoreAssumption DEF RunsInv, R
<1>2. R \in RunRec
  BY <1>1 DEF RunsInv
<1> QED BY <1>1, <1>2 DEF RunRec, cmd

WithPc(a, p) == [a EXCEPT !.pc = p]
WithTodo(a, u) == [a EXCEPT !.todo = u]
WithDone(a, u) == [a EXCEPT !.todo = u, !.progress = TRUE]
WithFailed(a, u, f) == [a EXCEPT !.todo = u, !.failed = f]
WithPhase(a, p) == [a EXCEPT !.pc = p, !.progress = FALSE, !.round = 0]
WithRound(a) == [a EXCEPT !.todo = a.failed, !.failed = {}, !.progress = FALSE, !.round = @ + 1]
WithList(a, p, u) == [a EXCEPT !.pc = p, !.todo = u]
WithLater(a, p, u) == [a EXCEPT !.pc = p, !.todo = u, !.progress = FALSE, !.round = 0]

LEMMA PcRec ==
    ASSUME NEW a \in RunRec, NEW p \in RunPcs
    PROVE  /\ WithPc(a, p) \in RunRec /\ Quiet(a, WithPc(a, p))
           /\ WithPc(a, p).pc = p /\ WithPc(a, p).todo = a.todo /\ WithPc(a, p).failed = a.failed
  BY DEF RunRec, Quiet, WithPc

LEMMA TodoRec ==
    ASSUME NEW a \in RunRec, NEW u \in SUBSET Objects
    PROVE  /\ WithTodo(a, u) \in RunRec /\ Quiet(a, WithTodo(a, u))
           /\ WithTodo(a, u).pc = a.pc /\ WithTodo(a, u).todo = u
  BY DEF RunRec, Quiet, WithTodo

LEMMA DoneRec ==
    ASSUME NEW a \in RunRec, NEW u \in SUBSET Objects
    PROVE  /\ WithDone(a, u) \in RunRec /\ Quiet(a, WithDone(a, u)) /\ WithDone(a, u).pc = a.pc
           /\ WithDone(a, u).todo = u /\ WithDone(a, u).failed = a.failed
  BY DEF RunRec, Quiet, WithDone

LEMMA FailedRec ==
    ASSUME NEW a \in RunRec, NEW u \in SUBSET Objects, NEW f \in SUBSET Objects
    PROVE  /\ WithFailed(a, u, f) \in RunRec /\ Quiet(a, WithFailed(a, u, f))
           /\ WithFailed(a, u, f).pc = a.pc
           /\ WithFailed(a, u, f).todo = u /\ WithFailed(a, u, f).failed = f
  BY DEF RunRec, Quiet, WithFailed

LEMMA PhaseRec ==
    ASSUME NEW a \in RunRec, NEW p \in RunPcs
    PROVE  WithPhase(a, p) \in RunRec /\ Quiet(a, WithPhase(a, p)) /\ WithPhase(a, p).pc = p
  BY DEF RunRec, Quiet, WithPhase

LEMMA RoundRec ==
    ASSUME NEW a \in RunRec
    PROVE  /\ WithRound(a) \in RunRec /\ Quiet(a, WithRound(a)) /\ WithRound(a).pc = a.pc
           /\ WithRound(a).todo = a.failed /\ WithRound(a).failed = {}
<1>1. a.round + 1 \in Nat /\ a.failed \in SUBSET Objects
  BY DEF RunRec
<1> QED BY <1>1 DEF RunRec, Quiet, WithRound

LEMMA ListRec ==
    ASSUME NEW a \in RunRec, NEW p \in RunPcs, NEW u \in SUBSET Objects
    PROVE  /\ WithList(a, p, u) \in RunRec /\ Quiet(a, WithList(a, p, u))
           /\ WithList(a, p, u).pc = p /\ WithList(a, p, u).todo = u
  BY DEF RunRec, Quiet, WithList

LEMMA LaterRec ==
    ASSUME NEW a \in RunRec, NEW p \in RunPcs, NEW u \in SUBSET Objects
    PROVE  /\ WithLater(a, p, u) \in RunRec /\ Quiet(a, WithLater(a, p, u))
           /\ WithLater(a, p, u).pc = p /\ WithLater(a, p, u).todo = u
  BY DEF RunRec, Quiet, WithLater

-----------------------------------------------------------------------------
(* What the steps of the phases do *)

(* The drop phases: what is dropped is gone with its parts. *)
Dropping(n) ==
    /\ R.pc \in {"drop", "dropdb"} /\ n.pc \in {"drop", "dropdb", "databases", "failed"}
    /\ Quiet(R, n)
    /\ \A o \in Objects : tab'[o] \in {tab[o], "absent"}
    /\ \A t \in Tables : \/ live'[t] = live[t] /\ benign'[t] = benign[t] /\ tab'[t] = tab[t]
                         \/ live'[t] = {} /\ benign'[t] = {}
    /\ UNCHANGED <<cur, file, lost>>

LEMMA DropShape ==
    ASSUME RunsInv, StoreInv, Active,
           (\E o \in Objects : DropOne(o) \/ DropFails(o)) \/ DropRound \/ DropDatabases
    PROVE  \E n \in RunRec : Set(cur, n) /\ Dropping(n)
<1>0. R \in RunRec /\ R.todo \subseteq Objects /\ R.failed \subseteq Objects
  BY CurRec DEF Active, RunRec
<1>1. ASSUME NEW o \in Objects, DropOne(o)
      PROVE  \E n \in RunRec : Set(cur, n) /\ Dropping(n)
  <2> DEFINE n == WithDone(R, R.todo \ {o})
  <2>1. n \in RunRec /\ Quiet(R, n) /\ n.pc = R.pc
    BY <1>0, DoneRec, R.todo \ {o} \in SUBSET Objects
  <2>2. Set(cur, n)
    BY <1>1 DEF DropOne, To, Set, WithDone
  <2>3. \A p \in Objects : tab'[p] \in {tab[p], "absent"}
    BY <1>1 DEF DropOne, Gone, StoreInv
  <2>4. \A t \in Tables : \/ live'[t] = live[t] /\ benign'[t] = benign[t] /\ tab'[t] = tab[t]
                          \/ live'[t] = {} /\ benign'[t] = {}
    BY <1>1 DEF DropOne, Gone, Wiped, StoreInv, Objects
  <2> QED BY <1>1, <2>1, <2>2, <2>3, <2>4 DEF Dropping, DropOne
<1>2. ASSUME NEW o \in Objects, DropFails(o)
      PROVE  \E n \in RunRec : Set(cur, n) /\ Dropping(n)
  <2> DEFINE n == WithFailed(R, R.todo \ {o}, R.failed \cup {o})
  <2>1. n \in RunRec /\ Quiet(R, n) /\ n.pc = R.pc
    BY <1>0, FailedRec, R.todo \ {o} \in SUBSET Objects, R.failed \cup {o} \in SUBSET Objects
  <2>2. Set(cur, n)
    BY <1>2 DEF DropFails, To, Set, WithFailed
  <2> QED BY <1>2, <2>1, <2>2 DEF Dropping, DropFails
<1>3. CASE DropRound
  <2>0. R.pc = "drop" /\ UNCHANGED <<cur, tab, live, benign, file, lost>>
    BY <1>3 DEF DropRound, FinishRound
  <2>1. CASE To(WithPhase(R, "dropdb"))
    <3> DEFINE n == WithPhase(R, "dropdb")
    <3>1. n \in RunRec /\ Quiet(R, n) /\ n.pc = "dropdb"
      BY <1>0, PhaseRec DEF RunPcs
    <3> QED BY <2>0, <2>1, <3>1 DEF Dropping, Set, To
  <2>2. CASE Goto("failed")
    <3> DEFINE n == WithPc(R, "failed")
    <3>1. n \in RunRec /\ Quiet(R, n) /\ n.pc = "failed"
      BY <1>0, PcRec DEF RunPcs, Ended
    <3>9. Set(cur, n)
      BY <2>0, <2>2, <3>1 DEF Set, To, Goto, WithPc
    <3> QED BY <2>0, <2>2, <3>1, <3>9 DEF Dropping
  <2>3. CASE To(WithRound(R))
    <3> DEFINE n == WithRound(R)
    <3>1. n \in RunRec /\ Quiet(R, n) /\ n.pc = R.pc
      BY <1>0, RoundRec
    <3> QED BY <2>0, <2>3, <3>1 DEF Dropping, Set, To
  <2> QED BY <1>3, <2>1, <2>2, <2>3 DEF DropRound, FinishRound, WithPhase, WithRound
<1>4. CASE DropDatabases
  <2> DEFINE n == WithPc(R, "databases")
  <2>1. n \in RunRec /\ Quiet(R, n) /\ n.pc = "databases"
    BY <1>0, PcRec DEF RunPcs
  <2>2. Set(cur, n)
    BY <1>4 DEF DropDatabases, Goto, To, Set, WithPc
  <2>3. \A o \in Objects : tab'[o] \in {tab[o], "absent"}
    BY <1>4 DEF DropDatabases
  <2>4. \A t \in Tables : \/ live'[t] = live[t] /\ benign'[t] = benign[t] /\ tab'[t] = tab[t]
                          \/ live'[t] = {} /\ benign'[t] = {}
    BY <1>4 DEF DropDatabases, Wiped
  <2> QED BY <1>4, <2>1, <2>2, <2>3, <2>4 DEF Dropping, DropDatabases
<1> QED BY <1>1, <1>2, <1>3, <1>4

(* The phases that create: nothing happens to parts, and objects only come *)
(* to life.                                                                *)
Building(n) ==
    /\ R.pc \in {"databases", "tables", "postponed", "ddl"} /\ Quiet(R, n)
    /\ \A o \in Objects : tab'[o] = tab[o] \/ (tab'[o] = "live" /\ o \in R.todo /\ R.pc # "databases")
    /\ UNCHANGED <<cur, live, benign, staged, file, mutated, lost>>
    /\ \/ n.pc = "failed"
       \/ R.pc = "databases" /\ n.pc = "tables" /\ n.todo = R.allowed
       \/ /\ R.pc \in {"tables", "postponed"} /\ n.pc = R.pc
          /\ \E o \in R.todo : n.todo = R.todo \ {o} /\ tab'[o] \in {"live", "readonly"}
       \/ R.pc = "tables" /\ R.todo = {} /\ R.cmd.kind # "schema" /\ n.pc = "load"
       \/ R.pc = "tables" /\ R.cmd.kind = "schema" /\ n.pc = "ddl"
       \/ R.pc = "postponed" /\ R.todo = {} /\ R.cmd.kind # "schema" /\ n.pc = "ddl" /\ n.todo = Views
       \/ R.pc = "postponed" /\ R.cmd.kind = "schema" /\ n.pc = "extras"
       \/ R.pc = "ddl" /\ R.cmd.kind = "schema" /\ n.pc = "postponed"
       \/ /\ R.pc = "ddl" /\ n.pc = "ddl"
          /\ \A o \in R.todo \cup R.failed : o \in n.todo \cup n.failed \/ tab'[o] = "live"
       \/ R.pc = "ddl" /\ R.todo = {} /\ R.failed = {} /\ n.pc = "extras"

LEMMA CreateShape ==
    ASSUME RunsInv, StoreInv, Active, CreateDatabases \/ TablesCreated \/ \E o \in Objects : CreateTable(o)
    PROVE  \E n \in RunRec : Set(cur, n) /\ Building(n)
<1>0. /\ R \in RunRec /\ R.todo \subseteq Objects /\ R.failed \subseteq Objects /\ cmd = R.cmd
      /\ R.allowed \in SUBSET Objects
  BY CurRec DEF Active, RunRec, Objects
<1>f. ASSUME Goto("failed"), R.pc \in {"databases", "tables", "postponed"},
             UNCHANGED <<cur, tab, live, benign, staged, file, mutated, lost>>
      PROVE  \E n \in RunRec : Set(cur, n) /\ Building(n)
  <2> DEFINE n == WithPc(R, "failed")
  <2>1. n \in RunRec /\ Quiet(R, n) /\ n.pc = "failed"
    BY <1>0, PcRec DEF RunPcs, Ended
  <2>9. Set(cur, n)
    BY <1>f, <2>1 DEF Set, To, Goto, WithPc
  <2> QED BY <1>f, <2>1, <2>9 DEF Building
<1>1. CASE CreateDatabases
  <2>1. CASE To(WithList(R, "tables", R.allowed))
    <3> DEFINE n == WithList(R, "tables", R.allowed)
    <3>1. n \in RunRec /\ Quiet(R, n) /\ n.pc = "tables" /\ n.todo = R.allowed
      BY <1>0, ListRec DEF RunPcs
    <3> QED BY <1>1, <2>1, <3>1 DEF CreateDatabases, Building, Set, To
  <2> QED BY <1>1, <2>1, <1>f DEF CreateDatabases, WithList
<1>2. ASSUME NEW o \in Objects, CreateTable(o)
      PROVE  \E n \in RunRec : Set(cur, n) /\ Building(n)
  <2>0. /\ R.pc \in {"tables", "postponed"} /\ o \in R.todo
        /\ UNCHANGED <<cur, live, benign, staged, file, mutated, lost>>
    BY <1>2 DEF CreateTable, Nth
  <2>1. CASE /\ To(WithTodo(R, R.todo \ {o}))
             /\ (tab[o] \in {"live", "readonly"} /\ UNCHANGED tab) \/ tab' = [tab EXCEPT ![o] = "live"]
    <3> DEFINE n == WithTodo(R, R.todo \ {o})
    <3>1. n \in RunRec /\ Quiet(R, n) /\ n.pc = R.pc /\ n.todo = R.todo \ {o}
      BY <1>0, TodoRec, R.todo \ {o} \in SUBSET Objects
    <3>2. tab'[o] \in {"live", "readonly"} /\ \A p \in Objects : tab'[p] = tab[p] \/ (tab'[p] = "live" /\ p = o)
      BY <2>1 DEF StoreInv
    <3>3. Set(cur, n)
      BY <2>1, <3>1 DEF Set, To
    <3> QED BY <2>0, <3>1, <3>2, <3>3 DEF Building
  <2> QED BY <1>2, <2>0, <2>1, <1>f DEF CreateTable, WithTodo
<1>3. CASE TablesCreated
  <2>0. R.pc \in {"tables", "postponed"} /\ R.todo = {} /\ UNCHANGED <<cur, tab, live, benign, staged, file, mutated, lost>>
    BY <1>3 DEF TablesCreated
  <2> DEFINE p == AfterTables
             u == IF AfterTables = "ddl" THEN Views ELSE {}
  <2>1. /\ p \in {"ddl", "load", "extras"} /\ u \in SUBSET Objects /\ (p = "ddl" => u = Views)
        /\ p = IF R.pc = "tables" THEN IF R.cmd.kind = "schema" THEN "ddl" ELSE "load"
               ELSE IF R.cmd.kind = "schema" THEN "extras" ELSE "ddl"
    BY <1>0 DEF AfterTables, Objects
  <2>2. To(WithList(R, p, u))
    BY <1>3 DEF TablesCreated, WithList
  <2> HIDE DEF p, u
  <2> DEFINE n == WithList(R, p, u)
  <2>3. n \in RunRec /\ Quiet(R, n) /\ n.pc = p /\ n.todo = u
    BY <1>0, <2>1, ListRec DEF RunPcs
  <2>4. Set(cur, n)
    BY <2>2, <2>3 DEF Set, To
  <2> QED BY <2>0, <2>1, <2>3, <2>4 DEF Building
<1> QED BY <1>1, <1>2, <1>3

LEMMA DdlShape ==
    ASSUME RunsInv, StoreInv, Active, DdlRound \/ \E o \in Objects : CreateDdl(o)
    PROVE  \E n \in RunRec : Set(cur, n) /\ Building(n)
<1>0. /\ R \in RunRec /\ R.todo \subseteq Objects /\ R.failed \subseteq Objects /\ cmd = R.cmd
  BY CurRec DEF Active, RunRec
<1>1. ASSUME NEW o \in Objects, CreateDdl(o)
      PROVE  \E n \in RunRec : Set(cur, n) /\ Building(n)
  <2>0. R.pc = "ddl" /\ o \in R.todo /\ UNCHANGED <<cur, live, benign, staged, file, mutated, lost>>
    BY <1>1 DEF CreateDdl, Nth
  <2>1. CASE tab' = [tab EXCEPT ![o] = "live"] /\ To(WithDone(R, R.todo \ {o}))
    <3> DEFINE n == WithDone(R, R.todo \ {o})
    <3>1. n \in RunRec /\ Quiet(R, n) /\ n.pc = R.pc /\ n.todo = R.todo \ {o} /\ n.failed = R.failed
      BY <1>0, DoneRec, R.todo \ {o} \in SUBSET Objects
    <3>2. tab'[o] = "live" /\ \A p \in Objects : tab'[p] = tab[p] \/ (tab'[p] = "live" /\ p = o)
      BY <2>1 DEF StoreInv
    <3>3. Set(cur, n)
      BY <2>1, <3>1 DEF Set, To
    <3> QED BY <2>0, <3>1, <3>2, <3>3 DEF Building
  <2>2. CASE UNCHANGED tab /\ To(WithFailed(R, R.todo \ {o}, R.failed \cup {o}))
    <3> DEFINE n == WithFailed(R, R.todo \ {o}, R.failed \cup {o})
    <3>1. n \in RunRec /\ Quiet(R, n) /\ n.pc = R.pc /\ n.todo = R.todo \ {o} /\ n.failed = R.failed \cup {o}
      BY <1>0, FailedRec, R.todo \ {o} \in SUBSET Objects, R.failed \cup {o} \in SUBSET Objects
    <3>3. Set(cur, n)
      BY <2>2, <3>1 DEF Set, To
    <3> QED BY <2>0, <2>2, <3>1, <3>3 DEF Building
  <2> QED BY <1>1, <2>1, <2>2 DEF CreateDdl, WithDone, WithFailed
<1>2. CASE DdlRound
  <2>0. R.pc = "ddl" /\ R.todo = {} /\ UNCHANGED <<cur, tab, live, benign, staged, file, mutated, lost>>
    BY <1>2 DEF DdlRound, FinishRound
  <2>1. CASE /\ R.cmd.kind = "schema"
             /\ To(WithLater(R, "postponed", Later))
    <3> DEFINE n == WithLater(R, "postponed", Later)
    <3>0. Later \in SUBSET Objects
      BY DEF Objects
    <3>1. n \in RunRec /\ Quiet(R, n) /\ n.pc = "postponed"
      BY <1>0, <3>0, LaterRec DEF RunPcs
    <3> QED BY <2>0, <2>1, <3>1 DEF Building, Set, To
  <2>2. CASE R.failed = {} /\ To(WithPhase(R, "extras"))
    <3> DEFINE n == WithPhase(R, "extras")
    <3>1. n \in RunRec /\ Quiet(R, n) /\ n.pc = "extras"
      BY <1>0, PhaseRec DEF RunPcs
    <3> QED BY <2>0, <2>2, <3>1 DEF Building, Set, To
  <2>3. CASE Goto("failed")
    <3> DEFINE n == WithPc(R, "failed")
    <3>1. n \in RunRec /\ Quiet(R, n) /\ n.pc = "failed"
      BY <1>0, PcRec DEF RunPcs, Ended
    <3>9. Set(cur, n)
      BY <2>0, <2>3, <3>1 DEF Set, To, Goto, WithPc
    <3> QED BY <2>0, <2>3, <3>1, <3>9 DEF Building
  <2>4. CASE To(WithRound(R))
    <3> DEFINE n == WithRound(R)
    <3>1. n \in RunRec /\ Quiet(R, n) /\ n.pc = R.pc /\ n.todo = R.failed /\ n.failed = {}
      BY <1>0, RoundRec
    <3> QED BY <2>0, <2>4, <3>1 DEF Building, Set, To
  <2> QED BY <1>0, <1>2, <2>1, <2>2, <2>3, <2>4
    DEF DdlRound, FinishRound, WithLater, WithPhase, WithRound
<1> QED BY <1>1, <1>2

(* The end of the tasks, the mutations and the last phases. *)
Ending(n) ==
    /\ Quiet(R, n) /\ UNCHANGED <<cur, tab, live, benign, staged, lost>>
    /\ \/ n.pc \in {"failed", "killed"} /\ UNCHANGED file
       \/ /\ R.pc = "tasks" /\ n.pc = "mutations" /\ UNCHANGED file
          /\ \A t \in Tables : R.task[t].pc \in {"none", "done"}
       \/ /\ R.pc = "mutations" /\ n.pc = "extras" /\ R.cmd.kind = "data" /\ UNCHANGED file
       \/ /\ R.pc = "mutations" /\ n.pc = "postponed" /\ n.todo = Later /\ UNCHANGED file
       \/ R.pc = "extras" /\ n.pc = "finish" /\ UNCHANGED <<file, mutated>>
       \/ /\ R.pc = "finish" /\ n.pc = "partial" /\ UNCHANGED <<file, mutated>>
       \/ /\ R.pc = "finish" /\ n.pc = "ok" /\ UNCHANGED mutated
          /\ R.cmd.kind # "schema" => R.skipped = {}
          /\ \/ UNCHANGED file
             \/ /\ R.cmd.kind # "schema"
                /\ file' = [params |-> params_hash(R.cmd),
                            attached |-> [t \in Tables |-> IF t \in R.allowed THEN Blocks[t] ELSE {}]]

(* Mutations that did not fail were applied to all parts of their tables. *)
Reapplied ==
    R.pc = "mutations" /\ faults' = 0 =>
        \A t \in Tables : mutated'[t] = IF R.task[t].pc = "done" THEN Names(t) ELSE mutated[t]

LEMMA EndShape ==
    ASSUME RunsInv, StoreInv, Active,
           JoinTasks \/ RestoreRbac \/ Finish \/ Kill \/ \E ts \in SUBSET Tables : ReapplyMutations(ts)
    PROVE  \E n \in RunRec : Set(cur, n) /\ Ending(n) /\ (n.pc # "killed" => Reapplied)
<1>0. R \in RunRec /\ cmd = R.cmd
  BY CurRec DEF Active
<1>g. ASSUME NEW p \in RunPcs, Goto(p)
      PROVE  \E n \in RunRec : Set(cur, n) /\ Quiet(R, n) /\ n.pc = p
  <2> DEFINE n == WithPc(R, p)
  <2>1. n \in RunRec /\ Quiet(R, n) /\ n.pc = p
    BY <1>0, PcRec
  <2>2. Set(cur, n)
    BY <1>g DEF Set, To, Goto, WithPc
  <2> QED BY <2>1, <2>2
<1>1. CASE JoinTasks
  <2> DEFINE p == IF \E t \in Tables : R.task[t].pc = "err" THEN "failed" ELSE "mutations"
  <2>0. /\ R.pc = "tasks" /\ UNCHANGED <<cur, tab, live, benign, staged, file, lost>> /\ Goto(p)
        /\ \A t \in Tables : R.task[t].pc \in {"none", "done", "err"}
    BY <1>1 DEF JoinTasks
  <2>1. p \in {"failed", "mutations"} /\ (p = "mutations" => \A t \in Tables : R.task[t].pc \in {"none", "done"})
    BY <2>0
  <2> HIDE DEF p
  <2>2. PICK n \in RunRec : Set(cur, n) /\ Quiet(R, n) /\ n.pc = p
    BY <2>0, <2>1, <1>g DEF RunPcs, Ended
  <2> QED BY <2>0, <2>1, <2>2 DEF Ending, Reapplied
<1>2. CASE RestoreRbac
  <2>0. R.pc = "extras" /\ UNCHANGED <<cur, tab, live, benign, staged, file, mutated, lost>>
    BY <1>2 DEF RestoreRbac
  <2>1. PICK p \in {"finish", "failed"} : Goto(p)
    BY <1>2 DEF RestoreRbac
  <2>2. PICK n \in RunRec : Set(cur, n) /\ Quiet(R, n) /\ n.pc = p
    BY <2>1, <1>g DEF RunPcs, Ended
  <2> QED BY <2>0, <2>1, <2>2 DEF Ending, Reapplied
<1>3. CASE Finish
  <2>0. R.pc = "finish" /\ UNCHANGED <<cur, tab, live, benign, staged, mutated, lost>>
    BY <1>3 DEF Finish
  <2>1. CASE Goto("ok")
    <3>1. PICK n \in RunRec : Set(cur, n) /\ Quiet(R, n) /\ n.pc = "ok"
      BY <2>1, <1>g DEF RunPcs, Ended
    <3>2. CASE R.cmd.kind = "schema" /\ UNCHANGED file
      BY <2>0, <3>1, <3>2 DEF Ending, Reapplied
    <3>3. CASE R.cmd.kind # "schema" /\ R.skipped = {}
      <4>1. \/ UNCHANGED file
            \/ file' = [params |-> params_hash(R.cmd),
                        attached |-> [t \in Tables |-> IF t \in R.allowed THEN Blocks[t] ELSE {}]]
        BY <1>0, <1>3, <3>3 DEF Finish
      <4> QED BY <2>0, <3>1, <3>3, <4>1 DEF Ending, Reapplied
    <3>4. CASE R.cmd.kind # "schema" /\ R.skipped # {}
      <4>1. Goto("partial")
        BY <1>0, <1>3, <3>4 DEF Finish
      <4>2. PICK m \in RunRec : Set(cur, m) /\ Quiet(R, m) /\ m.pc = "partial"
        BY <4>1, <1>g DEF RunPcs, Ended
      <4>3. UNCHANGED file
        BY <1>0, <1>3, <3>4 DEF Finish
      <4> QED BY <2>0, <4>2, <4>3 DEF Ending, Reapplied
    <3> QED BY <1>0, <1>3, <3>2, <3>3, <3>4 DEF Finish
  <2>2. CASE Goto("partial") /\ UNCHANGED file
    <3>1. PICK n \in RunRec : Set(cur, n) /\ Quiet(R, n) /\ n.pc = "partial"
      BY <2>2, <1>g DEF RunPcs, Ended
    <3> QED BY <2>0, <2>2, <3>1 DEF Ending, Reapplied
  <2> QED BY <1>3, <2>1, <2>2 DEF Finish
<1>4. CASE Kill
  <2>1. PICK n \in RunRec : Set(cur, n) /\ Quiet(R, n) /\ n.pc = "killed"
    BY <1>4, <1>g DEF Kill, RunPcs, Ended
  <2> QED BY <1>4, <2>1 DEF Kill, Ending
<1>5. ASSUME NEW ts \in SUBSET Tables, ReapplyMutations(ts)
      PROVE  \E n \in RunRec : Set(cur, n) /\ Ending(n) /\ Reapplied
  <2>0. R.pc = "mutations" /\ UNCHANGED <<cur, tab, live, benign, staged, file, lost>>
    BY <1>5 DEF ReapplyMutations
  <2>1. Reapplied
    <3> SUFFICES ASSUME faults' = 0
                 PROVE  \A t \in Tables : mutated'[t] = IF R.task[t].pc = "done" THEN Names(t) ELSE mutated[t]
      BY DEF Reapplied
    <3>1. ts = {}
      BY <1>5 DEF ReapplyMutations, Fault, StoreInv
    <3> QED BY <1>5, <3>1 DEF ReapplyMutations
  <2>2. CASE R.cmd.kind = "data"
    <3>1. PICK n \in RunRec : Set(cur, n) /\ Quiet(R, n) /\ n.pc = "extras"
      BY <1>0, <1>5, <2>2, <1>g DEF ReapplyMutations, RunPcs
    <3> QED BY <2>0, <2>1, <2>2, <3>1 DEF Ending
  <2>3. CASE R.cmd.kind # "data"
    <3> DEFINE n == WithList(R, "postponed", Later)
    <3>0. Later \in SUBSET Objects /\ "postponed" \in RunPcs
      BY DEF Objects, RunPcs
    <3>1. n \in RunRec /\ Quiet(R, n) /\ n.pc = "postponed" /\ n.todo = Later
      BY <1>0, <3>0, ListRec
    <3>2. Set(cur, n)
      BY <1>0, <1>5, <2>3 DEF ReapplyMutations, Set, To, WithList
    <3> QED BY <2>0, <2>1, <3>1, <3>2 DEF Ending
  <2> QED BY <2>2, <2>3
<1> QED BY <1>1, <1>2, <1>3, <1>4, <1>5

(* The state is loaded, and the task list fixed. *)
WithLoad(a, k) == [a EXCEPT !.pc = "sync", !.already = k, !.st = k]
WithTasks(a, sk, k) == [a EXCEPT !.pc = "tasks", !.skipped = sk, !.task = k]

LEMMA LoadRec ==
    ASSUME NEW a \in RunRec, NEW k \in [Tables -> SUBSET Nat]
    PROVE  LET n == WithLoad(a, k) IN
           /\ n \in RunRec /\ n.pc = "sync" /\ n.already = k /\ n.st = k
           /\ n.cmd = a.cmd /\ n.allowed = a.allowed /\ n.skipped = a.skipped /\ n.task = a.task
  BY DEF RunRec, RunPcs, WithLoad

LEMMA TasksRec ==
    ASSUME NEW a \in RunRec, NEW sk \in SUBSET (Tables \X Nat), NEW k \in [Tables -> TaskRec]
    PROVE  LET n == WithTasks(a, sk, k) IN
           /\ n \in RunRec /\ n.pc = "tasks" /\ n.already = a.already /\ n.st = a.st
           /\ n.cmd = a.cmd /\ n.allowed = a.allowed /\ n.skipped = sk /\ n.task = k
  BY DEF RunRec, RunPcs, WithTasks

Loading(n) ==
    /\ R.pc = "load" /\ n.pc = "sync" /\ UNCHANGED <<cur, tab, live, benign, staged, file, mutated, lost>>
    /\ n.cmd = R.cmd /\ n.allowed = R.allowed /\ n.skipped = R.skipped /\ n.task = R.task
    /\ n.st = n.already
    /\ \A t \in Tables :
          /\ ~R.cmd.resume => n.already[t] = {}
          /\ n.already[t] \subseteq Loaded[t] \cup Names(t)
          /\ t \notin R.allowed => n.already[t] = {}

LEMMA LoadedType == ASSUME StoreInv PROVE Loaded \in [Tables -> SUBSET Nat]
<1>1. CASE file # NoState /\ file.params = params_hash(cmd)
  <2>1. file \in FileRec
    BY <1>1 DEF StoreInv
  <2>2. file.attached \in [Tables -> SUBSET Nat]
    BY <2>1 DEF FileRec
  <2> QED BY <1>1, <2>2 DEF Loaded
<1>2. CASE ~(file # NoState /\ file.params = params_hash(cmd))
  <2>1. Loaded = [t \in Tables |-> {}]
    BY <1>2 DEF Loaded
  <2> QED BY <2>1
<1> QED BY <1>1, <1>2

LEMMA NamesType ==
    ASSUME StoreInv, NEW t \in Tables
    PROVE  Names(t) \subseteq Nat /\ Data(t) \subseteq Nat
  BY DEF StoreInv, Names, Data

LEMMA LoadShape ==
    ASSUME RunsInv, StoreInv, Active, NEW ts \in SUBSET Tables, LoadState(ts)
    PROVE  \E n \in RunRec : Set(cur, n) /\ Loading(n)
<1>0. R \in RunRec /\ cmd = R.cmd
  BY CurRec DEF Active
<1> DEFINE k == [t \in Tables |->
                   IF ~cmd.resume \/ t \notin R.allowed THEN {}
                   ELSE IF t \in ts THEN Loaded[t]
                   ELSE IF live[t] = {} THEN {} ELSE Loaded[t] \cup Names(t)]
<1>1. k \in [Tables -> SUBSET Nat]
  BY LoadedType, NamesType
<1>2. \A t \in Tables : /\ ~R.cmd.resume => k[t] = {}
                        /\ k[t] \subseteq Loaded[t] \cup Names(t)
                        /\ t \notin R.allowed => k[t] = {}
  BY <1>0
<1>3. Set(cur, WithLoad(R, k)) /\ R.pc = "load" /\ UNCHANGED <<cur, tab, live, benign, staged, file, mutated, lost>>
  BY DEF LoadState, Set, To, WithLoad
<1> HIDE DEF k
<1> QED BY <1>0, <1>1, <1>2, <1>3, LoadRec DEF Loading

Checking(n) ==
    /\ R.pc = "sync" /\ n.pc = "tasks" /\ UNCHANGED <<cur, tab, live, benign, staged, file, mutated, lost>>
    /\ n.cmd = R.cmd /\ n.allowed = R.allowed /\ n.st = R.st /\ n.already = R.already
    /\ R.skipped \subseteq n.skipped
    /\ \A t \in Tables :
          /\ n.task[t].unsaved = {} /\ n.task[t].pc \in {"none", "detach", "ready"}
          /\ n.task[t].pc = "detach" => t \in Planned(R.cmd)
          /\ t \in R.allowed /\ n.task[t].pc = "none" => Parts(t) \subseteq n.skipped

LEMMA PartsType == \A t \in Tables : Parts(t) \subseteq Tables \X Nat
  BY RestoreAssumption DEF Parts

LEMMA NoTaskType == NoTask \in TaskRec /\ NoTask.pc = "none" /\ NoTask.unsaved = {}
  BY DEF NoTask, TaskRec, TaskPcs

LEMMA CheckShape ==
    ASSUME RunsInv, StoreInv, Active, NEW ts \in SUBSET Tables, CheckReplicas(ts)
    PROVE  \E n \in RunRec : Set(cur, n) /\ Checking(n)
<1>0. R \in RunRec /\ cmd = R.cmd /\ R.skipped \subseteq Tables \X Nat
  BY CurRec DEF Active, RunRec
<1> DEFINE items == {t \in R.allowed \ ts : Blocks[t] # {}}
           sk == R.skipped \cup UNION {Parts(t) : t \in ts}
           T(p) == [NoTask EXCEPT !.pc = p]
           k == [t \in Tables |->
                   IF t \notin items THEN NoTask
                   ELSE [NoTask EXCEPT !.pc = IF t \in Planned(cmd) THEN "detach" ELSE "ready"]]
<1>1. sk \in SUBSET (Tables \X Nat)
  BY <1>0, PartsType
<1>2. ASSUME NEW p \in {"detach", "ready"}
      PROVE  T(p) \in TaskRec /\ T(p).pc = p /\ T(p).unsaved = {}
  BY DEF NoTask, TaskRec, TaskPcs
<1>3. \A t \in Tables : /\ k[t] \in TaskRec /\ k[t].unsaved = {} /\ k[t].pc \in {"none", "detach", "ready"}
                        /\ k[t].pc = "detach" => t \in Planned(R.cmd)
                        /\ k[t].pc = "none" => t \notin items
  <2> SUFFICES ASSUME NEW t \in Tables
               PROVE  /\ k[t] \in TaskRec /\ k[t].unsaved = {} /\ k[t].pc \in {"none", "detach", "ready"}
                      /\ k[t].pc = "detach" => t \in Planned(R.cmd)
                      /\ k[t].pc = "none" => t \notin items
    OBVIOUS
  <2>1. CASE t \notin items
    <3>1. k[t] = NoTask
      BY <2>1
    <3> QED BY <2>1, <3>1, NoTaskType
  <2>2. CASE t \in items /\ t \in Planned(cmd)
    <3>1. k[t] = T("detach")
      BY <2>2
    <3> HIDE DEF T, k
    <3> QED BY <1>0, <1>2, <2>2, <3>1
  <2>3. CASE t \in items /\ t \notin Planned(cmd)
    <3>1. k[t] = T("ready")
      BY <2>3
    <3> HIDE DEF T, k
    <3> QED BY <1>0, <1>2, <2>3, <3>1
  <2> QED BY <2>1, <2>2, <2>3
<1>4. k \in [Tables -> TaskRec]
  BY <1>3
<1>5. \A t \in Tables : t \in R.allowed /\ t \notin items => Parts(t) \subseteq sk
  <2> SUFFICES ASSUME NEW t \in Tables, t \in R.allowed, t \notin items PROVE Parts(t) \subseteq sk
    OBVIOUS
  <2>1. CASE t \in ts
    BY <2>1
  <2>2. CASE Blocks[t] = {}
    BY <2>2 DEF Parts
  <2> QED BY <2>1, <2>2
<1>6. Set(cur, WithTasks(R, sk, k)) /\ R.pc = "sync" /\ UNCHANGED <<cur, tab, live, benign, staged, file, mutated, lost>>
  BY DEF CheckReplicas, Set, To, WithTasks
<1>7. R.skipped \subseteq sk
  OBVIOUS
<1> HIDE DEF k, sk, items
<1>8. \A t \in Tables : /\ k[t].unsaved = {} /\ k[t].pc \in {"none", "detach", "ready"}
                        /\ k[t].pc = "detach" => t \in Planned(R.cmd)
                        /\ t \in R.allowed /\ k[t].pc = "none" => Parts(t) \subseteq sk
  BY <1>3, <1>5
<1> QED BY <1>0, <1>1, <1>4, <1>6, <1>7, <1>8, TasksRec DEF Checking

-----------------------------------------------------------------------------
(* What the steps of a task do *)

WithTask(a, t, k, sk, s) ==
    [a EXCEPT !.task = [a.task EXCEPT ![t] = k], !.skipped = sk, !.st = s]

(* n is a with another record of t's task. *)
Others(a, n, t) ==
    /\ n.pc = a.pc /\ n.cmd = a.cmd /\ n.allowed = a.allowed /\ n.already = a.already
    /\ a.skipped \subseteq n.skipped
    /\ \A u \in Tables : u # t => n.task[u] = a.task[u] /\ n.st[u] = a.st[u]

LEMMA TaskRecord ==
    ASSUME NEW a \in RunRec, NEW t \in Tables, NEW k \in TaskRec,
           NEW sk \in SUBSET (Tables \X Nat), NEW s \in [Tables -> SUBSET Nat],
           a.skipped \subseteq sk, \A u \in Tables : u # t => s[u] = a.st[u]
    PROVE  LET n == WithTask(a, t, k, sk, s) IN
           n \in RunRec /\ Others(a, n, t) /\ n.task[t] = k /\ n.skipped = sk /\ n.st = s
<1> DEFINE f == [a.task EXCEPT ![t] = k]
<1>1. f \in [Tables -> TaskRec] /\ f[t] = k /\ \A u \in Tables : u # t => f[u] = a.task[u]
  BY DEF RunRec
<1> HIDE DEF f
<1> DEFINE n == [a EXCEPT !.task = f, !.skipped = sk, !.st = s]
<1>2. /\ n \in RunRec /\ n.task = f /\ n.skipped = sk /\ n.st = s
      /\ n.pc = a.pc /\ n.cmd = a.cmd /\ n.allowed = a.allowed /\ n.already = a.already
  BY <1>1 DEF RunRec
<1>3. n = WithTask(a, t, k, sk, s)
  BY DEF WithTask, f
<1> HIDE DEF n
<1> QED BY <1>1, <1>2, <1>3 DEF Others

(* The same record, as the actions write it. *)
LEMMA TaskOnly ==
    ASSUME RunsInv, NEW r \in 1..MaxRuns, NEW t \in Tables, NEW k, SetTask(r, t, k)
    PROVE  Set(r, WithTask(run[r], t, k, run[r].skipped, run[r].st))
<1>1. run[r] \in RunRec
  BY DEF RunsInv
<1> DEFINE f == [run[r].task EXCEPT ![t] = k]
<1>2. [run[r] EXCEPT !.task = f] = [run[r] EXCEPT !.task = f, !.skipped = run[r].skipped, !.st = run[r].st]
  <2> HIDE DEF f
  <2> QED BY <1>1 DEF RunRec
<1> QED BY <1>2 DEF SetTask, Set, WithTask

SetBoth(r, t, k, d) == run' = [run EXCEPT ![r].task[t] = k, ![r].skipped = @ \cup d]

LEMMA TaskAndSkips ==
    ASSUME RunsInv, NEW r \in 1..MaxRuns, NEW t \in Tables, NEW k, NEW d, SetBoth(r, t, k, d)
    PROVE  Set(r, WithTask(run[r], t, k, run[r].skipped \cup d, run[r].st))
<1>1. run[r] \in RunRec /\ run \in [1..MaxRuns -> RunRec]
  BY DEF RunsInv
<1> DEFINE f == [run[r].task EXCEPT ![t] = k]
           a == [run[r] EXCEPT !.task = f]
           g == [run EXCEPT ![r] = a]
<1>2. a.skipped = run[r].skipped /\ a = [run[r] EXCEPT !.task = f, !.st = run[r].st]
  <2> HIDE DEF f
  <2> QED BY <1>1 DEF RunRec
<1>3. g[r] = a
  BY <1>1
<1>4. run' = [g EXCEPT ![r] = [g[r] EXCEPT !.skipped = g[r].skipped \cup d]]
  BY DEF SetBoth
<1>5. [a EXCEPT !.skipped = run[r].skipped \cup d] = WithTask(run[r], t, k, run[r].skipped \cup d, run[r].st)
  <2> HIDE DEF f
  <2>1. [a EXCEPT !.skipped = run[r].skipped \cup d] = [run[r] EXCEPT !.task = f, !.skipped = run[r].skipped \cup d, !.st = run[r].st]
    BY <1>1 DEF RunRec
  <2> QED BY <2>1 DEF f, WithTask
<1> HIDE DEF a
<1> DEFINE x == [a EXCEPT !.skipped = run[r].skipped \cup d]
<1>6. run' = [run EXCEPT ![r] = x]
  <2>1. [g[r] EXCEPT !.skipped = g[r].skipped \cup d] = x
    BY <1>2, <1>3
  <2> HIDE DEF x
  <2>2. [g EXCEPT ![r] = x] = [run EXCEPT ![r] = x]
    BY <1>1
  <2> QED BY <1>4, <2>1, <2>2
<1> QED BY <1>5, <1>6 DEF Set

LEMMA TaskAndState ==
    ASSUME RunsInv, NEW r \in 1..MaxRuns, NEW t \in Tables, NEW s, NEW b,
           run' = [run EXCEPT ![r].st = s, ![r].task[t].unsaved = @ \ {b}]
    PROVE  Set(r, WithTask(run[r], t, [run[r].task[t] EXCEPT !.unsaved = @ \ {b}], run[r].skipped, s))
<1>1. run[r] \in RunRec /\ run \in [1..MaxRuns -> RunRec]
  BY DEF RunsInv
<1> DEFINE a == [run[r] EXCEPT !.st = s]
           g == [run EXCEPT ![r] = a]
<1>2. a.task = run[r].task
  BY <1>1 DEF RunRec
<1>3. g[r] = a
  BY <1>1
<1>4. run' = [g EXCEPT ![r] = [g[r] EXCEPT !.task = [g[r].task EXCEPT ![t] = [g[r].task[t] EXCEPT !.unsaved = g[r].task[t].unsaved \ {b}]]]]
  OBVIOUS
<1> DEFINE f == [run[r].task EXCEPT ![t] = [run[r].task[t] EXCEPT !.unsaved = run[r].task[t].unsaved \ {b}]]
<1>5. [a EXCEPT !.task = f] = [run[r] EXCEPT !.task = f, !.skipped = run[r].skipped, !.st = s]
  <2> HIDE DEF f
  <2> QED BY <1>1 DEF RunRec
<1>6. run' = [run EXCEPT ![r] = [a EXCEPT !.task = f]]
  <2>1. [g[r].task EXCEPT ![t] = [g[r].task[t] EXCEPT !.unsaved = g[r].task[t].unsaved \ {b}]] = f
    BY <1>2, <1>3
  <2> HIDE DEF f, a
  <2> QED BY <1>1, <1>3, <1>4, <2>1
<1> QED BY <1>5, <1>6 DEF Set, WithTask

(* Two records of a task and the states of the parts. *)
LEMMA TaskType ==
    ASSUME RunsInv, NEW r \in 1..MaxRuns, NEW t \in Tables
    PROVE  /\ run[r] \in RunRec /\ run[r].task[t] \in TaskRec /\ Task(r, t) = run[r].task[t]
           /\ run[r].skipped \in SUBSET (Tables \X Nat) /\ run[r].st \in [Tables -> SUBSET Nat]
           /\ run[r].already \in [Tables -> SUBSET Nat] /\ run[r].cmd \in CmdRec
<1>1. run[r] \in RunRec
  BY DEF RunsInv
<1> QED BY <1>1 DEF RunRec, Task

TaskPc(k, p) == [k EXCEPT !.pc = p]

LEMMA PcTask ==
    ASSUME NEW k \in TaskRec, NEW p \in TaskPcs
    PROVE  LET m == TaskPc(k, p) IN
           m \in TaskRec /\ m.pc = p /\ m.work = k.work /\ m.unsaved = k.unsaved /\ m.bad = k.bad
  BY DEF TaskRec, TaskPc

(* A step that only moves the task on. *)
LEMMA StepShape ==
    ASSUME RunsInv, NEW r \in 1..MaxRuns, NEW t \in Tables, NEW p \in TaskPcs, Step(r, t, p)
    PROVE  \E n \in RunRec :
              /\ Set(r, n) /\ Others(run[r], n, t) /\ n.skipped = run[r].skipped /\ n.st = run[r].st
              /\ n.task[t].pc = p /\ n.task[t].work = run[r].task[t].work
              /\ n.task[t].unsaved = run[r].task[t].unsaved /\ n.task[t].bad = run[r].task[t].bad
<1> DEFINE k == TaskPc(run[r].task[t], p)
           n == WithTask(run[r], t, k, run[r].skipped, run[r].st)
<1>0. SetTask(r, t, k)
  BY DEF Step, TaskPc, Task
<1>1. /\ k \in TaskRec /\ k.pc = p /\ k.work = run[r].task[t].work
      /\ k.unsaved = run[r].task[t].unsaved /\ k.bad = run[r].task[t].bad
  BY TaskType, PcTask
<1> HIDE DEF k
<1>2. Set(r, n)
  BY <1>0, TaskOnly
<1>3. n \in RunRec /\ Others(run[r], n, t) /\ n.task[t] = k /\ n.skipped = run[r].skipped /\ n.st = run[r].st
  BY <1>1, TaskType, TaskRecord
<1> QED BY <1>1, <1>2, <1>3

(* The same with parts counted as skipped. *)
LEMMA SkipShape ==
    ASSUME RunsInv, NEW r \in 1..MaxRuns, NEW t \in Tables, NEW k \in TaskRec,
           NEW d \in SUBSET (Tables \X Nat), SetBoth(r, t, k, d)
    PROVE  \E n \in RunRec :
              /\ Set(r, n) /\ Others(run[r], n, t) /\ n.skipped = run[r].skipped \cup d
              /\ n.st = run[r].st /\ n.task[t] = k
<1> DEFINE n == WithTask(run[r], t, k, run[r].skipped \cup d, run[r].st)
<1>1. Set(r, n)
  BY TaskAndSkips
<1>2. run[r].skipped \cup d \in SUBSET (Tables \X Nat)
  BY TaskType
<1>3. n \in RunRec /\ Others(run[r], n, t) /\ n.task[t] = k /\ n.skipped = run[r].skipped \cup d /\ n.st = run[r].st
  BY <1>2, TaskType, TaskRecord
<1> QED BY <1>1, <1>3

(* ATTACH TABLE mode. *)
ModeMove(t, n) ==
    /\ R.pc = "tasks" /\ Others(R, n, t) /\ n.st = R.st /\ n.task[t].unsaved = R.task[t].unsaved
    /\ UNCHANGED <<cur, benign, staged, file, mutated, lost>>
    /\ \A u \in Tables : live[u] \subseteq live'[u] /\ (u # t => live'[u] = live[u])
    /\ \A o \in Objects : o # t => tab'[o] = tab[o]
    /\ \/ /\ R.task[t].pc \in {"detach", "link", "reattach"} /\ n.task[t].pc = "ready" /\ live' = live
          /\ tab'[t] = tab[t] \/ (R.task[t].pc = "reattach" /\ tab'[t] = "readonly")
       \/ /\ R.task[t].pc = "detach" /\ n.task[t].pc = "link" /\ tab'[t] = "detached" /\ live' = live
       \/ /\ R.task[t].pc = "link" /\ n.task[t].pc = "reattach" /\ tab'[t] = tab[t]
          /\ \A b \in Blocks[t] : <<t, b>> \in lost \/ b \in Names(t) \/ <<b, b>> \in live'[t]
       \/ /\ R.task[t].pc = "reattach" /\ n.task[t].pc = "done" /\ tab'[t] = "live" /\ live' = live
          /\ MissingOf(t) \subseteq n.skipped

LEMMA ModeShape ==
    ASSUME RunsInv, StoreInv, Active, NEW t \in Tables, DetachTable(t) \/ LinkParts(t) \/ AttachTable(t)
    PROVE  \E n \in RunRec : Set(cur, n) /\ ModeMove(t, n)
<1>0. R \in RunRec /\ cmd = R.cmd /\ cur \in 1..MaxRuns /\ R = run[cur]
  BY CurRec DEF Active
<1>s. ASSUME NEW p \in {"link", "ready", "reattach"}, Step(cur, t, p)
      PROVE  \E n \in RunRec :
              /\ Set(cur, n) /\ Others(R, n, t) /\ n.st = R.st
              /\ n.task[t].pc = p /\ n.task[t].unsaved = R.task[t].unsaved
  <2>1. p \in TaskPcs
    BY DEF TaskPcs
  <2> QED BY <1>0, <1>s, <2>1, StepShape
<1>t. t \in Objects /\ tab \in [Objects -> TabStates] /\ live \in [Tables -> SUBSET (Nat \X Nat)]
  BY DEF Objects, StoreInv
<1>1. CASE DetachTable(t)
  <2>0. R.pc = "tasks" /\ R.task[t].pc = "detach" /\ UNCHANGED <<cur, live, benign, staged, file, mutated, lost>>
    BY <1>1 DEF DetachTable, ModeStep
  <2>1. CASE tab' = [tab EXCEPT ![t] = "detached"] /\ Step(cur, t, "link")
    <3>1. PICK n \in RunRec : /\ Set(cur, n) /\ Others(R, n, t) /\ n.st = R.st
                              /\ n.task[t].pc = "link" /\ n.task[t].unsaved = R.task[t].unsaved
      BY <2>1, <1>s
    <3>2. tab'[t] = "detached" /\ \A o \in Objects : o # t => tab'[o] = tab[o]
      BY <1>t, <2>1
    <3> QED BY <2>0, <3>1, <3>2 DEF ModeMove
  <2>2. CASE UNCHANGED tab /\ Step(cur, t, "ready")
    <3>1. PICK n \in RunRec : /\ Set(cur, n) /\ Others(R, n, t) /\ n.st = R.st
                              /\ n.task[t].pc = "ready" /\ n.task[t].unsaved = R.task[t].unsaved
      BY <2>2, <1>s
    <3> QED BY <2>0, <2>2, <3>1 DEF ModeMove
  <2> QED BY <1>1, <2>1, <2>2 DEF DetachTable
<1>2. CASE LinkParts(t)
  <2>0. R.pc = "tasks" /\ R.task[t].pc = "link" /\ UNCHANGED <<cur, tab, benign, staged, file, mutated, lost>>
    BY <1>2 DEF LinkParts, ModeStep
  <2> DEFINE new == {<<b, b>> : b \in {b \in Blocks[t] : <<t, b>> \notin lost /\ b \notin Names(t)}}
  <2>1. CASE live' = [live EXCEPT ![t] = @ \cup new] /\ Step(cur, t, "reattach")
    <3>1. PICK n \in RunRec : /\ Set(cur, n) /\ Others(R, n, t) /\ n.st = R.st
                              /\ n.task[t].pc = "reattach" /\ n.task[t].unsaved = R.task[t].unsaved
      BY <2>1, <1>s
    <3>2. \A b \in Blocks[t] : <<t, b>> \in lost \/ b \in Names(t) \/ <<b, b>> \in new
      OBVIOUS
    <3> HIDE DEF new
    <3>3. live'[t] = live[t] \cup new /\ \A u \in Tables : u # t => live'[u] = live[u]
      BY <1>t, <2>1
    <3> QED BY <2>0, <3>1, <3>2, <3>3 DEF ModeMove
  <2>2. CASE UNCHANGED live /\ Step(cur, t, "ready")
    <3>1. PICK n \in RunRec : /\ Set(cur, n) /\ Others(R, n, t) /\ n.st = R.st
                              /\ n.task[t].pc = "ready" /\ n.task[t].unsaved = R.task[t].unsaved
      BY <2>2, <1>s
    <3> QED BY <2>0, <2>2, <3>1 DEF ModeMove
  <2> QED BY <1>2, <2>1, <2>2 DEF LinkParts
<1>3. CASE AttachTable(t)
  <2>0. R.pc = "tasks" /\ R.task[t].pc = "reattach" /\ UNCHANGED <<cur, live, benign, staged, file, mutated, lost>>
    BY <1>3 DEF AttachTable, ModeStep
  <2>1. CASE /\ tab' = [tab EXCEPT ![t] = "live"]
             /\ run' = [run EXCEPT ![cur].task[t].pc = "done", ![cur].skipped = @ \cup MissingOf(t)]
    <3> DEFINE k == TaskPc(run[cur].task[t], "done")
    <3>0. SetBoth(cur, t, k, MissingOf(t))
      BY <2>1 DEF TaskPc, SetBoth
    <3>1. "done" \in TaskPcs
      BY DEF TaskPcs
    <3>2. k \in TaskRec /\ k.pc = "done" /\ k.unsaved = run[cur].task[t].unsaved
      BY <1>0, <3>1, TaskType, PcTask
    <3>3. MissingOf(t) \in SUBSET (Tables \X Nat)
      BY PartsType DEF MissingOf
    <3> HIDE DEF k
    <3>4. PICK n \in RunRec : /\ Set(cur, n) /\ Others(R, n, t) /\ n.skipped = R.skipped \cup MissingOf(t)
                              /\ n.st = R.st /\ n.task[t] = k
      BY <1>0, <3>0, <3>2, <3>3, SkipShape
    <3>5. tab'[t] = "live" /\ \A o \in Objects : o # t => tab'[o] = tab[o]
      BY <1>t, <2>1
    <3> QED BY <1>0, <2>0, <3>2, <3>4, <3>5 DEF ModeMove
  <2>2. CASE /\ Step(cur, t, "ready")
             /\ tab' = [tab EXCEPT ![t] = "readonly"] \/ UNCHANGED tab
    <3>1. PICK n \in RunRec : /\ Set(cur, n) /\ Others(R, n, t) /\ n.st = R.st
                              /\ n.task[t].pc = "ready" /\ n.task[t].unsaved = R.task[t].unsaved
      BY <2>2, <1>s
    <3>2. /\ tab'[t] = tab[t] \/ tab'[t] = "readonly"
          /\ \A o \in Objects : o # t => tab'[o] = tab[o]
      BY <1>t, <2>2
    <3> QED BY <2>0, <3>1, <3>2 DEF ModeMove
  <2> QED BY <1>3, <2>1, <2>2 DEF AttachTable
<1> QED BY <1>1, <1>2, <1>3

(* The parts of a table are not fewer after the step. *)
Grows(t) == live[t] \subseteq live'[t] /\ benign[t] \subseteq benign'[t]

(* The task of one table, of the present restore or of a killed one. *)
TaskMove(r, t, n) ==
    LET a == run[r]  k == run[r].task[t]  m == n.task[t] IN
    /\ a.pc \in {"tasks", "killed"} /\ Others(a, n, t) /\ UNCHANGED <<cur, tab, mutated, lost>>
    /\ \A u \in Tables : /\ Grows(u)
                         /\ (live'[u] = live[u] /\ benign'[u] = benign[u]) \/ tab[u] = "live"
    /\ n.st[t] \subseteq a.st[t] \cup k.unsaved
    /\ a.cmd.resume \/ m.unsaved \subseteq k.unsaved
    /\ \A b \in m.unsaved : b \in k.unsaved \/ b \in Has(t)'
    /\ file' = file \/ file' = [params |-> params_hash(a.cmd), attached |-> n.st]
    /\ \/ m.pc = "err"
       \/ m.pc = "done" /\ a.pc = "killed"
       \/ m.pc \in {"s3", "stage"}
       \/ /\ m.pc = "attach" /\ k.pc = "stage"
          /\ \A b \in Blocks[t] : b \in a.already[t] \/ b \in m.work \/ <<t, b>> \in n.skipped
       \/ m.pc = k.pc /\ m.work = k.work /\ m.bad = k.bad
       \/ /\ m.pc = "attach" /\ k.pc = "attach"
          /\ \/ m.bad
             \/ /\ ~k.bad
                /\ \A b \in k.work : b \in m.work \/ <<t, b>> \in n.skipped \/ b \in Has(t)'
       \/ m.pc = "done" /\ k.pc = "attach" /\ k.work = {} /\ ~k.bad

LEMMA PutShape ==
    ASSUME RunsInv, NEW r \in 1..MaxRuns, NEW t \in Tables, NEW k \in TaskRec, SetTask(r, t, k)
    PROVE  \E n \in RunRec :
              /\ Set(r, n) /\ Others(run[r], n, t) /\ n.skipped = run[r].skipped
              /\ n.st = run[r].st /\ n.task[t] = k
<1> DEFINE n == WithTask(run[r], t, k, run[r].skipped, run[r].st)
<1>1. Set(r, n)
  BY TaskOnly
<1>2. n \in RunRec /\ Others(run[r], n, t) /\ n.task[t] = k /\ n.skipped = run[r].skipped /\ n.st = run[r].st
  BY TaskType, TaskRecord
<1> QED BY <1>1, <1>2

(* StartTask, RestoreS3, TaskEnds: the task moves on and nothing else. *)
LEMMA MoveShape ==
    ASSUME RunsInv, NEW r \in 1..MaxRuns, NEW t \in Tables,
           StartTask(r, t) \/ RestoreS3(r, t) \/ TaskEnds(r, t)
    PROVE  \E n \in RunRec : Set(r, n) /\ TaskMove(r, t, n)
<1>t. /\ run[r] \in RunRec /\ run[r].task[t] \in TaskRec /\ Task(r, t) = run[r].task[t]
  BY TaskType
<1>s. ASSUME NEW p \in {"done", "err", "s3", "stage"}, Step(r, t, p)
      PROVE  \E n \in RunRec :
              /\ Set(r, n) /\ Others(run[r], n, t) /\ n.skipped = run[r].skipped /\ n.st = run[r].st
              /\ n.task[t].pc = p /\ n.task[t].work = run[r].task[t].work
              /\ n.task[t].unsaved = run[r].task[t].unsaved /\ n.task[t].bad = run[r].task[t].bad
  <2>1. p \in TaskPcs
    BY DEF TaskPcs
  <2> QED BY <1>s, <2>1, StepShape
<1>1. CASE StartTask(r, t)
  <2> DEFINE p == IF run[r].pc = "killed" THEN "done" ELSE IF t \in S3Tables THEN "s3" ELSE "stage"
  <2>0. /\ run[r].pc \in {"tasks", "killed"} /\ Step(r, t, p)
        /\ UNCHANGED <<cur, tab, live, benign, file, mutated, lost>>
    BY <1>1 DEF StartTask, Runnable
  <2>1. p \in {"done", "s3", "stage"} /\ (p = "done" => run[r].pc = "killed")
    OBVIOUS
  <2> HIDE DEF p
  <2>2. PICK n \in RunRec : /\ Set(r, n) /\ Others(run[r], n, t) /\ n.st = run[r].st
              /\ n.task[t].pc = p /\ n.task[t].unsaved = run[r].task[t].unsaved
    BY <2>0, <2>1, <1>s
  <2> QED BY <2>0, <2>1, <2>2 DEF TaskMove, Grows
<1>2. CASE RestoreS3(r, t)
  <2>0. /\ run[r].pc \in {"tasks", "killed"}
        /\ UNCHANGED <<cur, tab, live, benign, file, mutated, lost>>
    BY <1>2 DEF RestoreS3, Runnable
  <2>1. ASSUME NEW p \in {"stage", "err"}, Step(r, t, p)
        PROVE  \E n \in RunRec : Set(r, n) /\ TaskMove(r, t, n)
    <3>1. PICK n \in RunRec : /\ Set(r, n) /\ Others(run[r], n, t) /\ n.st = run[r].st
              /\ n.task[t].pc = p /\ n.task[t].unsaved = run[r].task[t].unsaved
      BY <2>1, <1>s
    <3> QED BY <2>0, <2>1, <3>1 DEF TaskMove, Grows
  <2> DEFINE d == {<<t, b>> : b \in Blocks[t] \ S3Copied(t)}
             k == TaskPc(run[r].task[t], "stage")
  <2>2. CASE SetBoth(r, t, k, d)
    <3>1. d \in SUBSET (Tables \X Nat)
      BY RestoreAssumption
    <3>2. "stage" \in TaskPcs
      BY DEF TaskPcs
    <3>3. k \in TaskRec /\ k.pc = "stage" /\ k.unsaved = run[r].task[t].unsaved
      BY <1>t, <3>2, PcTask
    <3> HIDE DEF d, k
    <3>4. PICK n \in RunRec : /\ Set(r, n) /\ Others(run[r], n, t)
                              /\ n.st = run[r].st /\ n.task[t] = k
      BY <2>2, <3>1, <3>3, SkipShape
    <3> QED BY <2>0, <3>3, <3>4 DEF TaskMove, Grows
  <2>3. \/ Step(r, t, "stage") \/ Step(r, t, "err") \/ SetBoth(r, t, k, d)
    BY <1>2 DEF RestoreS3, SetBoth, TaskPc
  <2> QED BY <2>1, <2>2, <2>3
<1>3. CASE TaskEnds(r, t)
  <2> DEFINE p == IF run[r].task[t].bad THEN "err" ELSE "done"
  <2>0. /\ run[r].pc \in {"tasks", "killed"} /\ Step(r, t, p)
        /\ run[r].task[t].pc = "attach" /\ run[r].task[t].work = {}
        /\ UNCHANGED <<cur, tab, live, benign, file, mutated, lost>>
    BY <1>3, <1>t DEF TaskEnds, Runnable
  <2>1. p \in {"done", "err"} /\ (p = "done" => ~run[r].task[t].bad)
    OBVIOUS
  <2> HIDE DEF p
  <2>2. PICK n \in RunRec : /\ Set(r, n) /\ Others(run[r], n, t) /\ n.st = run[r].st
              /\ n.task[t].pc = p /\ n.task[t].unsaved = run[r].task[t].unsaved
    BY <2>0, <2>1, <1>s
  <2> QED BY <2>0, <2>1, <2>2 DEF TaskMove, Grows
<1> QED BY <1>1, <1>2, <1>3

LEMMA StageShape ==
    ASSUME RunsInv, NEW r \in 1..MaxRuns, NEW t \in Tables, Stage(r, t)
    PROVE  \E n \in RunRec : Set(r, n) /\ TaskMove(r, t, n)
<1>t. /\ run[r] \in RunRec /\ run[r].task[t] \in TaskRec /\ Task(r, t) = run[r].task[t]
  BY TaskType
<1>0. /\ run[r].pc \in {"tasks", "killed"} /\ run[r].task[t].pc = "stage"
      /\ UNCHANGED <<cur, tab, live, benign, file, mutated, lost>>
  BY <1>t DEF Stage, Runnable
<1> DEFINE todo == Blocks[t] \ run[r].already[t]
           gone == IF t \in S3Tables THEN {} ELSE {b \in todo : <<t, b>> \in lost}
           w == todo \ gone
           k == [run[r].task[t] EXCEPT !.pc = "attach", !.work = w]
           d == {<<t, b>> : b \in gone}
<1>1. SetBoth(r, t, k, d) \/ Step(r, t, "err")
  BY DEF Stage, SetBoth
<1>2. CASE Step(r, t, "err")
  <2>1. "err" \in TaskPcs
    BY DEF TaskPcs
  <2>2. PICK n \in RunRec : /\ Set(r, n) /\ Others(run[r], n, t) /\ n.st = run[r].st
              /\ n.task[t].pc = "err" /\ n.task[t].unsaved = run[r].task[t].unsaved
    BY <1>2, <2>1, StepShape
  <2> QED BY <1>0, <2>2 DEF TaskMove, Grows
<1>3. CASE SetBoth(r, t, k, d)
  <2>0. todo \subseteq Nat /\ gone \subseteq todo
    BY RestoreAssumption
  <2>1. d \in SUBSET (Tables \X Nat) /\ w \in SUBSET Nat
    <3> HIDE DEF todo, gone
    <3> QED BY <2>0
  <2>2. \A b \in Blocks[t] : b \in run[r].already[t] \/ b \in w \/ <<t, b>> \in d
    OBVIOUS
  <2> HIDE DEF d, w
  <2>3. k \in TaskRec /\ k.pc = "attach" /\ k.work = w /\ k.unsaved = run[r].task[t].unsaved
    BY <1>t, <2>1 DEF TaskRec, TaskPcs
  <2> HIDE DEF k
  <2>4. PICK n \in RunRec : /\ Set(r, n) /\ Others(run[r], n, t) /\ n.skipped = run[r].skipped \cup d
                            /\ n.st = run[r].st /\ n.task[t] = k
    BY <1>3, <2>1, <2>3, SkipShape
  <2> QED BY <1>0, <2>2, <2>3, <2>4 DEF TaskMove, Grows
<1> QED BY <1>1, <1>2, <1>3

LEMMA AttachedShape ==
    ASSUME StoreInv, NEW t \in Tables, NEW b, Attached(t, b)
    PROVE  /\ \A u \in Tables : live[u] \subseteq live'[u] /\ (u # t => live'[u] = live[u])
           /\ b \in Has(t)'
<1>1. live \in [Tables -> SUBSET (Nat \X Nat)] /\ live' = [live EXCEPT ![t] = @ \cup {<<NextBlock(t), b>>}]
  BY DEF StoreInv, Attached
<1>2. live'[t] = live[t] \cup {<<NextBlock(t), b>>} /\ \A u \in Tables : u # t => live'[u] = live[u]
  BY <1>1
<1>3. <<NextBlock(t), b>> \in live'[t] /\ <<NextBlock(t), b>>[2] = b
  BY <1>2
<1> QED BY <1>2, <1>3 DEF Has, Data

LEMMA AttachShape ==
    ASSUME RunsInv, StoreInv, NEW r \in 1..MaxRuns, NEW t \in Tables, NEW b \in Blocks[t],
           AttachPart(r, t, b) \/ AttachMissing(r, t, b) \/ AttachBenign(r, t, b) \/ AttachUnknown(r, t, b)
    PROVE  \E n \in RunRec : Set(r, n) /\ TaskMove(r, t, n)
<1>t. /\ run[r] \in RunRec /\ run[r].task[t] \in TaskRec /\ Task(r, t) = run[r].task[t]
  BY TaskType
<1>b. b \in Nat /\ run[r].task[t].work \subseteq Nat /\ run[r].task[t].unsaved \subseteq Nat
      /\ run[r].task[t].bad \in BOOLEAN
  BY <1>t, RestoreAssumption DEF TaskRec
<1>0. /\ run[r].pc \in {"tasks", "killed"} /\ run[r].task[t].pc = "attach" /\ b \in run[r].task[t].work
      /\ UNCHANGED <<cur, tab, file, mutated, lost>>
  BY <1>t DEF AttachPart, AttachMissing, AttachBenign, AttachUnknown, Ready, Runnable
<1>1. CASE AttachPart(r, t, b)
  <2> DEFINE u == IF run[r].cmd.resume THEN run[r].task[t].unsaved \cup {b} ELSE run[r].task[t].unsaved
             w == run[r].task[t].work \ {b}
             k == [run[r].task[t] EXCEPT !.work = w, !.unsaved = u]
  <2>1. SetTask(r, t, k) /\ Attached(t, b) /\ tab[t] = "live" /\ benign' = benign
    BY <1>1, <1>t DEF AttachPart
  <2>2. /\ u \in SUBSET Nat /\ w \in SUBSET Nat /\ u \subseteq run[r].task[t].unsaved \cup {b}
        /\ (run[r].cmd.resume \/ u \subseteq run[r].task[t].unsaved)
    BY <1>b
  <2>2a. \A c \in run[r].task[t].work : c \in w \/ c = b
    OBVIOUS
  <2> HIDE DEF u, w
  <2>3. k \in TaskRec /\ k.pc = "attach" /\ k.work = w /\ k.unsaved = u /\ k.bad = run[r].task[t].bad
    BY <1>0, <1>t, <2>2 DEF TaskRec
  <2> HIDE DEF k
  <2>4. PICK n \in RunRec : /\ Set(r, n) /\ Others(run[r], n, t)
                            /\ n.st = run[r].st /\ n.task[t] = k
    BY <2>1, <2>3, PutShape
  <2>5. /\ \A v \in Tables : live[v] \subseteq live'[v] /\ (v # t => live'[v] = live[v])
        /\ b \in Has(t)'
    BY <2>1, AttachedShape
  <2>6. \A c \in run[r].task[t].work : c \in n.task[t].work \/ c \in Has(t)'
    BY <2>2a, <2>3, <2>4, <2>5
  <2>7. \A c \in n.task[t].unsaved : c \in run[r].task[t].unsaved \/ c \in Has(t)'
    BY <2>2, <2>3, <2>4, <2>5
  <2>8. n.task[t].bad \/ ~run[r].task[t].bad
    BY <2>3, <2>4
  <2>9. /\ \A v \in Tables : /\ Grows(v)
                             /\ (live'[v] = live[v] /\ benign'[v] = benign[v]) \/ tab[v] = "live"
        /\ run[r].cmd.resume \/ n.task[t].unsaved \subseteq run[r].task[t].unsaved
    BY <2>1, <2>2, <2>3, <2>4, <2>5 DEF Grows
  <2> QED BY <1>0, <2>3, <2>4, <2>6, <2>7, <2>8, <2>9 DEF TaskMove
<1>2. CASE AttachMissing(r, t, b)
  <2> DEFINE w == run[r].task[t].work \ {b}
             k == [run[r].task[t] EXCEPT !.work = w]
             d == {<<t, b>>}
  <2>1. SetBoth(r, t, k, d) /\ live' = live /\ benign' = benign
    BY <1>2, <1>t DEF AttachMissing, SetBoth
  <2>2. w \in SUBSET Nat /\ d \in SUBSET (Tables \X Nat) /\ <<t, b>> \in d
    BY <1>b
  <2>2a. \A c \in run[r].task[t].work : c \in w \/ c = b
    OBVIOUS
  <2> HIDE DEF w, d
  <2>3. /\ k \in TaskRec /\ k.pc = "attach" /\ k.work = w /\ k.unsaved = run[r].task[t].unsaved
        /\ k.bad = run[r].task[t].bad
    BY <1>0, <1>t, <2>2 DEF TaskRec
  <2> HIDE DEF k
  <2>4. PICK n \in RunRec : /\ Set(r, n) /\ Others(run[r], n, t) /\ n.skipped = run[r].skipped \cup d
                            /\ n.st = run[r].st /\ n.task[t] = k
    BY <2>1, <2>2, <2>3, SkipShape
  <2> QED BY <1>0, <2>1, <2>2, <2>2a, <2>3, <2>4 DEF TaskMove, Grows
<1>3. CASE AttachUnknown(r, t, b)
  <2> DEFINE w == IF t \in Sequential THEN {} ELSE run[r].task[t].work \ {b}
             k == [run[r].task[t] EXCEPT !.bad = TRUE, !.work = w]
  <2>1. SetTask(r, t, k) /\ benign' = benign /\ (live' = live \/ (tab[t] = "live" /\ Attached(t, b)))
    BY <1>3, <1>t DEF AttachUnknown
  <2>2. w \in SUBSET Nat
    BY <1>b
  <2> HIDE DEF w
  <2>3. k \in TaskRec /\ k.pc = "attach" /\ k.bad = TRUE /\ k.unsaved = run[r].task[t].unsaved
    BY <1>0, <1>t, <2>2 DEF TaskRec
  <2> HIDE DEF k
  <2>4. PICK n \in RunRec : /\ Set(r, n) /\ Others(run[r], n, t)
                            /\ n.st = run[r].st /\ n.task[t] = k
    BY <2>1, <2>3, PutShape
  <2>5. \A v \in Tables : /\ Grows(v)
                          /\ (live'[v] = live[v] /\ benign'[v] = benign[v]) \/ tab[v] = "live"
    BY <2>1, AttachedShape DEF Grows
  <2> QED BY <1>0, <2>3, <2>4, <2>5 DEF TaskMove
<1>4. CASE AttachBenign(r, t, b)
  <2> DEFINE w == run[r].task[t].work \ {b}
             k == [run[r].task[t] EXCEPT !.work = w]
  <2>1. /\ SetTask(r, t, k) /\ live' = live /\ tab[t] = "live"
        /\ benign' = [benign EXCEPT ![t] = @ \cup {b}]
    BY <1>4, <1>t DEF AttachBenign
  <2>2. w \in SUBSET Nat
    BY <1>b
  <2>2a. \A c \in run[r].task[t].work : c \in w \/ c = b
    OBVIOUS
  <2> HIDE DEF w
  <2>3. /\ k \in TaskRec /\ k.pc = "attach" /\ k.work = w /\ k.unsaved = run[r].task[t].unsaved
        /\ k.bad = run[r].task[t].bad
    BY <1>0, <1>t, <2>2 DEF TaskRec
  <2> HIDE DEF k
  <2>4. PICK n \in RunRec : /\ Set(r, n) /\ Others(run[r], n, t)
                            /\ n.st = run[r].st /\ n.task[t] = k
    BY <2>1, <2>3, PutShape
  <2>5. benign'[t] = benign[t] \cup {b} /\ \A v \in Tables : v # t => benign'[v] = benign[v]
    BY <2>1 DEF StoreInv
  <2>6. \A v \in Tables : /\ Grows(v)
                          /\ (live'[v] = live[v] /\ benign'[v] = benign[v]) \/ tab[v] = "live"
    BY <2>1, <2>5 DEF Grows
  <2>7. \A c \in run[r].task[t].work : c \in n.task[t].work \/ c \in Has(t)'
    BY <2>2a, <2>3, <2>4, <2>5 DEF Has
  <2>8. n.task[t].bad \/ ~run[r].task[t].bad
    BY <2>3, <2>4
  <2> QED BY <1>0, <2>3, <2>4, <2>6, <2>7, <2>8 DEF TaskMove
<1> QED BY <1>1, <1>2, <1>3, <1>4

LEMMA SaveShape ==
    ASSUME RunsInv, StoreInv, NEW r \in 1..MaxRuns, NEW t \in Tables, NEW b \in Blocks[t],
           SaveAttached(r, t, b)
    PROVE  \E n \in RunRec : Set(r, n) /\ TaskMove(r, t, n)
<1>t. /\ run[r] \in RunRec /\ run[r].task[t] \in TaskRec /\ Task(r, t) = run[r].task[t]
      /\ run[r].skipped \in SUBSET (Tables \X Nat) /\ run[r].st \in [Tables -> SUBSET Nat]
  BY TaskType
<1>b. b \in Nat /\ run[r].task[t].unsaved \subseteq Nat
  BY <1>t, RestoreAssumption DEF TaskRec
<1> DEFINE s == [run[r].st EXCEPT ![t] = @ \cup {b}]
           u == run[r].task[t].unsaved \ {b}
           k == [run[r].task[t] EXCEPT !.unsaved = u]
           n == WithTask(run[r], t, k, run[r].skipped, s)
<1>0. /\ run[r].pc \in {"tasks", "killed"} /\ b \in run[r].task[t].unsaved
      /\ UNCHANGED <<cur, tab, live, benign, mutated, lost>>
      /\ file' = file \/ file' = [params |-> params_hash(run[r].cmd), attached |-> s]
  BY <1>t DEF SaveAttached, Runnable
<1>1. Set(r, n)
  <2>1. run' = [run EXCEPT ![r].st = s, ![r].task[t].unsaved = @ \ {b}]
    BY DEF SaveAttached
  <2> HIDE DEF s
  <2> QED BY <2>1, TaskAndState
<1>2. /\ s \in [Tables -> SUBSET Nat] /\ s[t] = run[r].st[t] \cup {b}
      /\ \A v \in Tables : v # t => s[v] = run[r].st[v]
  BY <1>t, <1>b
<1>3. u \in SUBSET Nat /\ u \subseteq run[r].task[t].unsaved
  BY <1>b
<1> HIDE DEF s, u
<1>4. /\ k \in TaskRec /\ k.pc = run[r].task[t].pc /\ k.work = run[r].task[t].work
      /\ k.bad = run[r].task[t].bad /\ k.unsaved = u
  BY <1>t, <1>3 DEF TaskRec
<1> HIDE DEF k
<1>5. n \in RunRec /\ Others(run[r], n, t) /\ n.task[t] = k /\ n.st = s
  BY <1>t, <1>2, <1>4, TaskRecord
<1> HIDE DEF n
<1> QED BY <1>0, <1>1, <1>2, <1>3, <1>4, <1>5 DEF TaskMove, Grows

-----------------------------------------------------------------------------
(* The first step of a restore, the crash, and all steps together *)

Starting(n) ==
    /\ cur < MaxRuns /\ (cur > 0 => R.pc \in Ended) /\ cur' = cur + 1
    /\ n.pc \in {"drop", "databases", "load"} /\ (n.pc = "load" => n.cmd.kind = "data")
    /\ n.allowed \subseteq n.cmd.sel
    /\ \A t \in n.cmd.sel \ n.allowed : Parts(t) # {} /\ Parts(t) \subseteq n.skipped
    /\ \A t \in Tables : n.st[t] = {} /\ n.task[t].unsaved = {}
    /\ UNCHANGED <<tab, live, benign, staged, file, mutated, lost, faults>>

WithStart(c, al, u, sk) ==
    [NoRun EXCEPT !.pc = First(c), !.cmd = c, !.allowed = al, !.todo = u, !.skipped = sk]

LEMMA NoRunType ==
    NoRun \in RunRec /\ \A t \in Tables : NoRun.st[t] = {} /\ NoRun.task[t].unsaved = {}
<1>1. [t \in Tables |-> {}] \in [Tables -> SUBSET Nat] /\ [t \in Tables |-> NoTask] \in [Tables -> TaskRec]
  BY NoTaskType
<1>2. [rm |-> FALSE, resume |-> FALSE, kind |-> "full", sel |-> {}] \in CmdRec
  BY DEF CmdRec, Kinds
<1>3. {} \in SUBSET Tables /\ {} \in SUBSET Objects /\ 0 \in Nat /\ {} \in SUBSET (Tables \X Nat) /\ FALSE \in BOOLEAN
      /\ "idle" \in RunPcs
  BY DEF RunPcs
<1>4. NoRun \in RunRec
  BY <1>1, <1>2, <1>3 DEF NoRun, RunRec
<1>5. NoRun.st = [t \in Tables |-> {}] /\ NoRun.task = [t \in Tables |-> NoTask]
  BY DEF NoRun
<1> QED BY <1>4, <1>5, NoTaskType

LEMMA StartRec ==
    ASSUME NEW c \in CmdRec, NEW al \in SUBSET Tables, NEW u \in SUBSET Objects,
           NEW sk \in SUBSET (Tables \X Nat)
    PROVE  LET n == WithStart(c, al, u, sk) IN
           /\ n \in RunRec /\ n.pc = First(c) /\ n.cmd = c /\ n.allowed = al /\ n.skipped = sk
           /\ n.st = NoRun.st /\ n.task = NoRun.task
<1>1. First(c) \in RunPcs
  BY DEF First, RunPcs
<1> QED BY <1>1, NoRunType DEF WithStart, RunRec

LEMMA StartShape ==
    ASSUME RunsInv, NEW c \in Commands, Begin(c)
    PROVE  \E n \in RunRec : Set(cur + 1, n) /\ Starting(n) /\ n.cmd = c
<1>1. c \in CmdRec /\ c.sel \subseteq Tables /\ c.kind \in Kinds
  BY RestoreAssumption DEF CmdRec
<1> DEFINE al == c.sel \ Refused(c)
           u == IF First(c) = "drop" THEN c.sel \cup Later \cup Views ELSE {}
           sk == UNION {Parts(t) : t \in Refused(c)}
           n == WithStart(c, al, u, sk)
<1>2. al \in SUBSET Tables /\ u \in SUBSET Objects
  BY <1>1 DEF Objects
<1>3. Refused(c) \subseteq c.sel /\ \A t \in Refused(c) : Parts(t) # {}
  BY DEF Refused, Planned, MissingOf
<1>4. sk \in SUBSET (Tables \X Nat)
  BY <1>1, <1>3, PartsType
<1>5. al \subseteq c.sel /\ \A t \in c.sel \ al : Parts(t) # {} /\ Parts(t) \subseteq sk
  BY <1>3
<1>6. Set(cur + 1, n)
  BY DEF Begin, Set, WithStart
<1> HIDE DEF al, u, sk
<1>7. /\ n \in RunRec /\ n.pc = First(c) /\ n.cmd = c /\ n.allowed = al /\ n.skipped = sk
      /\ n.st = NoRun.st /\ n.task = NoRun.task
  BY <1>1, <1>2, <1>4, StartRec
<1>8. First(c) \in {"drop", "databases", "load"} /\ (First(c) = "load" => c.kind = "data")
  BY DEF First
<1> HIDE DEF n
<1>9. /\ cur < MaxRuns /\ (cur > 0 => R.pc \in Ended) /\ cur' = cur + 1
      /\ UNCHANGED <<tab, live, benign, staged, file, mutated, lost, faults>>
  BY DEF Begin
<1> QED BY <1>5, <1>6, <1>7, <1>8, <1>9, NoRunType DEF Starting

Crashed ==
    /\ cur > 0 /\ R.pc \notin Ended /\ UNCHANGED <<cur, tab, live, benign, staged, file, mutated, lost, faults>>
    /\ run' \in [1..MaxRuns -> RunRec]
    /\ \A r \in 1..MaxRuns :
          /\ run'[r].pc = IF r = cur THEN "dead" ELSE run[r].pc
          /\ run'[r].cmd = run[r].cmd /\ run'[r].allowed = run[r].allowed
          /\ run'[r].skipped = run[r].skipped /\ run'[r].st = run[r].st
          /\ \A t \in Tables : run'[r].task[t].unsaved = {}

LEMMA CrashShape ==
    ASSUME RunsInv, Crash
    PROVE  Crashed
<1> DEFINE none == [t \in Tables |-> NoTask]
           P(r) == IF r = cur THEN "dead" ELSE run[r].pc
           n(r) == [run[r] EXCEPT !.pc = P(r), !.task = none]
<1>1. none \in [Tables -> TaskRec] /\ \A t \in Tables : none[t].unsaved = {}
  BY NoTaskType
<1> HIDE DEF none
<1>2. ASSUME NEW r \in 1..MaxRuns
      PROVE  /\ n(r) \in RunRec /\ n(r).pc = P(r) /\ n(r).cmd = run[r].cmd
             /\ n(r).allowed = run[r].allowed /\ n(r).skipped = run[r].skipped
             /\ n(r).st = run[r].st /\ n(r).task = none
  <2>1. run[r] \in RunRec
    BY DEF RunsInv
  <2>2. P(r) \in RunPcs
    BY <2>1 DEF RunRec, RunPcs, Ended
  <2> HIDE DEF P
  <2> QED BY <1>1, <2>1, <2>2 DEF RunRec
<1>3. run' = [r \in 1..MaxRuns |-> n(r)]
  BY DEF Crash, none
<1>4. cur > 0 /\ R.pc \notin Ended /\ UNCHANGED <<cur, tab, live, benign, staged, file, mutated, lost, faults>>
  BY DEF Crash, Active
<1> HIDE DEF n
<1>5. run' \in [1..MaxRuns -> RunRec] /\ \A r \in 1..MaxRuns : run'[r] = n(r)
  BY <1>2, <1>3
<1> QED BY <1>1, <1>2, <1>4, <1>5 DEF Crashed

(* A step of the present restore, and one of a task. *)
Moving ==
    \E n \in RunRec :
        /\ cur > 0 /\ R.pc \notin Ended /\ Set(cur, n)
        /\ \/ Dropping(n) \/ Building(n) \/ Loading(n) \/ Checking(n)
           \/ Ending(n) /\ (n.pc # "killed" => Reapplied)
           \/ \E t \in Tables : ModeMove(t, n)
Working == \E r \in 1..cur, t \in Tables, n \in RunRec : Set(r, n) /\ TaskMove(r, t, n)

LEMMA Steps ==
    ASSUME RunsInv, StoreInv, [Next]_vars
    PROVE  \/ \E n \in RunRec : Set(cur + 1, n) /\ Starting(n)
           \/ Moving \/ Working \/ Crashed \/ UNCHANGED vars
<1>1. ASSUME NEW c \in Commands, Begin(c)
      PROVE  \E n \in RunRec : Set(cur + 1, n) /\ Starting(n)
  BY <1>1, StartShape
<1>2. CASE DdlStep
  <2>0. Active /\ cur > 0 /\ R.pc \notin Ended
    BY <1>2 DEF DdlStep, Active
  <2>1. CASE (\E o \in Objects : DropOne(o) \/ DropFails(o)) \/ DropRound \/ DropDatabases
    BY <2>0, <2>1, DropShape DEF Moving
  <2>2. CASE CreateDatabases \/ TablesCreated \/ \E o \in Objects : CreateTable(o)
    BY <2>0, <2>2, CreateShape DEF Moving
  <2>3. CASE DdlRound \/ \E o \in Objects : CreateDdl(o)
    BY <2>0, <2>3, DdlShape DEF Moving
  <2> QED BY <1>2, <2>1, <2>2, <2>3 DEF DdlStep
<1>3. CASE PlanStep \/ EndStep \/ Kill
  <2>0. Active /\ cur > 0 /\ R.pc \notin Ended
    BY <1>3 DEF PlanStep, EndStep, Kill, Active
  <2>1. CASE \E ts \in SUBSET Tables : LoadState(ts)
    BY <2>0, <2>1, LoadShape DEF Moving
  <2>2. CASE \E ts \in SUBSET Tables : CheckReplicas(ts)
    BY <2>0, <2>2, CheckShape DEF Moving
  <2>3. CASE JoinTasks \/ RestoreRbac \/ Finish \/ Kill \/ \E ts \in SUBSET Tables : ReapplyMutations(ts)
    BY <2>0, <2>3, EndShape DEF Moving
  <2>4. CASE \E t \in Tables : DetachTable(t) \/ LinkParts(t) \/ AttachTable(t)
    BY <2>0, <2>4, ModeShape DEF Moving
  <2> QED BY <1>3, <2>1, <2>2, <2>3, <2>4 DEF PlanStep, EndStep
<1>4. CASE TaskStep
  <2>1. PICK r \in 1..cur, t \in Tables :
            \/ StartTask(r, t) \/ RestoreS3(r, t) \/ Stage(r, t) \/ TaskEnds(r, t)
            \/ \E b \in Blocks[t] : AttachPart(r, t, b) \/ AttachMissing(r, t, b)
                                    \/ AttachBenign(r, t, b) \/ AttachUnknown(r, t, b) \/ SaveAttached(r, t, b)
    BY <1>4 DEF TaskStep
  <2>2. r \in 1..MaxRuns
    BY RestoreAssumption DEF RunsInv
  <2>3. \E n \in RunRec : Set(r, n) /\ TaskMove(r, t, n)
    BY <2>1, <2>2, MoveShape, StageShape, AttachShape, SaveShape
  <2> QED BY <2>3 DEF Working
<1>5. CASE Crash
  BY <1>5, CrashShape
<1> QED BY <1>1, <1>2, <1>3, <1>4, <1>5 DEF Next, Progress

-----------------------------------------------------------------------------
(* The restores keep their shape *)

LEMMA SetRun ==
    ASSUME RunsInv, NEW r \in 1..MaxRuns, NEW n \in RunRec, Set(r, n)
    PROVE  /\ run' \in [1..MaxRuns -> RunRec] /\ run'[r] = n
           /\ \A s \in 1..MaxRuns : s # r => run'[s] = run[s]
  BY DEF RunsInv, Set

(* The present restore after a step of its own, and after one of another. *)
LEMMA SetCur ==
    ASSUME RunsInv, cur > 0, NEW n \in RunRec, Set(cur, n), cur' = cur
    PROVE  R' = n /\ run'[cur] = n
<1>1. cur \in 1..MaxRuns
  BY CurRec
<1>2. run'[cur] = n
  BY <1>1, SetRun
<1> QED BY <1>1, <1>2 DEF R

LEMMA SetTaskRun ==
    ASSUME RunsInv, NEW r \in 1..cur, NEW n \in RunRec, Set(r, n), cur' = cur
    PROVE  /\ r \in 1..MaxRuns /\ cur > 0 /\ R = run[cur] /\ R' = run'[cur]
           /\ run'[r] = n /\ (r = cur => R' = n) /\ (r # cur => R' = R)
<1>1. r \in 1..MaxRuns /\ cur > 0 /\ cur \in 1..MaxRuns
  BY RestoreAssumption DEF RunsInv
<1>2. run'[r] = n /\ \A s \in 1..MaxRuns : s # r => run'[s] = run[s]
  BY <1>1, SetRun
<1> QED BY <1>1, <1>2 DEF R

LEMMA RunsStep ==
    ASSUME RunsInv, StoreInv, [Next]_vars
    PROVE  RunsInv'
<1>n. MaxRuns \in Nat /\ cur \in 0..MaxRuns
  BY RestoreAssumption DEF RunsInv
<1>1. ASSUME NEW n \in RunRec, Set(cur + 1, n), Starting(n)
      PROVE  RunsInv'
  <2>1. cur + 1 \in 1..MaxRuns /\ cur' = cur + 1
    BY <1>n, <1>1 DEF Starting
  <2>2. /\ run' \in [1..MaxRuns -> RunRec] /\ run'[cur + 1] = n
        /\ \A s \in 1..MaxRuns : s # cur + 1 => run'[s] = run[s]
    BY <1>1, <2>1, SetRun
  <2>3. \A r \in 1..MaxRuns : r < cur' => run'[r].pc \in Ended
    <3> SUFFICES ASSUME NEW r \in 1..MaxRuns, r < cur' PROVE run'[r].pc \in Ended
      OBVIOUS
    <3>1. run'[r] = run[r]
      BY <1>n, <2>1, <2>2
    <3>2. CASE r = cur
      BY <1>1, <3>1, <3>2 DEF Starting, R
    <3>3. CASE r < cur
      BY <3>1, <3>3 DEF RunsInv
    <3> QED BY <1>n, <2>1, <3>2, <3>3
  <2>4. \A r \in 1..MaxRuns : PlainOK(run'[r])
    <3>1. PlainOK(n)
      BY <1>1 DEF Starting, PlainOK
    <3>2. \A r \in 1..MaxRuns : PlainOK(run[r])
      BY DEF RunsInv
    <3> QED BY <2>2, <3>1, <3>2
  <2> QED BY <1>n, <2>1, <2>2, <2>3, <2>4 DEF RunsInv
<1>2. CASE Moving
  <2>1. PICK n \in RunRec :
        /\ cur > 0 /\ R.pc \notin Ended /\ Set(cur, n)
        /\ \/ Dropping(n) \/ Building(n) \/ Loading(n) \/ Checking(n)
           \/ Ending(n) /\ (n.pc # "killed" => Reapplied)
           \/ \E t \in Tables : ModeMove(t, n)
    BY <1>2 DEF Moving
  <2>2. cur' = cur /\ cur \in 1..MaxRuns /\ R = run[cur]
    BY <2>1, CurRec DEF Dropping, Building, Loading, Checking, Ending, ModeMove
  <2>3. /\ run' \in [1..MaxRuns -> RunRec] /\ run'[cur] = n
        /\ \A s \in 1..MaxRuns : s # cur => run'[s] = run[s]
    BY <2>1, <2>2, SetRun
  <2>4. PlainOK(R)
    BY <2>2 DEF RunsInv
  <2>5. PlainOK(n)
    <3>1. CASE Dropping(n) \/ Building(n) \/ Ending(n)
      BY <2>4, <3>1 DEF Dropping, Building, Ending, Quiet, PlainOK
    <3>2. CASE Loading(n)
      BY <2>4, <3>2 DEF Loading, PlainOK
    <3>3. CASE Checking(n)
      BY <2>4, <3>3 DEF Checking, PlainOK
    <3>4. ASSUME NEW t \in Tables, ModeMove(t, n) PROVE PlainOK(n)
      BY <2>4, <3>4 DEF ModeMove, Others, PlainOK
    <3> QED BY <2>1, <3>1, <3>2, <3>3, <3>4
  <2>6. \A r \in 1..MaxRuns : r < cur => run'[r].pc \in Ended
    BY <1>n, <2>2, <2>3 DEF RunsInv
  <2>7. \A r \in 1..MaxRuns : PlainOK(run'[r])
    BY <2>3, <2>5 DEF RunsInv
  <2> QED BY <1>n, <2>2, <2>3, <2>6, <2>7 DEF RunsInv
<1>3. CASE Working
  <2>1. PICK r \in 1..cur, t \in Tables, n \in RunRec : Set(r, n) /\ TaskMove(r, t, n)
    BY <1>3 DEF Working
  <2>2. cur' = cur /\ r \in 1..MaxRuns
    BY <1>n, <2>1 DEF TaskMove
  <2>3. /\ run' \in [1..MaxRuns -> RunRec] /\ run'[r] = n
        /\ \A s \in 1..MaxRuns : s # r => run'[s] = run[s]
    BY <2>1, <2>2, SetRun
  <2>4. PlainOK(run[r])
    BY <2>2 DEF RunsInv
  <2>5. PlainOK(n)
    <3> SUFFICES ASSUME ~n.cmd.resume, NEW u \in Tables
                 PROVE  n.st[u] = {} /\ n.task[u].unsaved = {}
      BY DEF PlainOK
    <3>1. n.cmd = run[r].cmd
      BY <2>1 DEF TaskMove, Others
    <3>2. run[r].st[u] = {} /\ run[r].task[u].unsaved = {}
      BY <2>4, <3>1 DEF PlainOK
    <3>3. CASE u # t
      BY <2>1, <3>2, <3>3 DEF TaskMove, Others
    <3>4. CASE u = t
      BY <2>1, <3>1, <3>2, <3>4 DEF TaskMove
    <3> QED BY <3>3, <3>4
  <2>6. n.pc = run[r].pc
    BY <2>1 DEF TaskMove, Others
  <2>7. \A s \in 1..MaxRuns : s < cur => run'[s].pc \in Ended
    BY <2>3, <2>6 DEF RunsInv
  <2>8. \A s \in 1..MaxRuns : PlainOK(run'[s])
    BY <2>3, <2>5 DEF RunsInv
  <2> QED BY <1>n, <2>2, <2>3, <2>7, <2>8 DEF RunsInv
<1>4. CASE Crashed
  <2>1. \A r \in 1..MaxRuns : PlainOK(run'[r])
    <3> SUFFICES ASSUME NEW r \in 1..MaxRuns, ~run'[r].cmd.resume, NEW t \in Tables
                 PROVE  run'[r].st[t] = {} /\ run'[r].task[t].unsaved = {}
      BY DEF PlainOK
    <3>1. PlainOK(run[r])
      BY DEF RunsInv
    <3> QED BY <1>4, <3>1 DEF Crashed, PlainOK
  <2>2. \A r \in 1..MaxRuns : r < cur => run'[r].pc \in Ended
    BY <1>4 DEF Crashed, RunsInv, Ended
  <2> QED BY <1>4, <1>n, <2>1, <2>2 DEF Crashed, RunsInv
<1>5. CASE UNCHANGED vars
  BY <1>5 DEF vars, RunsInv, PlainOK
<1> QED BY <1>1, <1>2, <1>3, <1>4, <1>5, Steps

-----------------------------------------------------------------------------
(* The server and the state file keep their types *)

LEMMA ServerSteps ==
    ASSUME [Next]_vars
    PROVE  \/ UNCHANGED <<tab, live, benign, staged>>
           \/ \E o \in Objects : DropOne(o) \/ CreateTable(o) \/ CreateDdl(o)
           \/ DropDatabases
           \/ \E t \in Tables : DetachTable(t) \/ LinkParts(t) \/ AttachTable(t)
           \/ \E r \in 1..cur, t \in Tables :
                 \/ RestoreS3(r, t) \/ Stage(r, t)
                 \/ \E b \in Blocks[t] : AttachPart(r, t, b) \/ AttachBenign(r, t, b) \/ AttachUnknown(r, t, b)
<1>1. CASE \E c \in Commands : Begin(c)
  BY <1>1 DEF Begin
<1>2. CASE DdlStep
  BY <1>2 DEF DdlStep, DropFails, DropRound, CreateDatabases, TablesCreated, DdlRound, FinishRound
<1>3. CASE PlanStep
  BY <1>3 DEF PlanStep, LoadState, CheckReplicas, ReapplyMutations
<1>4. CASE TaskStep
  <2>1. PICK r \in 1..cur, t \in Tables :
            \/ StartTask(r, t) \/ RestoreS3(r, t) \/ Stage(r, t) \/ TaskEnds(r, t)
            \/ \E b \in Blocks[t] : AttachPart(r, t, b) \/ AttachMissing(r, t, b)
                                    \/ AttachBenign(r, t, b) \/ AttachUnknown(r, t, b) \/ SaveAttached(r, t, b)
    BY <1>4 DEF TaskStep
  <2>2. CASE StartTask(r, t) \/ TaskEnds(r, t)
    BY <2>2 DEF StartTask, TaskEnds
  <2>3. CASE RestoreS3(r, t) \/ Stage(r, t)
    BY <2>3
  <2>4. ASSUME NEW b \in Blocks[t], AttachMissing(r, t, b) \/ SaveAttached(r, t, b)
        PROVE  UNCHANGED <<tab, live, benign, staged>>
    BY <2>4 DEF AttachMissing, SaveAttached
  <2> QED BY <2>1, <2>2, <2>3, <2>4
<1>5. CASE EndStep \/ Crash \/ Kill
  BY <1>5 DEF EndStep, JoinTasks, RestoreRbac, Finish, Crash, Kill
<1>6. CASE UNCHANGED vars
  BY <1>6 DEF vars
<1> QED BY <1>1, <1>2, <1>3, <1>4, <1>5, <1>6 DEF Next, Progress

LEMMA TabType == ASSUME StoreInv, [Next]_vars PROVE tab' \in [Objects -> TabStates]
<1>0. tab \in [Objects -> TabStates]
  BY DEF StoreInv
<1>1. ASSUME NEW o \in Objects, DropOne(o) \/ CreateTable(o) \/ CreateDdl(o) PROVE tab' \in [Objects -> TabStates]
  BY <1>0, <1>1 DEF DropOne, CreateTable, CreateDdl, Gone, TabStates
<1>2. CASE DropDatabases
  BY <1>0, <1>2 DEF DropDatabases, TabStates
<1>3. ASSUME NEW t \in Tables, DetachTable(t) \/ LinkParts(t) \/ AttachTable(t)
      PROVE  tab' \in [Objects -> TabStates]
  BY <1>0, <1>3 DEF DetachTable, LinkParts, AttachTable, TabStates
<1>4. ASSUME NEW r \in 1..cur, NEW t \in Tables,
             \/ RestoreS3(r, t) \/ Stage(r, t)
             \/ \E b \in Blocks[t] : AttachPart(r, t, b) \/ AttachBenign(r, t, b) \/ AttachUnknown(r, t, b)
      PROVE  tab' = tab
  BY <1>4 DEF RestoreS3, Stage, AttachPart, AttachBenign, AttachUnknown
<1> QED BY <1>0, <1>1, <1>2, <1>3, <1>4, ServerSteps

LEMMA StagedType ==
    ASSUME StoreInv, [Next]_vars
    PROVE  staged' \in [Tables -> SUBSET Nat] /\ \A t \in Tables : staged'[t] \subseteq Blocks[t]
<1>0. staged \in [Tables -> SUBSET Nat] /\ \A t \in Tables : staged[t] \subseteq Blocks[t]
  BY DEF StoreInv
<1> DEFINE Goal == staged' \in [Tables -> SUBSET Nat] /\ \A t \in Tables : staged'[t] \subseteq Blocks[t]
<1>a. ASSUME NEW ts, staged' = [t \in Tables |-> IF t \in ts THEN {} ELSE staged[t]] PROVE Goal
  BY <1>0, <1>a
<1>b. ASSUME NEW t \in Tables, NEW s \in SUBSET Blocks[t], staged' = [staged EXCEPT ![t] = s] PROVE Goal
  <2>1. s \in SUBSET Nat
    BY RestoreAssumption
  <2> QED BY <1>0, <1>b, <2>1
<1>1. ASSUME NEW o \in Objects, DropOne(o) \/ CreateTable(o) \/ CreateDdl(o) PROVE Goal
  <2>1. staged' = staged \/ staged' = [t \in Tables |-> IF t \in {o} THEN {} ELSE staged[t]]
    BY <1>1 DEF DropOne, CreateTable, CreateDdl, Wiped
  <2> QED BY <1>0, <1>a, <2>1
<1>2. CASE DropDatabases
  <2>1. staged' = staged \/ staged' = [t \in Tables |-> IF t \in Tables THEN {} ELSE staged[t]]
    BY <1>2 DEF DropDatabases, Wiped
  <2> QED BY <1>0, <1>a, <2>1
<1>3. ASSUME NEW t \in Tables, DetachTable(t) \/ LinkParts(t) \/ AttachTable(t)
      PROVE  staged' = staged
  BY <1>3 DEF DetachTable, LinkParts, AttachTable
<1>4. ASSUME NEW r \in 1..cur, NEW t \in Tables, RestoreS3(r, t) PROVE Goal
  <2>1. staged' = staged \/ staged' = [staged EXCEPT ![t] = staged[t] \cup S3Copied(t)]
    BY <1>4 DEF RestoreS3, S3Staged
  <2>2. staged[t] \cup S3Copied(t) \in SUBSET Blocks[t]
    BY <1>0 DEF S3Copied
  <2> QED BY <1>0, <1>b, <2>1, <2>2
<1>5. ASSUME NEW r \in 1..cur, NEW t \in Tables, Stage(r, t) PROVE Goal
  <2> DEFINE todo == Blocks[t] \ run[r].already[t]
             gone == IF t \in S3Tables THEN {} ELSE {b \in todo : <<t, b>> \in lost}
             w == todo \ gone
  <2>1. staged' = staged \/ staged' = [staged EXCEPT ![t] = staged[t] \cup w]
    BY <1>5 DEF Stage
  <2>2. w \subseteq Blocks[t]
    OBVIOUS
  <2> HIDE DEF w
  <2>3. staged[t] \cup w \in SUBSET Blocks[t]
    BY <1>0, <2>2
  <2> QED BY <1>0, <1>b, <2>1, <2>3
<1>6. ASSUME NEW r \in 1..cur, NEW t \in Tables, NEW b \in Blocks[t],
             AttachPart(r, t, b) \/ AttachBenign(r, t, b) \/ AttachUnknown(r, t, b)
      PROVE  Goal
  <2>1. staged' = staged \/ staged' = [staged EXCEPT ![t] = staged[t] \ {b}]
    BY <1>6 DEF AttachPart, AttachBenign, AttachUnknown, Attached
  <2>2. staged[t] \ {b} \in SUBSET Blocks[t]
    BY <1>0
  <2> QED BY <1>0, <1>b, <2>1, <2>2
<1> QED BY <1>0, <1>1, <1>2, <1>3, <1>4, <1>5, <1>6, ServerSteps

LEMMA BenignType ==
    ASSUME StoreInv, [Next]_vars
    PROVE  benign' \in [Tables -> SUBSET Nat] /\ \A t \in Tables : benign'[t] \subseteq Blocks[t]
<1>0. benign \in [Tables -> SUBSET Nat] /\ \A t \in Tables : benign[t] \subseteq Blocks[t]
  BY DEF StoreInv
<1> DEFINE Goal == benign' \in [Tables -> SUBSET Nat] /\ \A t \in Tables : benign'[t] \subseteq Blocks[t]
<1>a. ASSUME NEW ts, benign' = [t \in Tables |-> IF t \in ts THEN {} ELSE benign[t]] PROVE Goal
  BY <1>0, <1>a
<1>1. ASSUME NEW o \in Objects, DropOne(o) \/ CreateTable(o) \/ CreateDdl(o) PROVE Goal
  <2>1. benign' = benign \/ benign' = [t \in Tables |-> IF t \in {o} THEN {} ELSE benign[t]]
    BY <1>1 DEF DropOne, CreateTable, CreateDdl, Wiped
  <2> QED BY <1>0, <1>a, <2>1
<1>2. CASE DropDatabases
  <2>1. benign' = benign \/ benign' = [t \in Tables |-> IF t \in Tables THEN {} ELSE benign[t]]
    BY <1>2 DEF DropDatabases, Wiped
  <2> QED BY <1>0, <1>a, <2>1
<1>3. ASSUME NEW t \in Tables, DetachTable(t) \/ LinkParts(t) \/ AttachTable(t)
      PROVE  benign' = benign
  BY <1>3 DEF DetachTable, LinkParts, AttachTable
<1>4. ASSUME NEW r \in 1..cur, NEW t \in Tables, RestoreS3(r, t) \/ Stage(r, t) PROVE benign' = benign
  BY <1>4 DEF RestoreS3, Stage
<1>5. ASSUME NEW r \in 1..cur, NEW t \in Tables, NEW b \in Blocks[t],
             AttachPart(r, t, b) \/ AttachUnknown(r, t, b)
      PROVE  benign' = benign
  BY <1>5 DEF AttachPart, AttachUnknown
<1>6. ASSUME NEW r \in 1..cur, NEW t \in Tables, NEW b \in Blocks[t], AttachBenign(r, t, b) PROVE Goal
  <2>1. benign' = [benign EXCEPT ![t] = benign[t] \cup {b}] /\ b \in Nat
    BY <1>6, RestoreAssumption DEF AttachBenign
  <2> QED BY <1>0, <2>1
<1> QED BY <1>0, <1>1, <1>2, <1>3, <1>4, <1>5, <1>6, ServerSteps

HasMax(T) == \E x \in T : \A y \in T : x >= y

(* A finite set of naturals that is not empty has a largest element. *)
LEMMA MaxExists ==
    ASSUME NEW S \in SUBSET Nat, IsFiniteSet(S), S # {}
    PROVE  HasMax(S)
<1> DEFINE Bad(T) == T # {} /\ ~HasMax(T)
           C == {n \in Nat : \E T \in SUBSET S : Bad(T) /\ Cardinality(T) = n}
<1>1. \A T \in SUBSET S : IsFiniteSet(T) /\ Cardinality(T) \in Nat
  BY FS_Subset, FS_CardinalityType
<1>2. SUFFICES ASSUME ~HasMax(S) PROVE FALSE
  OBVIOUS
<1>3. C # {} /\ C \subseteq Nat
  BY <1>1, <1>2, S \in SUBSET S
<1>4. PICK n \in C : \A m \in C : ~(m < n)
  <2> HIDE DEF C
  <2>1. \E x \in C : \A y \in C : ~(<<y, x>> \in OpToRel(<, Nat))
    BY <1>3, WFMin, NatLessThanWellFounded
  <2> QED BY <1>3, <2>1 DEF OpToRel
<1>5. PICK T \in SUBSET S : Bad(T) /\ Cardinality(T) = n
  OBVIOUS
<1>6. PICK x \in T : TRUE
  BY <1>5
<1> DEFINE U == T \ {x}
<1>7. Cardinality(U) = n - 1 /\ n \in Nat
  BY <1>1, <1>5, <1>6, FS_RemoveElement
<1>8. U # {}
  <2> SUFFICES ASSUME U = {} PROVE FALSE
    OBVIOUS
  <2>1. T = {x} /\ x \in Nat
    BY <1>6
  <2>2. HasMax(T)
    BY <2>1 DEF HasMax
  <2> QED BY <1>5, <2>2
<1>9. HasMax(U)
  <2> SUFFICES ASSUME ~HasMax(U) PROVE FALSE
    OBVIOUS
  <2>1. Cardinality(U) \in C
    BY <1>1, <1>8
  <2> HIDE DEF C, U
  <2>2. Cardinality(U) < n
    BY <1>7
  <2> QED BY <1>4, <2>1, <2>2
<1>10. PICK m \in U : \A y \in U : m >= y
  BY <1>9 DEF HasMax
<1>11. HasMax(T)
  <2>0. x \in Nat /\ m \in Nat /\ T \subseteq Nat
    BY <1>6, <1>10
  <2>1. CASE m >= x
    BY <2>0, <2>1, <1>10 DEF HasMax
  <2>2. CASE x >= m
    BY <2>0, <2>2, <1>10, <1>6 DEF HasMax
  <2> QED BY <2>0, <2>1, <2>2
<1> QED BY <1>5, <1>11

(* The number of the next part is one no part of the table has. *)
LEMMA NextFresh ==
    ASSUME StoreInv, NamesInv, NEW t \in Tables
    PROVE  NextBlock(t) \in Nat \ {0} /\ NextBlock(t) \notin Names(t)
<1>1. IsFiniteSet(live[t]) /\ Names(t) \subseteq Nat
  BY NamesType DEF NamesInv
<1> DEFINE f == [x \in live[t] |-> x[1]]
<1>2. f \in Surjection(live[t], Names(t))
  BY DEF Surjection, Names
<1>3. IsFiniteSet(Names(t))
  BY <1>1, <1>2, FS_Surjection
<1> DEFINE S == Names(t) \cup {0}
<1>4. IsFiniteSet(S) /\ S \in SUBSET Nat /\ S # {}
  BY <1>1, <1>3, FS_AddElement
<1>5. HasMax(S)
  BY <1>4, MaxExists
<1> DEFINE m == Max(S)
<1>6. m \in S /\ \A y \in S : m >= y
  BY <1>5 DEF HasMax, Max
<1>7. NextBlock(t) = 1 + m
  BY DEF NextBlock
<1>8. Names(t) \subseteq S /\ S \subseteq Nat
  BY <1>4
<1> HIDE DEF S, m
<1>9. m \in Nat /\ \A y \in Names(t) : y \in Nat /\ m >= y
  BY <1>6, <1>8
<1>10. 1 + m \in Nat \ {0} /\ \A y \in Names(t) : y # 1 + m
  BY <1>9
<1> QED BY <1>7, <1>10

(* The parts of a table: those there were, none, one more, or the linked ones. *)
GoodParts(t, L) ==
    /\ L \in SUBSET (Nat \X Nat) /\ IsFiniteSet(L)
    /\ \A x \in L : x[1] # 0 /\ x[2] \in Blocks[t] \cup {0}
    /\ \A x, y \in L : x[1] = y[1] => x = y

LEMMA LiveGood == ASSUME StoreInv, NamesInv PROVE \A t \in Tables : GoodParts(t, live[t])
  BY DEF StoreInv, NamesInv, GoodParts

LEMMA NoPartsGood == \A t \in Tables : GoodParts(t, {})
  BY FS_EmptySet DEF GoodParts

LEMMA AttachedGood ==
    ASSUME StoreInv, NamesInv, NEW t \in Tables, NEW b \in Blocks[t]
    PROVE  GoodParts(t, live[t] \cup {<<NextBlock(t), b>>})
<1> DEFINE i == NextBlock(t)
           x0 == <<i, b>>
<1>1. i \in Nat \ {0} /\ b \in Nat /\ \A x \in live[t] : x[1] # i
  BY NextFresh, RestoreAssumption DEF Names
<1> HIDE DEF i
<1>2. x0 \in Nat \X Nat /\ x0[1] = i /\ x0[2] = b
  BY <1>1
<1>3. GoodParts(t, live[t])
  BY LiveGood
<1>4. IsFiniteSet(live[t] \cup {x0})
  BY <1>3, FS_AddElement DEF GoodParts
<1> HIDE DEF x0
<1>5. GoodParts(t, live[t] \cup {x0})
  BY <1>1, <1>2, <1>3, <1>4 DEF GoodParts
<1> QED BY <1>5 DEF x0, i

LEMMA LinkedGood ==
    ASSUME StoreInv, NamesInv, NEW t \in Tables,
           NEW B \in SUBSET Blocks[t], \A b \in B : b \notin Names(t)
    PROVE  GoodParts(t, live[t] \cup {<<b, b>> : b \in B})
<1> DEFINE N == {<<b, b>> : b \in B}
           f == [b \in B |-> <<b, b>>]
<1>1. Blocks[t] \subseteq Nat \ {0} /\ IsFiniteSet(Blocks[t])
  BY RestoreAssumption
<1>2. IsFiniteSet(B)
  BY <1>1, FS_Subset
<1>3. f \in Surjection(B, N)
  BY DEF Surjection
<1>4. IsFiniteSet(N)
  BY <1>2, <1>3, FS_Surjection
<1>5. GoodParts(t, live[t]) /\ \A x \in live[t] : x[1] \notin B
  BY LiveGood DEF Names
<1>6. N \subseteq Nat \X Nat /\ \A x \in N : x[1] \in B /\ x[2] \in Blocks[t] /\ x[1] # 0
  BY <1>1
<1>7. \A x, y \in N : x[1] = y[1] => x = y
  OBVIOUS
<1> HIDE DEF N
<1>8. IsFiniteSet(live[t] \cup N)
  BY <1>4, <1>5, FS_Union DEF GoodParts
<1>9. GoodParts(t, live[t] \cup N)
  BY <1>5, <1>6, <1>7, <1>8 DEF GoodParts
<1> QED BY <1>9 DEF N

LEMMA LiveType ==
    ASSUME StoreInv, NamesInv, [Next]_vars
    PROVE  /\ live' \in [Tables -> SUBSET (Nat \X Nat)]
           /\ \A t \in Tables : \A x \in live'[t] : x[2] \in Blocks[t] \cup {0}
           /\ NamesInv'
<1> DEFINE Goal == /\ live' \in [Tables -> SUBSET (Nat \X Nat)]
                   /\ \A t \in Tables : GoodParts(t, live'[t])
<1>0. live \in [Tables -> SUBSET (Nat \X Nat)] /\ \A t \in Tables : GoodParts(t, live[t])
  BY LiveGood DEF StoreInv
<1>a. ASSUME NEW ts, live' = [t \in Tables |-> IF t \in ts THEN {} ELSE live[t]] PROVE Goal
  BY <1>0, <1>a, NoPartsGood
<1>b. ASSUME NEW t \in Tables, NEW L, GoodParts(t, L), live' = [live EXCEPT ![t] = L] PROVE Goal
  <2>1. L \in SUBSET (Nat \X Nat)
    BY <1>b DEF GoodParts
  <2>2. live'[t] = L /\ \A u \in Tables : u # t => live'[u] = live[u]
    BY <1>0, <1>b
  <2>3. live' \in [Tables -> SUBSET (Nat \X Nat)]
    BY <1>0, <1>b, <2>1
  <2> QED BY <1>0, <1>b, <2>2, <2>3
<1>1. ASSUME NEW o \in Objects, DropOne(o) \/ CreateTable(o) \/ CreateDdl(o) PROVE Goal
  <2>1. live' = live \/ live' = [t \in Tables |-> IF t \in {o} THEN {} ELSE live[t]]
    BY <1>1 DEF DropOne, CreateTable, CreateDdl, Wiped
  <2> QED BY <1>0, <1>a, <2>1
<1>2. ASSUME DropDatabases PROVE Goal
  <2>1. live' = live \/ live' = [t \in Tables |-> {}]
    BY <1>2 DEF DropDatabases, Wiped
  <2> QED BY <1>0, <2>1, NoPartsGood
<1>3. ASSUME NEW t \in Tables, DetachTable(t) \/ LinkParts(t) \/ AttachTable(t)
      PROVE  Goal
  <2> DEFINE B == {b \in Blocks[t] : <<t, b>> \notin lost /\ b \notin Names(t)}
             L == live[t] \cup {<<b, b>> : b \in B}
  <2>1. live' = live \/ live' = [live EXCEPT ![t] = L]
    BY <1>3 DEF DetachTable, LinkParts, AttachTable
  <2>2. B \in SUBSET Blocks[t] /\ \A b \in B : b \notin Names(t)
    OBVIOUS
  <2>3. GoodParts(t, L)
    <3> HIDE DEF B
    <3> QED BY <2>2, LinkedGood
  <2> HIDE DEF L
  <2> QED BY <1>0, <1>b, <2>1, <2>3
<1>4. ASSUME NEW r \in 1..cur, NEW t \in Tables, RestoreS3(r, t) \/ Stage(r, t) PROVE live' = live
  BY <1>4 DEF RestoreS3, Stage
<1>5. ASSUME NEW r \in 1..cur, NEW t \in Tables, NEW b \in Blocks[t],
             AttachPart(r, t, b) \/ AttachBenign(r, t, b) \/ AttachUnknown(r, t, b)
      PROVE  Goal
  <2> DEFINE L == live[t] \cup {<<NextBlock(t), b>>}
  <2>1. live' = live \/ live' = [live EXCEPT ![t] = L]
    BY <1>5 DEF AttachPart, AttachBenign, AttachUnknown, Attached
  <2>2. GoodParts(t, L)
    BY AttachedGood
  <2> HIDE DEF L
  <2> QED BY <1>0, <1>b, <2>1, <2>2
<1>c. ASSUME live' = live PROVE Goal
  BY <1>0, <1>c
<1>6. Goal
  <2> HIDE DEF Goal
  <2> QED BY <1>c, <1>1, <1>2, <1>3, <1>4, <1>5, ServerSteps
<1>7. NamesInv'
  BY <1>6 DEF NamesInv, GoodParts
<1> QED BY <1>6, <1>7 DEF GoodParts

(* Faults are only counted up. *)
LEMMA FaultsType ==
    ASSUME StoreInv, [Next]_vars
    PROVE  access' \in {"old", "gone", "new"} /\ faults' \in {faults, faults + 1}
<1>0. access \in {"old", "gone", "new"}
  BY DEF StoreInv
<1>1. CASE \E c \in Commands : Begin(c)
  BY <1>0, <1>1 DEF Begin
<1>2. CASE DdlStep
  <2>1. ASSUME NEW o \in Objects, DropOne(o) \/ DropFails(o) \/ CreateTable(o) \/ CreateDdl(o)
        PROVE  access' = access /\ faults' \in {faults, faults + 1}
    BY <2>1 DEF DropOne, DropFails, CreateTable, CreateDdl, Fault, NoFault
  <2>2. CASE DropRound \/ DropDatabases \/ CreateDatabases \/ TablesCreated \/ DdlRound
    BY <1>0, <2>2 DEF DropRound, DropDatabases, CreateDatabases, TablesCreated, DdlRound, FinishRound, Fault, NoFault
  <2> QED BY <1>0, <1>2, <2>1, <2>2 DEF DdlStep
<1>3. CASE PlanStep
  <2>1. ASSUME NEW ts \in SUBSET Tables, LoadState(ts) \/ CheckReplicas(ts) \/ ReapplyMutations(ts)
        PROVE  access' = access /\ faults' \in {faults, faults + 1}
    BY <2>1 DEF LoadState, CheckReplicas, ReapplyMutations, Fault, NoFault
  <2>2. ASSUME NEW t \in Tables, DetachTable(t) \/ LinkParts(t) \/ AttachTable(t)
        PROVE  access' = access /\ faults' \in {faults, faults + 1}
    BY <2>2 DEF DetachTable, LinkParts, AttachTable, Fault, NoFault
  <2> QED BY <1>0, <1>3, <2>1, <2>2 DEF PlanStep
<1>4. CASE TaskStep
  <2>1. PICK r \in 1..cur, t \in Tables :
            \/ StartTask(r, t) \/ RestoreS3(r, t) \/ Stage(r, t) \/ TaskEnds(r, t)
            \/ \E b \in Blocks[t] : AttachPart(r, t, b) \/ AttachMissing(r, t, b)
                                    \/ AttachBenign(r, t, b) \/ AttachUnknown(r, t, b) \/ SaveAttached(r, t, b)
    BY <1>4 DEF TaskStep
  <2>2. CASE StartTask(r, t) \/ RestoreS3(r, t) \/ Stage(r, t) \/ TaskEnds(r, t)
    BY <1>0, <2>2 DEF StartTask, RestoreS3, Stage, TaskEnds, Fault, NoFault
  <2>3. ASSUME NEW b \in Blocks[t], AttachPart(r, t, b) \/ AttachMissing(r, t, b)
                                    \/ AttachBenign(r, t, b) \/ AttachUnknown(r, t, b) \/ SaveAttached(r, t, b)
        PROVE  access' = access /\ faults' \in {faults, faults + 1}
    BY <2>3 DEF AttachPart, AttachMissing, AttachBenign, AttachUnknown, SaveAttached, Fault, NoFault
  <2> QED BY <1>0, <2>1, <2>2, <2>3
<1>5. CASE EndStep \/ Crash \/ Kill
  BY <1>0, <1>5 DEF EndStep, JoinTasks, RestoreRbac, Finish, Crash, Kill, Fault, NoFault
<1>6. CASE UNCHANGED vars
  BY <1>0, <1>6 DEF vars
<1> QED BY <1>1, <1>2, <1>3, <1>4, <1>5, <1>6 DEF Next, Progress

LEMMA FileType ==
    ASSUME RunsInv, StoreInv, [Next]_vars
    PROVE  file' = NoState \/ file' \in FileRec
<1>0. file = NoState \/ file \in FileRec
  BY DEF StoreInv
<1>p. \A c \in CmdRec : params_hash(c) \in Kinds \X (SUBSET Tables)
  BY DEF CmdRec, params_hash
<1>1. ASSUME NEW n, Starting(n) PROVE file' = file
  BY <1>1 DEF Starting
<1>2. CASE Moving
  <2>1. PICK n \in RunRec :
        /\ cur > 0
        /\ Dropping(n) \/ Building(n) \/ Loading(n) \/ Checking(n) \/ Ending(n) \/ \E t \in Tables : ModeMove(t, n)
    BY <1>2 DEF Moving
  <2>2. CASE Ending(n)
    <3> DEFINE s == [t \in Tables |-> IF t \in R.allowed THEN Blocks[t] ELSE {}]
    <3>1. s \in [Tables -> SUBSET Nat]
      BY RestoreAssumption
    <3>2. file' = file \/ file' = [params |-> params_hash(R.cmd), attached |-> s]
      BY <2>2 DEF Ending
    <3>3. R.cmd \in CmdRec
      BY <2>1, CurRec
    <3> HIDE DEF s
    <3> QED BY <1>0, <1>p, <3>1, <3>2, <3>3 DEF FileRec
  <2>3. CASE ~Ending(n)
    <3>1. file' = file
      BY <2>1, <2>3 DEF Dropping, Building, Loading, Checking, ModeMove
    <3> QED BY <1>0, <3>1
  <2> QED BY <2>2, <2>3
<1>3. CASE Working
  <2>1. PICK r \in 1..cur, t \in Tables, n \in RunRec : Set(r, n) /\ TaskMove(r, t, n)
    BY <1>3 DEF Working
  <2>2. run[r].cmd \in CmdRec
    <3>1. r \in 1..MaxRuns
      BY RestoreAssumption DEF RunsInv
    <3> QED BY <3>1, TaskType
  <2>3. n.st \in [Tables -> SUBSET Nat]
    BY DEF RunRec
  <2>4. file' = file \/ file' = [params |-> params_hash(run[r].cmd), attached |-> n.st]
    BY <2>1 DEF TaskMove
  <2> QED BY <1>0, <1>p, <2>2, <2>3, <2>4 DEF FileRec
<1>4. CASE Crashed
  BY <1>0, <1>4 DEF Crashed
<1>5. CASE UNCHANGED vars
  BY <1>0, <1>5 DEF vars
<1> QED BY <1>0, <1>1, <1>2, <1>3, <1>4, <1>5, Steps

LEMMA StoreStep ==
    ASSUME RunsInv, StoreInv, NamesInv, [Next]_vars
    PROVE  StoreInv' /\ NamesInv'
<1>1. faults' \in Nat
  BY FaultsType DEF StoreInv
<1>2. tab' \in [Objects -> TabStates]
  BY TabType
<1>3. /\ live' \in [Tables -> SUBSET (Nat \X Nat)] /\ NamesInv'
      /\ \A t \in Tables : \A x \in live'[t] : x[2] \in Blocks[t] \cup {0}
  BY LiveType
<1>4. staged' \in [Tables -> SUBSET Nat] /\ \A t \in Tables : staged'[t] \subseteq Blocks[t]
  BY StagedType
<1>4b. benign' \in [Tables -> SUBSET Nat] /\ \A t \in Tables : benign'[t] \subseteq Blocks[t]
  BY BenignType
<1>5. file' = NoState \/ file' \in FileRec
  BY FileType
<1>6. access' \in {"old", "gone", "new"}
  BY FaultsType
<1> QED BY <1>1, <1>2, <1>3, <1>4, <1>4b, <1>5, <1>6 DEF StoreInv, NoState

-----------------------------------------------------------------------------
(* Which tables there are, and the phases *)

LEMMA TabStep ==
    ASSUME RunsInv, StoreInv, TabInv, PhaseInv, [Next]_vars
    PROVE  TabInv'
<1>o. /\ \A t \in Tables : t \in Objects
      /\ \A o \in Later \cup Views : o \in Objects /\ o \notin Tables
  BY RestoreAssumption DEF Objects
<1>1. ASSUME NEW n, Starting(n) PROVE TabInv'
  BY <1>1 DEF Starting, TabInv
<1>2. CASE Moving
  <2>1. PICK n \in RunRec :
        /\ cur > 0
        /\ Dropping(n) \/ Building(n) \/ Loading(n) \/ Checking(n) \/ Ending(n) \/ \E t \in Tables : ModeMove(t, n)
    BY <1>2 DEF Moving
  <2>2. CASE Dropping(n)
    BY <1>o, <2>2 DEF Dropping, TabInv
  <2>3. CASE Building(n)
    BY <1>o, <2>3 DEF Building, TabInv
  <2>4. CASE Loading(n) \/ Checking(n) \/ Ending(n)
    BY <2>4 DEF Loading, Checking, Ending, TabInv
  <2>5. ASSUME NEW t \in Tables, ModeMove(t, n) PROVE TabInv'
    <3>1. /\ R.task[t].pc \in {"detach", "link", "reattach"} => t \in Planned(R.cmd)
          /\ R.task[t].pc \in {"link", "reattach"} => tab[t] = "detached"
      BY <2>1, <2>5 DEF PhaseInv, ModeOK, ModeMove
    <3>2. R.task[t].pc \in {"detach", "link", "reattach"}
      BY <2>5 DEF ModeMove
    <3>3. AsAttach /\ t \in Replicated \ S3Tables
      BY <3>1, <3>2 DEF Planned
    <3>4. live'[t] # {} \/ benign'[t] # {} => tab'[t] # "absent"
      BY <2>5, <3>1 DEF ModeMove, TabInv
    <3>5. /\ \A u \in Tables : u # t => live'[u] = live[u] /\ benign'[u] = benign[u] /\ tab'[u] = tab[u]
          /\ \A o \in Later \cup Views : tab'[o] = tab[o]
      BY <1>o, <2>5 DEF ModeMove
    <3> QED BY <3>3, <3>4, <3>5 DEF TabInv
  <2> QED BY <2>1, <2>2, <2>3, <2>4, <2>5
<1>3. CASE Working
  <2>1. PICK r \in 1..cur, t \in Tables, n \in RunRec : Set(r, n) /\ TaskMove(r, t, n)
    BY <1>3 DEF Working
  <2>2. tab' = tab /\ \A u \in Tables : (live'[u] = live[u] /\ benign'[u] = benign[u]) \/ tab[u] = "live"
    BY <2>1 DEF TaskMove
  <2> QED BY <2>2 DEF TabInv
<1>4. CASE Crashed
  BY <1>4 DEF Crashed, TabInv
<1>5. CASE UNCHANGED vars
  BY <1>5 DEF vars, TabInv
<1> QED BY <1>1, <1>2, <1>3, <1>4, <1>5, Steps

(* The phase facts of a record, with what a step may leave of them. *)
LEMMA QuietSel ==
    ASSUME NEW a, NEW n, SelOK(a), n.cmd = a.cmd, n.allowed = a.allowed, a.skipped \subseteq n.skipped
    PROVE  SelOK(n)
  BY DEF SelOK

LEMMA FreshStep ==
    ASSUME RunsInv, StoreInv, PhaseInv, [Next]_vars
    PROVE  cur' > 0 => FreshOK(R)' /\ SelOK(R)'
<1>n. MaxRuns \in Nat /\ cur \in 0..MaxRuns
  BY RestoreAssumption DEF RunsInv
<1>1. ASSUME NEW n \in RunRec, Set(cur + 1, n), Starting(n) PROVE FreshOK(R)' /\ SelOK(R)'
  <2>1. cur + 1 \in 1..MaxRuns /\ cur' = cur + 1
    BY <1>n, <1>1 DEF Starting
  <2>2. R' = n
    <3>1. run'[cur + 1] = n
      BY <1>1, <2>1, SetRun
    <3> QED BY <1>n, <2>1, <3>1 DEF R
  <2> QED BY <1>1, <2>2 DEF Starting, FreshOK, SelOK
<1>2. ASSUME Moving PROVE FreshOK(R)' /\ SelOK(R)'
  <2>1. PICK n \in RunRec :
        /\ cur > 0 /\ Set(cur, n)
        /\ Dropping(n) \/ Building(n) \/ Loading(n) \/ Checking(n) \/ Ending(n) \/ \E t \in Tables : ModeMove(t, n)
    BY <1>2 DEF Moving
  <2>2. cur' = cur
    BY <2>1 DEF Dropping, Building, Loading, Checking, Ending, ModeMove
  <2>3. R' = n
    BY <2>1, <2>2, SetCur
  <2>4. FreshOK(R) /\ SelOK(R)
    BY <2>1 DEF PhaseInv
  <2>5. SelOK(n)
    <3>1. n.cmd = R.cmd /\ n.allowed = R.allowed /\ R.skipped \subseteq n.skipped
      BY <2>1 DEF Dropping, Building, Loading, Checking, Ending, ModeMove, Quiet, Others
    <3> QED BY <2>4, <3>1, QuietSel
  <2>6. FreshOK(n)
    <3>1. CASE Dropping(n)
      BY <2>4, <3>1 DEF Dropping, Quiet, FreshOK, Early
    <3>2. CASE Building(n)
      BY <2>4, <3>2 DEF Building, Quiet, FreshOK, Early
    <3>3. CASE Loading(n)
      BY <2>4, <3>3 DEF Loading, FreshOK, Early
    <3>4. CASE Checking(n)
      BY <3>4 DEF Checking, FreshOK, Early
    <3>5. CASE Ending(n)
      <4>1. n.pc \in {"failed", "killed", "mutations", "extras", "postponed", "finish", "partial", "ok"}
        BY <3>5 DEF Ending
      <4> QED BY <4>1 DEF FreshOK, Early
    <3>6. ASSUME NEW t \in Tables, ModeMove(t, n) PROVE FreshOK(n)
      <4>1. n.pc = "tasks"
        BY <3>6 DEF ModeMove, Others
      <4> QED BY <4>1 DEF FreshOK, Early
    <3> QED BY <2>1, <3>1, <3>2, <3>3, <3>4, <3>5, <3>6
  <2> QED BY <2>3, <2>5, <2>6 DEF FreshOK, SelOK, Parts
<1>3. ASSUME Working PROVE FreshOK(R)' /\ SelOK(R)'
  <2>1. PICK r \in 1..cur, t \in Tables, n \in RunRec : Set(r, n) /\ TaskMove(r, t, n)
    BY <1>3 DEF Working
  <2>2. cur' = cur
    BY <2>1 DEF TaskMove
  <2>3. cur > 0 /\ R = run[cur] /\ (r = cur => R' = n) /\ (r # cur => R' = R)
    BY <2>1, <2>2, SetTaskRun
  <2>4. FreshOK(R) /\ SelOK(R)
    BY <2>3 DEF PhaseInv
  <2>5. CASE r = cur
    <3>1. /\ n.cmd = R.cmd /\ n.allowed = R.allowed /\ R.skipped \subseteq n.skipped
          /\ n.pc \in {"tasks", "killed"}
      BY <2>1, <2>3, <2>5 DEF TaskMove, Others
    <3>2. SelOK(n)
      BY <2>4, <3>1, QuietSel
    <3> QED BY <2>3, <2>5, <3>1, <3>2 DEF FreshOK, SelOK, Early, Parts
  <2>6. CASE r # cur
    BY <2>3, <2>4, <2>6 DEF FreshOK, SelOK, Parts
  <2> QED BY <2>5, <2>6
<1>4. ASSUME Crashed PROVE FreshOK(R)' /\ SelOK(R)'
  <2>1. cur' = cur /\ cur \in 1..MaxRuns /\ R = run[cur] /\ R' = run'[cur]
    BY <1>n, <1>4 DEF Crashed, R
  <2>2. R'.pc = "dead" /\ R'.cmd = R.cmd /\ R'.allowed = R.allowed /\ R'.skipped = R.skipped
    BY <1>4, <2>1 DEF Crashed
  <2>3. SelOK(R)
    BY <1>4 DEF PhaseInv, Crashed
  <2> QED BY <2>2, <2>3 DEF FreshOK, SelOK, Early, Parts
<1>5. ASSUME UNCHANGED vars PROVE cur' > 0 => FreshOK(R)' /\ SelOK(R)'
  BY <1>5 DEF vars, R, PhaseInv, FreshOK, SelOK, Parts
<1> QED BY <1>1, <1>2, <1>3, <1>4, <1>5, Steps

LEMMA CreatedStep ==
    ASSUME RunsInv, StoreInv, TabInv, PhaseInv, [Next]_vars
    PROVE  cur' > 0 => ModeOK(R)' /\ CreatedOK(R)'
<1>n. MaxRuns \in Nat /\ cur \in 0..MaxRuns
  BY RestoreAssumption DEF RunsInv
<1>o. /\ \A t \in Tables : t \in Objects
      /\ \A o \in Later \cup Views : o \in Objects /\ o \notin Tables
  BY RestoreAssumption DEF Objects
<1>1. ASSUME NEW n \in RunRec, Set(cur + 1, n), Starting(n) PROVE ModeOK(R)' /\ CreatedOK(R)'
  <2>1. cur + 1 \in 1..MaxRuns /\ cur' = cur + 1
    BY <1>n, <1>1 DEF Starting
  <2>2. R' = n
    <3>1. run'[cur + 1] = n
      BY <1>1, <2>1, SetRun
    <3> QED BY <1>n, <2>1, <3>1 DEF R
  <2>3. n.pc \in {"drop", "databases", "load"} /\ (n.pc = "load" => n.cmd.kind = "data")
    BY <1>1 DEF Starting
  <2> QED BY <2>2, <2>3 DEF ModeOK, CreatedOK
<1>2. ASSUME Moving PROVE ModeOK(R)' /\ CreatedOK(R)'
  <2>1. PICK n \in RunRec :
        /\ cur > 0 /\ Set(cur, n)
        /\ Dropping(n) \/ Building(n) \/ Loading(n) \/ Checking(n) \/ Ending(n) \/ \E t \in Tables : ModeMove(t, n)
    BY <1>2 DEF Moving
  <2>2. cur' = cur
    BY <2>1 DEF Dropping, Building, Loading, Checking, Ending, ModeMove
  <2>3. R' = n
    BY <2>1, <2>2, SetCur
  <2>4. ModeOK(R) /\ CreatedOK(R) /\ R.allowed \subseteq Tables
    BY <2>1, CurRec DEF PhaseInv
  <2>5. CASE Dropping(n)
    <3>1. n.pc \in {"drop", "dropdb", "databases", "failed"}
      BY <2>5 DEF Dropping
    <3> QED BY <2>3, <3>1 DEF ModeOK, CreatedOK
  <2>6. CASE Building(n)
    <3>1. n.pc # "tasks"
      BY <2>6 DEF Building
    <3>2. n.cmd = R.cmd /\ n.allowed = R.allowed
      BY <2>6 DEF Building, Quiet
    <3>3. \A o \in Objects : tab'[o] = tab[o] \/ tab'[o] = "live"
      BY <2>6 DEF Building
    <3>4. ASSUME n.cmd.kind = "full"
          PROVE  /\ n.pc = "tables" => \A t \in n.allowed \ n.todo : tab'[t] # "absent"
                 /\ n.pc \in {"load", "sync", "tasks", "mutations", "postponed", "ddl", "extras", "finish", "ok"} =>
                       \A t \in n.allowed : tab'[t] # "absent"
      <4>1. ASSUME n.pc = "tables", NEW t \in n.allowed \ n.todo PROVE tab'[t] # "absent"
        <5>0. t \in Objects /\ t \in R.allowed
          BY <1>o, <2>4, <3>2
        <5>1. CASE R.pc = "databases"
          BY <2>6, <3>2, <4>1, <5>1 DEF Building
        <5>2. CASE R.pc = "tables"
          <6>1. PICK o \in R.todo : n.todo = R.todo \ {o} /\ tab'[o] \in {"live", "readonly"}
            BY <2>6, <4>1, <5>2 DEF Building
          <6>2. t = o \/ t \notin R.todo
            BY <4>1, <6>1
          <6>3. t \notin R.todo => tab[t] # "absent"
            BY <2>4, <3>2, <3>4, <5>0, <5>2 DEF CreatedOK
          <6> QED BY <3>3, <5>0, <6>1, <6>2, <6>3
        <5> QED BY <2>6, <4>1, <5>1, <5>2 DEF Building
      <4>2. ASSUME n.pc \in {"load", "sync", "tasks", "mutations", "postponed", "ddl", "extras", "finish", "ok"},
                   NEW t \in n.allowed
            PROVE  tab'[t] # "absent"
        <5>0. t \in Objects /\ t \in R.allowed
          BY <1>o, <2>4, <3>2
        <5>1. CASE R.pc = "tables"
          <6>1. R.todo = {}
            BY <2>6, <3>2, <3>4, <4>2, <5>1 DEF Building
          <6> QED BY <2>4, <3>2, <3>3, <3>4, <5>0, <5>1, <6>1 DEF CreatedOK
        <5>2. CASE R.pc \in {"postponed", "ddl"}
          BY <2>4, <3>2, <3>3, <3>4, <5>0, <5>2 DEF CreatedOK
        <5>3. R.pc # "databases"
          BY <2>6, <4>2 DEF Building
        <5> QED BY <2>6, <5>1, <5>2, <5>3 DEF Building
      <4> QED BY <4>1, <4>2
    <3>5. ASSUME n.cmd.kind = "full"
          PROVE  /\ n.pc = "postponed" => \A o \in Later \ n.todo : tab'[o] = "live"
                 /\ n.pc \in {"ddl", "extras", "finish", "ok"} => \A o \in Later : tab'[o] = "live"
      <4>1. ASSUME n.pc = "postponed", NEW o \in Later \ n.todo PROVE tab'[o] = "live"
        <5>1. R.pc = "postponed"
          BY <2>6, <3>2, <3>5, <4>1 DEF Building
        <5>2. PICK p \in R.todo : n.todo = R.todo \ {p} /\ tab'[p] \in {"live", "readonly"}
          BY <2>6, <4>1, <5>1 DEF Building
        <5>3. o \notin R.todo => tab[o] = "live"
          BY <2>4, <3>2, <3>5, <5>1 DEF CreatedOK
        <5>4. tab[o] \in {"absent", "live"} /\ o \in Objects
          BY <1>o DEF TabInv
        <5> QED BY <3>3, <4>1, <5>2, <5>3, <5>4
      <4>2. ASSUME n.pc \in {"ddl", "extras", "finish", "ok"}, NEW o \in Later PROVE tab'[o] = "live"
        <5>1. tab[o] = "live"
          <6>1. CASE R.pc = "postponed"
            <7>1. R.todo = {}
              BY <2>6, <3>2, <3>5, <4>2, <6>1 DEF Building
            <7> QED BY <2>4, <3>2, <3>5, <6>1, <7>1 DEF CreatedOK
          <6>2. CASE R.pc = "ddl"
            BY <2>4, <3>2, <3>5, <6>2 DEF CreatedOK
          <6> QED BY <2>6, <3>2, <3>5, <4>2, <6>1, <6>2 DEF Building
        <5> QED BY <1>o, <3>3, <5>1
      <4> QED BY <4>1, <4>2
    <3>6. ASSUME n.cmd.kind = "full"
          PROVE  /\ n.pc = "ddl" => \A o \in Views \ (n.todo \cup n.failed) : tab'[o] = "live"
                 /\ n.pc \in {"extras", "finish", "ok"} => \A o \in Views : tab'[o] = "live"
      <4>1. ASSUME n.pc = "ddl", NEW o \in Views \ (n.todo \cup n.failed) PROVE tab'[o] = "live"
        <5>1. CASE R.pc = "ddl"
          <6>1. o \in R.todo \cup R.failed => tab'[o] = "live"
            BY <2>6, <4>1, <5>1 DEF Building
          <6>2. o \notin R.todo \cup R.failed => tab[o] = "live"
            BY <2>4, <3>2, <3>6, <5>1 DEF CreatedOK
          <6> QED BY <1>o, <3>3, <6>1, <6>2
        <5>2. CASE R.pc # "ddl"
          BY <2>6, <3>2, <3>6, <4>1, <5>2 DEF Building
        <5> QED BY <5>1, <5>2
      <4>2. ASSUME n.pc \in {"extras", "finish", "ok"}, NEW o \in Views PROVE tab'[o] = "live"
        <5>1. R.pc = "ddl" /\ R.todo = {} /\ R.failed = {}
          BY <2>6, <3>2, <3>6, <4>2 DEF Building
        <5>2. tab[o] = "live"
          BY <2>4, <3>2, <3>6, <5>1 DEF CreatedOK
        <5> QED BY <1>o, <3>3, <5>2
      <4> QED BY <4>1, <4>2
    <3> QED BY <2>3, <3>1, <3>4, <3>5, <3>6 DEF ModeOK, CreatedOK
  <2>7. CASE Loading(n)
    <3>1. n.pc = "sync" /\ R.pc = "load" /\ n.cmd = R.cmd /\ n.allowed = R.allowed /\ tab' = tab
      BY <2>7 DEF Loading
    <3> QED BY <2>3, <2>4, <3>1 DEF ModeOK, CreatedOK
  <2>8. CASE Checking(n)
    <3>1. n.pc = "tasks" /\ R.pc = "sync" /\ n.cmd = R.cmd /\ n.allowed = R.allowed /\ tab' = tab
      BY <2>8 DEF Checking
    <3>2. \A t \in Tables : /\ n.task[t].pc \in {"none", "detach", "ready"}
                            /\ n.task[t].pc = "detach" => t \in Planned(n.cmd)
      BY <2>8, <3>1 DEF Checking
    <3>3. ModeOK(R)'
      BY <2>3, <3>1, <3>2 DEF ModeOK, Planned
    <3>4. CreatedOK(R)'
      BY <2>3, <2>4, <3>1 DEF CreatedOK
    <3> QED BY <3>3, <3>4
  <2>9. CASE Ending(n)
    <3>1. n.cmd = R.cmd /\ n.allowed = R.allowed /\ tab' = tab /\ n.pc # "tasks"
      BY <2>9 DEF Ending, Quiet
    <3>2. \/ n.pc \in {"failed", "killed", "partial"}
          \/ R.pc = "tasks" /\ n.pc = "mutations"
          \/ R.pc = "mutations" /\ n.cmd.kind = "data"
          \/ R.pc = "mutations" /\ n.pc = "postponed" /\ n.todo = Later
          \/ R.pc = "extras" /\ n.pc = "finish"
          \/ R.pc = "finish" /\ n.pc = "ok"
      BY <2>9, <3>1 DEF Ending
    <3> QED BY <2>3, <2>4, <3>1, <3>2 DEF ModeOK, CreatedOK
  <2>10. ASSUME NEW t \in Tables, ModeMove(t, n) PROVE ModeOK(R)' /\ CreatedOK(R)'
    <3>1. R.pc = "tasks" /\ n.pc = "tasks" /\ n.cmd = R.cmd /\ n.allowed = R.allowed
      BY <2>10 DEF ModeMove, Others
    <3>2. /\ \A u \in Tables : u # t => n.task[u] = R.task[u] /\ tab'[u] = tab[u]
          /\ \A o \in Later \cup Views : tab'[o] = tab[o]
      BY <1>o, <2>10 DEF ModeMove, Others
    <3>3. /\ R.task[t].pc \in {"detach", "link", "reattach"} => t \in Planned(R.cmd)
          /\ R.task[t].pc \in {"link", "reattach"} => tab[t] = "detached"
      BY <2>4, <3>1 DEF ModeOK
    <3>4. /\ n.task[t].pc \in {"detach", "link", "reattach"} => t \in Planned(R.cmd)
          /\ n.task[t].pc \in {"link", "reattach"} => tab'[t] = "detached"
          /\ tab[t] # "absent" => tab'[t] # "absent"
      BY <2>10, <3>3 DEF ModeMove
    <3>5. ModeOK(R)'
      BY <2>3, <2>4, <3>1, <3>2, <3>4 DEF ModeOK, Planned
    <3>6. CreatedOK(R)'
      BY <2>3, <2>4, <3>1, <3>2, <3>4 DEF CreatedOK
    <3> QED BY <3>5, <3>6
  <2> QED BY <2>1, <2>5, <2>6, <2>7, <2>8, <2>9, <2>10
<1>3. ASSUME Working PROVE ModeOK(R)' /\ CreatedOK(R)'
  <2>1. PICK r \in 1..cur, t \in Tables, n \in RunRec : Set(r, n) /\ TaskMove(r, t, n)
    BY <1>3 DEF Working
  <2>2. cur' = cur /\ tab' = tab
    BY <2>1 DEF TaskMove
  <2>3. cur > 0 /\ R = run[cur] /\ (r = cur => R' = n) /\ (r # cur => R' = R)
    BY <2>1, <2>2, SetTaskRun
  <2>4. ModeOK(R) /\ CreatedOK(R)
    BY <2>3 DEF PhaseInv
  <2>5. CASE r = cur
    <3>1. /\ n.cmd = R.cmd /\ n.allowed = R.allowed /\ n.pc = R.pc /\ n.pc \in {"tasks", "killed"}
          /\ \A u \in Tables : u # t => n.task[u] = R.task[u]
      BY <2>1, <2>3, <2>5 DEF TaskMove, Others
    <3>2. n.task[t].pc = R.task[t].pc \/ n.task[t].pc \in {"err", "done", "s3", "stage", "attach"}
      BY <2>1, <2>3, <2>5 DEF TaskMove
    <3>3. ModeOK(R)'
      BY <2>2, <2>3, <2>4, <2>5, <3>1, <3>2 DEF ModeOK, Planned
    <3>4. CreatedOK(R)'
      BY <2>2, <2>3, <2>4, <2>5, <3>1 DEF CreatedOK
    <3> QED BY <3>3, <3>4
  <2>6. CASE r # cur
    BY <2>2, <2>3, <2>4, <2>6 DEF ModeOK, CreatedOK, Planned
  <2> QED BY <2>5, <2>6
<1>4. ASSUME Crashed PROVE ModeOK(R)' /\ CreatedOK(R)'
  <2>1. cur' = cur /\ cur \in 1..MaxRuns /\ R = run[cur] /\ R' = run'[cur]
    BY <1>n, <1>4 DEF Crashed, R
  <2>2. R'.pc = "dead"
    BY <1>4, <2>1 DEF Crashed
  <2> QED BY <2>2 DEF ModeOK, CreatedOK
<1>5. ASSUME UNCHANGED vars PROVE cur' > 0 => ModeOK(R)' /\ CreatedOK(R)'
  BY <1>5 DEF vars, R, PhaseInv, ModeOK, CreatedOK, Planned
<1> QED BY <1>1, <1>2, <1>3, <1>4, <1>5, Steps

LEMMA BaseStep ==
    ASSUME BaseInv, [Next]_vars
    PROVE  BaseInv'
<1>0. RunsInv /\ StoreInv /\ NamesInv /\ TabInv /\ PhaseInv
  BY DEF BaseInv
<1>1. RunsInv'
  BY <1>0, RunsStep
<1>2. StoreInv' /\ NamesInv'
  BY <1>0, StoreStep
<1>3. TabInv'
  BY <1>0, TabStep
<1>4. PhaseInv'
  <2>1. cur' > 0 => FreshOK(R)' /\ SelOK(R)'
    BY <1>0, FreshStep
  <2>2. cur' > 0 => ModeOK(R)' /\ CreatedOK(R)'
    BY <1>0, CreatedStep
  <2> QED BY <2>1, <2>2 DEF PhaseInv
<1> QED BY <1>1, <1>2, <1>3, <1>4 DEF BaseInv

LEMMA BaseInit == Init => BaseInv
<1> SUFFICES ASSUME Init PROVE BaseInv
  OBVIOUS
<1>1. PICK old \in Before :
         /\ tab = [o \in Objects |-> IF old THEN "live" ELSE "absent"]
         /\ live = [t \in Tables |-> IF old THEN {<<1, 0>>} ELSE {}]
  BY DEF Init
<1>2. RunsInv
  <2>1. cur = 0 /\ run = [r \in 1..MaxRuns |-> NoRun]
    BY DEF Init
  <2>2. PlainOK(NoRun)
    BY NoRunType DEF PlainOK
  <2>3. run \in [1..MaxRuns -> RunRec]
    BY <2>1, NoRunType
  <2> QED BY <2>1, <2>2, <2>3, RestoreAssumption DEF RunsInv
<1>3. \A t \in Tables : live[t] = {<<1, 0>>} \/ live[t] = {}
  BY <1>1
<1>4. StoreInv
  <2>1. tab \in [Objects -> TabStates]
    BY <1>1 DEF TabStates
  <2>2. live \in [Tables -> SUBSET (Nat \X Nat)]
    BY <1>1
  <2>3. \A t \in Tables : \A x \in live[t] : x[2] \in Blocks[t] \cup {0}
    BY <1>3
  <2>4. /\ staged \in [Tables -> SUBSET Nat] /\ \A t \in Tables : staged[t] \subseteq Blocks[t]
        /\ benign \in [Tables -> SUBSET Nat] /\ \A t \in Tables : benign[t] \subseteq Blocks[t]
    BY DEF Init
  <2> QED BY <2>1, <2>2, <2>3, <2>4 DEF Init, StoreInv
<1>5. NamesInv
  <2> SUFFICES ASSUME NEW t \in Tables
               PROVE  /\ IsFiniteSet(live[t]) /\ \A x \in live[t] : x[1] # 0
                      /\ \A x, y \in live[t] : x[1] = y[1] => x = y
    BY DEF NamesInv
  <2>1. IsFiniteSet(live[t])
    <3>1. \A x : IsFiniteSet({x})
      BY FS_Singleton
    <3>2. IsFiniteSet({<<1, 0>>}) /\ IsFiniteSet({})
      BY <3>1, FS_EmptySet
    <3> QED BY <1>3, <3>2
  <2> QED BY <1>3, <2>1
<1>6. TabInv
  <2>1. \A o \in Objects : tab[o] \in {"absent", "live"}
    BY <1>1
  <2>2. \A t \in Tables : live[t] # {} \/ benign[t] # {} => tab[t] # "absent"
    BY <1>1 DEF Objects, Init
  <2> QED BY <2>1, <2>2 DEF TabInv, Objects
<1>7. PhaseInv
  BY DEF Init, PhaseInv
<1> QED BY <1>2, <1>4, <1>5, <1>6, <1>7 DEF BaseInv

LEMMA BaseCorrect == Spec => []BaseInv
<1>1. BaseInv /\ [Next]_vars => BaseInv'
  BY BaseStep
<1> QED BY <1>1, BaseInit, PTL DEF Spec

(* The variables keep their shapes and a table's part names are unique     *)
(* (NextBlock, the links of ATTACH TABLE mode), for every number of tables,*)
(* restores, faults and kills.                                             *)
THEOREM TypeCorrect == Spec => []TypeOK
<1>1. BaseInv => TypeOK
  <2> SUFFICES ASSUME BaseInv PROVE TypeOK
    OBVIOUS
  <2>0. RunsInv /\ StoreInv /\ NamesInv
    BY DEF BaseInv
  <2>1. cur \in 0..MaxRuns /\ DOMAIN run = 1..MaxRuns
    BY <2>0 DEF RunsInv
  <2>2. \A o \in Objects : tab[o] \in {"absent", "live", "detached", "readonly"}
    BY <2>0 DEF StoreInv, TabStates
  <2>3. \A t \in Tables :
         /\ \A x \in live[t] : x[1] \in Nat \ {0} /\ x[2] \in Blocks[t] \cup {0}
         /\ \A x, y \in live[t] : x[1] = y[1] => x = y
         /\ staged[t] \subseteq Blocks[t] /\ benign[t] \subseteq Blocks[t]
    BY <2>0 DEF StoreInv, NamesInv
  <2>4. file = NoState \/ (DOMAIN file = {"params", "attached"} /\ DOMAIN file.attached = Tables)
    <3>1. CASE file \in FileRec
      BY <3>1 DEF FileRec
    <3> QED BY <2>0, <3>1 DEF StoreInv
  <2> QED BY <2>0, <2>1, <2>2, <2>3, <2>4 DEF TypeOK, StoreInv
<1> QED BY <1>1, BaseCorrect, PTL

-----------------------------------------------------------------------------
(* Where the parts are *)

LEMMA DataGrows ==
    ASSUME NEW t \in Tables, Grows(t)
    PROVE  Has(t) \subseteq Has(t)'
  BY DEF Has, Data, Grows

LEMMA TaskMono ==
    ASSUME NEW a, NEW n, NEW t \in Tables, TaskOK(a, t), n.task[t] = a.task[t],
           a.skipped \subseteq n.skipped, Grows(t), lost' = lost
    PROVE  TaskOK(n, t)'
<1>1. Has(t) \subseteq Has(t)'
  BY DataGrows
<1> QED BY <1>1 DEF TaskOK, Skips

(* A task of the present restore. *)
LEMMA TaskData ==
    ASSUME NEW r \in 1..cur, NEW t \in Tables, NEW n \in RunRec, NEW a \in RunRec, a = run[r],
           TaskMove(r, t, n), a.pc = "tasks", TaskOK(a, t), a.already[t] \cap Blocks[t] \subseteq Has(t)
    PROVE  TaskOK(n, t)'
<1> DEFINE k == a.task[t]
           m == n.task[t]
<1>1. Has(t) \subseteq Has(t)' /\ a.skipped \subseteq n.skipped /\ lost' = lost
  BY DataGrows DEF TaskMove, Others
<1>2. CASE m.pc \in {"err", "s3", "stage"}
  BY <1>2 DEF TaskOK
<1>3. CASE /\ m.pc = "attach" /\ k.pc = "stage"
           /\ \A b \in Blocks[t] : b \in a.already[t] \/ b \in m.work \/ <<t, b>> \in n.skipped
  <2>1. Blocks[t] \subseteq Has(t)' \cup Skips(n, t) \cup m.work
    BY <1>1, <1>3 DEF Skips
  <2> QED BY <1>3, <2>1 DEF TaskOK, Skips
<1>4. CASE m.pc = k.pc /\ m.work = k.work /\ m.bad = k.bad
  BY <1>1, <1>4 DEF TaskOK, Skips
<1>5. CASE /\ m.pc = "attach" /\ k.pc = "attach"
           /\ \/ m.bad
              \/ /\ ~k.bad
                 /\ \A b \in k.work : b \in m.work \/ <<t, b>> \in n.skipped \/ b \in Has(t)'
  <2>1. ASSUME ~m.bad PROVE Blocks[t] \subseteq Has(t)' \cup Skips(n, t) \cup m.work
    <3>1. Blocks[t] \subseteq Has(t) \cup Skips(a, t) \cup k.work
      BY <1>5, <2>1 DEF TaskOK
    <3>2. \A b \in k.work : b \in m.work \/ <<t, b>> \in n.skipped \/ b \in Has(t)'
      BY <1>5, <2>1
    <3> QED BY <1>1, <3>1, <3>2 DEF Skips
  <2> QED BY <1>5, <2>1 DEF TaskOK, Skips
<1>6. CASE m.pc = "done" /\ k.pc = "attach" /\ k.work = {} /\ ~k.bad
  BY <1>1, <1>6 DEF TaskOK, Skips
<1> QED BY <1>2, <1>3, <1>4, <1>5, <1>6 DEF TaskMove

LEMMA ModeData ==
    ASSUME NEW t \in Tables, NEW n \in RunRec, NEW a \in RunRec, a = R, ModeMove(t, n), TaskOK(a, t),
           a.task[t].pc = "link" => Names(t) \cap Blocks[t] \subseteq Has(t)
    PROVE  TaskOK(n, t)'
<1>1. Has(t) \subseteq Has(t)' /\ a.skipped \subseteq n.skipped /\ lost' = lost
  BY DataGrows DEF ModeMove, Others, Grows
<1>d. \A b : <<b, b>> \in live'[t] => b \in Has(t)'
  BY DEF Has, Data
<1>2. CASE n.task[t].pc \in {"ready", "link"}
  BY <1>2 DEF TaskOK
<1>3. CASE /\ a.task[t].pc = "link" /\ n.task[t].pc = "reattach"
           /\ \A b \in Blocks[t] : <<t, b>> \in lost \/ b \in Names(t) \/ <<b, b>> \in live'[t]
  <2>1. \A b \in Blocks[t] : b \in Has(t)' \/ <<t, b>> \in lost'
    BY <1>1, <1>3, <1>d
  <2> QED BY <1>3, <2>1 DEF TaskOK
<1>4. CASE a.task[t].pc = "reattach" /\ n.task[t].pc = "done" /\ MissingOf(t) \subseteq n.skipped
  <2>1. \A b \in Blocks[t] : b \in Has(t) \/ <<t, b>> \in n.skipped
    BY <1>4 DEF TaskOK, MissingOf, Parts
  <2>2. Blocks[t] \subseteq Has(t)' \cup Skips(n, t)
    BY <1>1, <2>1 DEF Skips
  <2> QED BY <1>4, <2>2 DEF TaskOK, Skips
<1> QED BY <1>2, <1>3, <1>4 DEF ModeMove

(* The facts about the data, of a record whose phase is past the tasks. *)
LEMMA DataMono ==
    ASSUME NEW a \in RunRec, NEW n, DataOK(a), n.pc = a.pc, n.cmd = a.cmd, n.allowed = a.allowed,
           n.skipped = a.skipped, n.task = a.task, lost' = lost, \A t \in Tables : Grows(t)
    PROVE  DataOK(n)'
<1>1. \A t \in Tables : Has(t) \subseteq Has(t)'
  BY DataGrows
<1>2. a.allowed \subseteq Tables
  BY DEF RunRec
<1>3. ASSUME n.pc = "tasks", NEW t \in n.allowed PROVE TaskOK(n, t)'
  <2>1. t \in Tables /\ TaskOK(a, t)
    BY <1>2, <1>3 DEF DataOK
  <2> QED BY <2>1, TaskMono
<1>4. ASSUME n.pc \in Past, n.cmd.kind # "schema", NEW t \in n.allowed
      PROVE  Blocks[t] \subseteq Has(t)' \cup Skips(n, t)
  <2>1. t \in Tables /\ Blocks[t] \subseteq Has(t) \cup Skips(a, t)
    BY <1>2, <1>4 DEF DataOK
  <2> QED BY <1>1, <2>1 DEF Skips
<1>5. n.pc = "mutations" => \A t \in n.allowed : n.task[t].pc = "done" \/ Parts(t) \subseteq n.skipped
  BY DEF DataOK
<1> QED BY <1>3, <1>4, <1>5 DEF DataOK, Skips, Parts

LEMMA DataStep ==
    ASSUME BaseInv, DataInv, AlreadyInv, NamesTruthful, [Next]_vars
    PROVE  DataInv'
<1>b. RunsInv /\ StoreInv
  BY DEF BaseInv
<1>n. MaxRuns \in Nat /\ cur \in 0..MaxRuns
  BY <1>b, RestoreAssumption DEF RunsInv
<1>1. ASSUME NEW n \in RunRec, Set(cur + 1, n), Starting(n) PROVE DataOK(R)'
  <2>1. cur + 1 \in 1..MaxRuns /\ cur' = cur + 1
    BY <1>n, <1>1 DEF Starting
  <2>2. R' = n
    <3>1. run'[cur + 1] = n
      BY <1>1, <1>b, <2>1, SetRun
    <3> QED BY <1>n, <2>1, <3>1 DEF R
  <2>3. n.pc \in {"drop", "databases", "load"}
    BY <1>1 DEF Starting
  <2> QED BY <2>2, <2>3 DEF DataOK, Past
<1>2. ASSUME Moving PROVE DataOK(R)'
  <2>1. PICK n \in RunRec :
        /\ cur > 0 /\ Set(cur, n)
        /\ Dropping(n) \/ Building(n) \/ Loading(n) \/ Checking(n) \/ Ending(n) \/ \E t \in Tables : ModeMove(t, n)
    BY <1>2 DEF Moving
  <2>2. cur' = cur
    BY <2>1 DEF Dropping, Building, Loading, Checking, Ending, ModeMove
  <2>3. R' = n
    BY <1>b, <2>1, <2>2, SetCur
  <2>4. PICK a \in RunRec : a = R
    BY <1>b, <2>1, CurRec
  <2>5. DataOK(a) /\ AlreadyOK(a) /\ a.allowed \subseteq Tables
    BY <1>b, <2>1, <2>4, CurRec DEF DataInv, AlreadyInv
  <2>6. CASE Dropping(n)
    <3>1. n.pc \in {"drop", "dropdb", "databases", "failed"}
      BY <2>6 DEF Dropping
    <3> QED BY <2>3, <3>1 DEF DataOK, Past
  <2>7. CASE Building(n)
    <3>0. live' = live /\ benign' = benign /\ lost' = lost /\ n.cmd = a.cmd /\ n.allowed = a.allowed /\ n.skipped = a.skipped
      BY <2>4, <2>7 DEF Building, Quiet
    <3>1. n.pc \notin {"tasks", "mutations"}
      BY <2>4, <2>7 DEF Building
    <3>2. ASSUME n.pc \in Past, n.cmd.kind # "schema" PROVE a.pc \in Past
      BY <2>4, <2>7, <3>0, <3>2 DEF Building, Past
    <3>3. ASSUME n.pc \in Past, n.cmd.kind # "schema", NEW t \in n.allowed
          PROVE  Blocks[t] \subseteq Has(t)' \cup Skips(n, t)
      <4>1. Blocks[t] \subseteq Has(t) \cup Skips(a, t)
        BY <2>5, <3>0, <3>2, <3>3 DEF DataOK
      <4> QED BY <3>0, <4>1 DEF Skips, Has, Data
    <3> QED BY <2>3, <3>1, <3>3 DEF DataOK, Skips
  <2>8. CASE Loading(n)
    <3>1. n.pc = "sync"
      BY <2>8 DEF Loading
    <3> QED BY <2>3, <3>1 DEF DataOK, Past
  <2>9. CASE Checking(n)
    <3>1. n.pc = "tasks" /\ n.allowed = a.allowed
      BY <2>4, <2>9 DEF Checking
    <3>2. ASSUME NEW t \in n.allowed PROVE TaskOK(n, t)'
      <4>1. /\ n.task[t].pc \in {"none", "detach", "ready"}
            /\ n.task[t].pc = "none" => Parts(t) \subseteq n.skipped
        BY <2>4, <2>5, <2>9, <3>1, <3>2 DEF Checking
      <4> QED BY <4>1 DEF TaskOK, Parts
    <3> QED BY <2>3, <3>1, <3>2 DEF DataOK, Past
  <2>10. CASE Ending(n)
    <3>0. /\ live' = live /\ benign' = benign /\ lost' = lost /\ n.cmd = a.cmd /\ n.allowed = a.allowed
          /\ n.skipped = a.skipped /\ n.task = a.task /\ n.pc # "tasks"
      BY <2>4, <2>10 DEF Ending, Quiet
    <3>1. \/ n.pc \in {"failed", "killed", "partial"}
          \/ /\ a.pc = "tasks" /\ n.pc = "mutations" /\ \A t \in Tables : a.task[t].pc \in {"none", "done"}
          \/ a.pc \in Past /\ n.pc \in Past \ {"mutations"}
      BY <2>4, <2>10 DEF Ending, Past
    <3>2. ASSUME n.pc = "mutations", NEW t \in n.allowed
          PROVE  n.task[t].pc = "done" \/ Parts(t) \subseteq n.skipped
      <4>1. TaskOK(a, t) /\ a.task[t].pc \in {"none", "done"}
        BY <2>5, <3>0, <3>1, <3>2 DEF DataOK, Past
      <4> QED BY <3>0, <4>1 DEF TaskOK
    <3>3. ASSUME n.pc \in Past, n.cmd.kind # "schema", NEW t \in n.allowed
          PROVE  Blocks[t] \subseteq Has(t)' \cup Skips(n, t)
      <4>1. Blocks[t] \subseteq Has(t) \cup Skips(a, t)
        <5>1. CASE a.pc \in Past
          BY <2>5, <3>0, <3>3, <5>1 DEF DataOK
        <5>2. CASE a.pc = "tasks" /\ \A u \in Tables : a.task[u].pc \in {"none", "done"}
          <6>1. TaskOK(a, t) /\ a.task[t].pc \in {"none", "done"}
            BY <2>5, <3>0, <3>3, <5>2 DEF DataOK
          <6> QED BY <6>1 DEF TaskOK, Skips, Parts
        <5> QED BY <3>1, <3>3, <5>1, <5>2 DEF Past
      <4> QED BY <3>0, <4>1 DEF Skips, Has, Data
    <3> QED BY <2>3, <3>0, <3>2, <3>3 DEF DataOK, Skips, Parts
  <2>11. ASSUME NEW t \in Tables, ModeMove(t, n) PROVE DataOK(R)'
    <3>1. /\ n.pc = "tasks" /\ a.pc = "tasks" /\ n.allowed = a.allowed /\ a.skipped \subseteq n.skipped /\ lost' = lost
          /\ \A u \in Tables : Grows(u) /\ (u # t => n.task[u] = a.task[u])
      BY <2>4, <2>11 DEF ModeMove, Others, Grows
    <3>2. ASSUME NEW u \in n.allowed PROVE TaskOK(n, u)'
      <4>1. TaskOK(a, u) /\ u \in Tables
        BY <2>5, <3>1, <3>2 DEF DataOK
      <4>2. CASE u # t
        BY <3>1, <4>1, <4>2, TaskMono
      <4>3. CASE u = t
        <5>1. a.task[t].pc = "link" => Names(t) \cap Blocks[t] \subseteq Has(t)
          BY <2>1, <2>4, <3>1 DEF NamesTruthful
        <5> QED BY <2>4, <2>11, <4>1, <4>3, <5>1, ModeData
      <4> QED BY <4>2, <4>3
    <3> QED BY <2>3, <3>1, <3>2 DEF DataOK, Past
  <2> QED BY <2>1, <2>6, <2>7, <2>8, <2>9, <2>10, <2>11
<1>3. ASSUME Working PROVE DataOK(R)'
  <2>1. PICK r \in 1..cur, t \in Tables, n \in RunRec : Set(r, n) /\ TaskMove(r, t, n)
    BY <1>3 DEF Working
  <2>2. cur' = cur /\ lost' = lost /\ \A u \in Tables : Grows(u)
    BY <2>1 DEF TaskMove, Grows
  <2>3. cur > 0 /\ R = run[cur] /\ (r = cur => R' = n) /\ (r # cur => R' = R)
    BY <1>b, <2>1, <2>2, SetTaskRun
  <2>4. PICK a \in RunRec : a = R
    BY <1>b, <2>3, CurRec
  <2>5. DataOK(a) /\ AlreadyOK(a) /\ a.allowed \subseteq Tables
    BY <1>b, <2>3, <2>4, CurRec DEF DataInv, AlreadyInv
  <2>6. CASE r = cur
    <3>1. /\ n.allowed = a.allowed /\ n.pc = a.pc /\ n.pc \in {"tasks", "killed"} /\ a.skipped \subseteq n.skipped
          /\ \A u \in Tables : u # t => n.task[u] = a.task[u]
      BY <2>1, <2>3, <2>4, <2>6 DEF TaskMove, Others
    <3>2. ASSUME n.pc = "tasks", NEW u \in n.allowed PROVE TaskOK(n, u)'
      <4>1. TaskOK(a, u) /\ u \in Tables /\ a.already[u] \cap Blocks[u] \subseteq Has(u)
        BY <2>5, <3>1, <3>2 DEF DataOK, AlreadyOK
      <4>2. CASE u # t
        BY <2>2, <3>1, <4>1, <4>2, TaskMono
      <4>3. CASE u = t
        BY <2>1, <2>3, <2>4, <2>6, <3>1, <3>2, <4>1, <4>3, TaskData
      <4> QED BY <4>2, <4>3
    <3> QED BY <2>3, <2>6, <3>1, <3>2 DEF DataOK, Past
  <2>7. CASE r # cur
    <3>1. DataOK(a)'
      BY <2>2, <2>5, DataMono
    <3> QED BY <2>3, <2>4, <2>7, <3>1 DEF DataOK, TaskOK, Skips, Parts
  <2> QED BY <2>6, <2>7
<1>4. ASSUME Crashed PROVE DataOK(R)'
  <2>1. cur' = cur /\ cur \in 1..MaxRuns /\ R' = run'[cur]
    BY <1>n, <1>4 DEF Crashed, R
  <2>2. R'.pc = "dead"
    BY <1>4, <2>1 DEF Crashed
  <2> QED BY <2>2 DEF DataOK, Past
<1>5. ASSUME UNCHANGED vars PROVE DataInv'
  BY <1>5 DEF vars, R, DataInv, DataOK, TaskOK, Skips, Parts, Has, Data
<1> QED BY <1>b, <1>1, <1>2, <1>3, <1>4, <1>5, Steps DEF DataInv

-----------------------------------------------------------------------------
(* What is taken for attached is, in memory and in the state file *)

(* The state a restore starts from, when the file and the names are true. *)
LEMMA LoadedTrue ==
    ASSUME BaseInv, NamesTruthful, cur > 0, R.cmd.resume => FileInv, NEW n \in RunRec, Loading(n),
           NEW t \in Tables
    PROVE  n.already[t] \cap Blocks[t] \subseteq Has(t)
<1>1. R.pc = "load" /\ n.already[t] \subseteq Loaded[t] \cup Names(t)
      /\ (~R.cmd.resume \/ t \notin R.allowed => n.already[t] = {})
  BY DEF Loading
<1>2. CASE ~R.cmd.resume \/ t \notin R.allowed
  BY <1>1, <1>2
<1>3. CASE R.cmd.resume /\ t \in R.allowed
  <2>1. Names(t) \cap Blocks[t] \subseteq Has(t)
    BY <1>1, <1>3 DEF NamesTruthful, cmd
  <2>2. Loaded[t] \cap Blocks[t] \subseteq Has(t)
    <3>1. CASE file # NoState /\ file.params = params_hash(cmd)
      <4>1. Loaded = file.attached
        BY <3>1 DEF Loaded
      <4>2. file.attached[t] \cap Blocks[t] \subseteq Has(t)
        BY <1>3, <3>1 DEF FileInv
      <4> QED BY <4>1, <4>2
    <3>2. CASE ~(file # NoState /\ file.params = params_hash(cmd))
      <4>1. Loaded = [u \in Tables |-> {}]
        BY <3>2 DEF Loaded
      <4> QED BY <4>1
    <3> QED BY <3>1, <3>2
  <2> QED BY <1>1, <2>1, <2>2
<1> QED BY <1>2, <1>3

LEMMA AlreadyStep ==
    ASSUME BaseInv, AlreadyInv, NamesTruthful, cur > 0 => (R.cmd.resume => FileInv), [Next]_vars
    PROVE  AlreadyInv'
<1>b. RunsInv /\ StoreInv
  BY DEF BaseInv
<1>n. MaxRuns \in Nat /\ cur \in 0..MaxRuns
  BY <1>b, RestoreAssumption DEF RunsInv
<1>1. ASSUME NEW n \in RunRec, Set(cur + 1, n), Starting(n) PROVE AlreadyOK(R)'
  <2>1. cur + 1 \in 1..MaxRuns /\ cur' = cur + 1
    BY <1>n, <1>1 DEF Starting
  <2>2. R' = n
    <3>1. run'[cur + 1] = n
      BY <1>1, <1>b, <2>1, SetRun
    <3> QED BY <1>n, <2>1, <3>1 DEF R
  <2>3. n.pc \in {"drop", "databases", "load"}
    BY <1>1 DEF Starting
  <2> QED BY <2>2, <2>3 DEF AlreadyOK
<1>2. ASSUME Moving PROVE AlreadyOK(R)'
  <2>1. PICK n \in RunRec :
        /\ cur > 0 /\ Set(cur, n)
        /\ Dropping(n) \/ Building(n) \/ Loading(n) \/ Checking(n) \/ Ending(n) \/ \E t \in Tables : ModeMove(t, n)
    BY <1>2 DEF Moving
  <2>2. cur' = cur
    BY <2>1 DEF Dropping, Building, Loading, Checking, Ending, ModeMove
  <2>3. R' = n
    BY <1>b, <2>1, <2>2, SetCur
  <2>4. AlreadyOK(R)
    BY <2>1 DEF AlreadyInv
  <2>5. CASE Dropping(n) \/ Building(n) \/ Ending(n)
    <3>1. n.pc \notin {"sync", "tasks"}
      BY <2>5 DEF Dropping, Building, Ending
    <3> QED BY <2>3, <3>1 DEF AlreadyOK
  <2>6. CASE Loading(n)
    <3>1. live' = live /\ benign' = benign
      BY <2>6 DEF Loading
    <3>2. \A t \in Tables : n.already[t] \cap Blocks[t] \subseteq Has(t)
      BY <2>1, <2>6, LoadedTrue
    <3> QED BY <2>3, <3>1, <3>2 DEF AlreadyOK, Has, Data
  <2>7. CASE Checking(n)
    <3>1. live' = live /\ benign' = benign /\ n.already = R.already /\ R.pc = "sync"
      BY <2>7 DEF Checking
    <3> QED BY <2>3, <2>4, <3>1 DEF AlreadyOK, Has, Data
  <2>8. ASSUME NEW t \in Tables, ModeMove(t, n) PROVE AlreadyOK(R)'
    <3>1. n.already = R.already /\ R.pc = "tasks" /\ \A u \in Tables : Grows(u)
      BY <2>8 DEF ModeMove, Others, Grows
    <3>2. \A u \in Tables : Has(u) \subseteq Has(u)'
      BY <3>1, DataGrows
    <3> QED BY <2>3, <2>4, <3>1, <3>2 DEF AlreadyOK
  <2> QED BY <2>1, <2>5, <2>6, <2>7, <2>8
<1>3. ASSUME Working PROVE AlreadyOK(R)'
  <2>1. PICK r \in 1..cur, t \in Tables, n \in RunRec : Set(r, n) /\ TaskMove(r, t, n)
    BY <1>3 DEF Working
  <2>2. cur' = cur /\ \A u \in Tables : Grows(u)
    BY <2>1 DEF TaskMove, Grows
  <2>3. cur > 0 /\ R = run[cur] /\ (r = cur => R' = n) /\ (r # cur => R' = R)
    BY <1>b, <2>1, <2>2, SetTaskRun
  <2>4. AlreadyOK(R)
    BY <2>3 DEF AlreadyInv
  <2>5. R'.pc = R.pc /\ R'.already = R.already
    BY <2>1, <2>3 DEF TaskMove, Others
  <2>6. \A u \in Tables : Has(u) \subseteq Has(u)'
    BY <2>2, DataGrows
  <2> QED BY <2>4, <2>5, <2>6 DEF AlreadyOK
<1>4. ASSUME Crashed PROVE AlreadyOK(R)'
  <2>1. cur' = cur /\ cur \in 1..MaxRuns /\ R' = run'[cur]
    BY <1>n, <1>4 DEF Crashed, R
  <2>2. R'.pc = "dead"
    BY <1>4, <2>1 DEF Crashed
  <2> QED BY <2>2 DEF AlreadyOK
<1>5. ASSUME UNCHANGED vars PROVE AlreadyInv'
  BY <1>5 DEF vars, R, AlreadyInv, AlreadyOK, Has, Data
<1> QED BY <1>b, <1>1, <1>2, <1>3, <1>4, <1>5, Steps DEF AlreadyInv

LEMMA FileStep ==
    ASSUME BaseInv, DataInv, FileInv, StateInv, DropsClean, [Next]_vars
    PROVE  FileInv'
<1>b. RunsInv /\ StoreInv
  BY DEF BaseInv
<1>1. ASSUME NEW n \in RunRec, Starting(n) PROVE FileInv'
  BY <1>1 DEF Starting, FileInv, Has, Data
<1>g. ASSUME file' = file, \A t \in Tables : Grows(t) PROVE FileInv'
  <2>1. \A t \in Tables : Has(t) \subseteq Has(t)'
    BY <1>g, DataGrows
  <2> QED BY <1>g, <2>1 DEF FileInv, NoState
<1>2. CASE Moving
  <2>1. PICK n \in RunRec :
        /\ cur > 0
        /\ Dropping(n) \/ Building(n) \/ Loading(n) \/ Checking(n) \/ Ending(n) \/ \E t \in Tables : ModeMove(t, n)
    BY <1>2 DEF Moving
  <2>2. CASE Dropping(n)
    <3>1. file' = NoState
      BY <2>1, <2>2 DEF Dropping, DropsClean
    <3> QED BY <3>1 DEF FileInv, NoState
  <2>3. CASE Building(n) \/ Loading(n) \/ Checking(n)
    <3>1. file' = file /\ live' = live /\ benign' = benign
      BY <2>3 DEF Building, Loading, Checking
    <3> QED BY <1>g, <3>1 DEF Grows
  <2>4. ASSUME NEW t \in Tables, ModeMove(t, n) PROVE FileInv'
    <3>1. file' = file /\ \A u \in Tables : Grows(u)
      BY <2>4 DEF ModeMove, Grows
    <3> QED BY <1>g, <3>1
  <2>5. CASE Ending(n)
    <3> DEFINE s == [t \in Tables |-> IF t \in R.allowed THEN Blocks[t] ELSE {}]
    <3>1. live' = live /\ benign' = benign
      BY <2>5 DEF Ending
    <3>2. CASE file' = file
      BY <1>g, <3>1, <3>2 DEF Grows
    <3>3. CASE file' # file
      <4>1. /\ R.pc = "finish" /\ R.cmd.kind # "schema" /\ R.skipped = {}
            /\ file' = [params |-> params_hash(R.cmd), attached |-> s]
        BY <2>5, <3>3 DEF Ending
      <4>2. \A t \in R.allowed : Blocks[t] \subseteq Has(t) \cup Skips(R, t)
        BY <2>1, <4>1 DEF DataInv, DataOK, Past
      <4>3. \A t \in R.allowed : Blocks[t] \subseteq Has(t)
        BY <4>1, <4>2 DEF Skips
      <4>4. \A t \in Tables : s[t] \cap Blocks[t] \subseteq Has(t)
        BY <4>3
      <4> HIDE DEF s
      <4>5. file'.attached = s
        BY <4>1
      <4> QED BY <3>1, <4>4, <4>5 DEF FileInv, Has, Data
    <3> QED BY <3>2, <3>3
  <2> QED BY <2>1, <2>2, <2>3, <2>4, <2>5
<1>3. CASE Working
  <2>1. PICK r \in 1..cur, t \in Tables, n \in RunRec : Set(r, n) /\ TaskMove(r, t, n)
    BY <1>3 DEF Working
  <2>2. \A u \in Tables : Grows(u)
    BY <2>1 DEF TaskMove, Grows
  <2>3. CASE file' = file
    BY <1>g, <2>2, <2>3
  <2>4. CASE file' = [params |-> params_hash(run[r].cmd), attached |-> n.st]
    <3>1. run[r].pc \notin Ended \ {"killed"}
      BY <2>1 DEF TaskMove, Ended
    <3>2. \A u \in Tables : /\ run[r].st[u] \cap Blocks[u] \subseteq Has(u)
                            /\ run[r].task[u].unsaved \cap Blocks[u] \subseteq Has(u)
      BY <3>1 DEF StateInv
    <3>3. /\ \A u \in Tables : u # t => n.st[u] = run[r].st[u]
          /\ n.st[t] \subseteq run[r].st[t] \cup run[r].task[t].unsaved
      BY <2>1 DEF TaskMove, Others
    <3>4. \A u \in Tables : n.st[u] \cap Blocks[u] \subseteq Has(u)
      BY <3>2, <3>3
    <3>5. \A u \in Tables : Has(u) \subseteq Has(u)'
      BY <2>2, DataGrows
    <3>6. file'.attached = n.st
      BY <2>4
    <3> QED BY <3>4, <3>5, <3>6 DEF FileInv
  <2> QED BY <2>1, <2>3, <2>4 DEF TaskMove
<1>4. CASE Crashed
  BY <1>g, <1>4 DEF Crashed, Grows
<1>5. CASE UNCHANGED vars
  BY <1>g, <1>5 DEF vars, Grows
<1> QED BY <1>b, <1>1, <1>2, <1>3, <1>4, <1>5, Steps

(* The state of one restore. *)
TrueState(a) ==
    a.pc \notin Ended \ {"killed"} =>
        \A t \in Tables : /\ a.st[t] \cap Blocks[t] \subseteq Has(t)
                          /\ a.task[t].unsaved \cap Blocks[t] \subseteq Has(t)

LEMMA TrueMono ==
    ASSUME NEW a, NEW n, TrueState(a), a.pc \notin Ended \ {"killed"}, n.st = a.st,
           \A t \in Tables : Grows(t) /\ n.task[t].unsaved \subseteq a.task[t].unsaved
    PROVE  TrueState(n)'
<1>1. \A t \in Tables : Has(t) \subseteq Has(t)'
  BY DataGrows
<1> QED BY <1>1 DEF TrueState

LEMMA TrueSame ==
    ASSUME NEW a, TrueState(a), \A t \in Tables : Grows(t)
    PROVE  TrueState(a)'
<1>1. \A t \in Tables : Has(t) \subseteq Has(t)'
  BY DataGrows
<1> QED BY <1>1 DEF TrueState

LEMMA StateStep ==
    ASSUME BaseInv, FileInv, StateInv, DropsClean, NamesTruthful, [Next]_vars
    PROVE  StateInv'
<1>b. RunsInv /\ StoreInv /\ PhaseInv
  BY DEF BaseInv
<1>n. MaxRuns \in Nat /\ cur \in 0..MaxRuns
  BY <1>b, RestoreAssumption DEF RunsInv
<1>t. \A r \in 1..cur : TrueState(run[r])
  BY DEF StateInv, TrueState
<1>s. SUFFICES ASSUME NEW r \in 1..cur'
               PROVE  \E a : run'[r] = a /\ TrueState(a)'
  BY DEF StateInv, TrueState
<1>1. ASSUME NEW n \in RunRec, Set(cur + 1, n), Starting(n)
      PROVE  \E a : run'[r] = a /\ TrueState(a)'
  <2>1. cur + 1 \in 1..MaxRuns /\ cur' = cur + 1 /\ live' = live /\ benign' = benign
    BY <1>n, <1>1 DEF Starting
  <2>2. run'[cur + 1] = n /\ \A s \in 1..MaxRuns : s # cur + 1 => run'[s] = run[s]
    BY <1>1, <1>b, <2>1, SetRun
  <2>3. CASE r = cur + 1
    <3>1. TrueState(n)'
      BY <1>1 DEF Starting, TrueState
    <3> QED BY <2>2, <2>3, <3>1
  <2>4. CASE r # cur + 1
    <3>1. r \in 1..cur /\ r \in 1..MaxRuns
      BY <1>n, <2>1, <2>4
    <3>2. PICK a : a = run[r]
      OBVIOUS
    <3>3. TrueState(a)
      BY <1>t, <3>1, <3>2
    <3>4. TrueState(a)'
      BY <2>1, <3>3, TrueSame DEF Grows
    <3> QED BY <2>2, <2>4, <3>1, <3>2, <3>4
  <2> QED BY <2>3, <2>4
<1>2. CASE Moving
  <2>1. PICK n \in RunRec :
        /\ cur > 0 /\ Set(cur, n) /\ R.pc \notin Ended
        /\ Dropping(n) \/ Building(n) \/ Loading(n) \/ Checking(n) \/ Ending(n) \/ \E t \in Tables : ModeMove(t, n)
    BY <1>2 DEF Moving
  <2>2. cur' = cur
    BY <2>1 DEF Dropping, Building, Loading, Checking, Ending, ModeMove
  <2>3. cur \in 1..MaxRuns /\ R = run[cur]
    BY <1>b, <2>1, CurRec
  <2>4. run'[cur] = n /\ \A s \in 1..MaxRuns : s # cur => run'[s] = run[s]
    BY <1>b, <2>1, <2>3, SetRun
  <2>5. PICK a : a = R
    OBVIOUS
  <2>6. TrueState(a) /\ a.pc \notin Ended
    BY <1>t, <2>1, <2>3, <2>5
  <2>7. CASE r = cur
    <3>1. CASE Dropping(n)
      <4>1. \A t \in Tables : n.st[t] = {} /\ n.task[t].unsaved = {}
        BY <1>b, <2>1, <3>1 DEF Dropping, Quiet, PhaseInv, FreshOK, Early
      <4>2. TrueState(n)'
        BY <4>1 DEF TrueState
      <4> QED BY <2>4, <2>7, <4>2
    <3>2. CASE Building(n) \/ Ending(n)
      <4>1. live' = live /\ benign' = benign /\ n.st = a.st /\ n.task = a.task
        BY <2>5, <3>2 DEF Building, Ending, Quiet
      <4>2. TrueState(n)'
        BY <2>6, <4>1, TrueMono DEF Grows
      <4> QED BY <2>4, <2>7, <4>2
    <3>3. CASE Checking(n)
      <4>1. live' = live /\ benign' = benign /\ n.st = a.st /\ \A t \in Tables : n.task[t].unsaved = {}
        BY <2>5, <3>3 DEF Checking
      <4>2. TrueState(n)'
        BY <2>6, <4>1, TrueMono DEF Grows
      <4> QED BY <2>4, <2>7, <4>2
    <3>4. ASSUME NEW t \in Tables, ModeMove(t, n) PROVE TrueState(n)'
      <4>1. /\ n.st = a.st
            /\ \A u \in Tables : Grows(u) /\ n.task[u].unsaved \subseteq a.task[u].unsaved
        BY <2>5, <3>4 DEF ModeMove, Others, Grows
      <4> QED BY <2>6, <4>1, TrueMono
    <3>5. CASE Loading(n)
      <4>1. \A t \in Tables : n.already[t] \cap Blocks[t] \subseteq Has(t)
        BY <2>1, <3>5, LoadedTrue
      <4>2. \A t \in Tables : n.task[t].unsaved = {}
        BY <1>b, <2>1, <3>5 DEF Loading, PhaseInv, FreshOK, Early
      <4>3. live' = live /\ benign' = benign /\ n.st = n.already
        BY <3>5 DEF Loading
      <4>4. TrueState(n)'
        BY <4>1, <4>2, <4>3 DEF TrueState, Has, Data
      <4> QED BY <2>4, <2>7, <4>4
    <3> QED BY <2>1, <2>4, <2>7, <3>1, <3>2, <3>3, <3>4, <3>5
  <2>8. CASE r # cur
    <3>1. r \in 1..MaxRuns /\ r < cur /\ r \in 1..cur
      BY <1>n, <2>2, <2>8
    <3>2. PICK c : c = run[r]
      OBVIOUS
    <3>3. run'[r] = c /\ TrueState(c) /\ c.pc \in Ended /\ PlainOK(c)
      BY <1>b, <1>t, <2>4, <2>8, <3>1, <3>2 DEF RunsInv
    <3>4. CASE Dropping(n)
      <4>1. c.pc = "killed" => ~c.cmd.resume
        BY <2>1, <3>1, <3>2, <3>4 DEF Dropping, DropsClean
      <4>2. c.pc = "killed" => \A t \in Tables : c.st[t] = {} /\ c.task[t].unsaved = {}
        BY <3>3, <4>1 DEF PlainOK
      <4>3. TrueState(c)'
        BY <3>3, <4>2 DEF TrueState
      <4> QED BY <3>3, <4>3
    <3>5. CASE ~Dropping(n)
      <4>1. \A t \in Tables : Grows(t)
        BY <2>1, <3>5 DEF Building, Loading, Checking, Ending, ModeMove, Grows
      <4>2. TrueState(c)'
        BY <3>3, <4>1, TrueSame
      <4> QED BY <3>3, <4>2
    <3> QED BY <3>4, <3>5
  <2> QED BY <2>7, <2>8
<1>3. CASE Working
  <2>1. PICK q \in 1..cur, t \in Tables, n \in RunRec : Set(q, n) /\ TaskMove(q, t, n)
    BY <1>3 DEF Working
  <2>2. cur' = cur /\ \A u \in Tables : Grows(u)
    BY <2>1 DEF TaskMove, Grows
  <2>3. q \in 1..MaxRuns /\ r \in 1..MaxRuns /\ r \in 1..cur
    BY <1>n, <2>2
  <2>4. run'[q] = n /\ \A s \in 1..MaxRuns : s # q => run'[s] = run[s]
    BY <1>b, <2>1, <2>3, SetRun
  <2>5. PICK a : a = run[r]
    OBVIOUS
  <2>6. TrueState(a)
    BY <1>t, <2>3, <2>5
  <2>7. CASE r # q
    <3>1. TrueState(a)'
      BY <2>2, <2>6, TrueSame
    <3> QED BY <2>3, <2>4, <2>5, <2>7, <3>1
  <2>8. CASE r = q
    <3>1. a.pc \notin Ended \ {"killed"}
      BY <2>1, <2>5, <2>8 DEF TaskMove, Ended
    <3>2. \A u \in Tables : /\ a.st[u] \cap Blocks[u] \subseteq Has(u)
                            /\ a.task[u].unsaved \cap Blocks[u] \subseteq Has(u)
                            /\ Has(u) \subseteq Has(u)'
      BY <2>2, <2>6, <3>1, DataGrows DEF TrueState
    <3>3. \A u \in Tables : u # t => n.st[u] = a.st[u] /\ n.task[u] = a.task[u]
      BY <2>1, <2>5, <2>8 DEF TaskMove, Others
    <3>4. /\ n.st[t] \subseteq a.st[t] \cup a.task[t].unsaved
          /\ \A b \in n.task[t].unsaved : b \in a.task[t].unsaved \/ b \in Has(t)'
      BY <2>1, <2>5, <2>8 DEF TaskMove
    <3>6. \A u \in Tables : /\ n.st[u] \cap Blocks[u] \subseteq Has(u)'
                            /\ n.task[u].unsaved \cap Blocks[u] \subseteq Has(u)'
      BY <3>2, <3>3, <3>4
    <3>7. TrueState(n)'
      BY <3>6 DEF TrueState
    <3> QED BY <2>4, <2>8, <3>7
  <2> QED BY <2>7, <2>8
<1>4. CASE Crashed
  <2>1. r \in 1..MaxRuns /\ r \in 1..cur /\ live' = live /\ benign' = benign
    BY <1>n, <1>4 DEF Crashed
  <2>2. PICK a : a = run[r]
    OBVIOUS
  <2>3. PICK n : n = run'[r]
    OBVIOUS
  <2>4. n.st = a.st /\ n.pc \in {"dead", a.pc} /\ \A t \in Tables : n.task[t].unsaved = {}
    BY <1>4, <2>1, <2>2, <2>3 DEF Crashed
  <2>5. TrueState(a)
    BY <1>t, <2>1, <2>2
  <2>6. TrueState(n)'
    BY <2>1, <2>4, <2>5 DEF TrueState, Ended, Has, Data
  <2> QED BY <2>3, <2>6
<1>5. CASE UNCHANGED vars
  <2>1. run' = run /\ live' = live /\ benign' = benign /\ r \in 1..cur
    BY <1>5 DEF vars
  <2>2. PICK a : a = run[r]
    OBVIOUS
  <2>3. TrueState(a)'
    BY <1>t, <2>1, <2>2, TrueSame DEF Grows
  <2> QED BY <2>1, <2>2, <2>3
<1> QED BY <1>b, <1>1, <1>2, <1>3, <1>4, <1>5, Steps

-----------------------------------------------------------------------------
(* The pending mutations, and what "ok" stands for *)

LEMMA CalmBack ==
    ASSUME RunsInv, StoreInv, [Next]_vars, Calm'
    PROVE  Calm
<1>n. MaxRuns \in Nat /\ cur \in 0..MaxRuns
  BY RestoreAssumption DEF RunsInv
<1>f. faults = 0
  BY FaultsType DEF Calm, StoreInv
<1>s. SUFFICES ASSUME NEW r \in 1..cur, run[r].pc = "killed" PROVE FALSE
  BY <1>f DEF Calm
<1>k. r \in 1..MaxRuns /\ \A s \in 1..cur' : run'[s].pc # "killed"
  BY <1>n DEF Calm
<1>1. ASSUME NEW n \in RunRec, Set(cur + 1, n), Starting(n) PROVE FALSE
  <2>1. cur + 1 \in 1..MaxRuns /\ cur' = cur + 1 /\ r # cur + 1
    BY <1>n, <1>1 DEF Starting
  <2>2. run'[r] = run[r]
    BY <1>1, <1>k, <2>1, SetRun
  <2> QED BY <1>n, <1>s, <1>k, <2>1, <2>2
<1>2. CASE Moving
  <2>1. PICK n \in RunRec :
        /\ cur > 0 /\ Set(cur, n) /\ R.pc \notin Ended
        /\ Dropping(n) \/ Building(n) \/ Loading(n) \/ Checking(n) \/ Ending(n) \/ \E t \in Tables : ModeMove(t, n)
    BY <1>2 DEF Moving
  <2>2. cur' = cur
    BY <2>1 DEF Dropping, Building, Loading, Checking, Ending, ModeMove
  <2>3. cur \in 1..MaxRuns /\ R = run[cur]
    BY <2>1, CurRec
  <2>4. r # cur
    BY <1>s, <2>1, <2>3 DEF Ended
  <2>5. run'[r] = run[r]
    BY <1>k, <2>1, <2>3, <2>4, SetRun
  <2> QED BY <1>s, <1>k, <2>2, <2>5
<1>3. CASE Working
  <2>1. PICK q \in 1..cur, t \in Tables, n \in RunRec : Set(q, n) /\ TaskMove(q, t, n)
    BY <1>3 DEF Working
  <2>2. cur' = cur /\ n.pc = run[q].pc /\ q \in 1..MaxRuns
    BY <1>n, <2>1 DEF TaskMove, Others
  <2>3. run'[q] = n /\ \A s \in 1..MaxRuns : s # q => run'[s] = run[s]
    BY <2>1, <2>2, SetRun
  <2> QED BY <1>s, <1>k, <2>2, <2>3
<1>4. CASE Crashed
  <2>1. cur' = cur /\ run'[r].pc = (IF r = cur THEN "dead" ELSE "killed")
    BY <1>s, <1>k, <1>4 DEF Crashed
  <2>2. r = cur
    BY <1>s, <1>k, <2>1
  <2>3. R.pc \notin Ended /\ R = run[cur]
    BY <1>4, CurRec DEF Crashed
  <2> QED BY <1>s, <2>2, <2>3 DEF Ended
<1>5. CASE UNCHANGED vars
  BY <1>s, <1>k, <1>5 DEF vars
<1> QED BY <1>1, <1>2, <1>3, <1>4, <1>5, Steps

LEMMA MutStep ==
    ASSUME BaseInv, DataInv, MutInv, [Next]_vars
    PROVE  MutInv'
<1>b. RunsInv /\ StoreInv
  BY DEF BaseInv
<1>n. MaxRuns \in Nat /\ cur \in 0..MaxRuns
  BY <1>b, RestoreAssumption DEF RunsInv
<1>s. SUFFICES ASSUME cur' > 0, R'.pc \in Past \ {"mutations"}, R'.cmd.kind # "schema",
                      R'.skipped = {}, Calm'
               PROVE  \A t \in R'.allowed : \A x \in live'[t] : x[2] # 0 => x[1] \in mutated'[t]
  BY DEF MutInv, MutOK, Calm
<1>c. Calm
  BY <1>b, <1>s, CalmBack
<1>o. ASSUME cur > 0, R.pc \in Past \ {"mutations"}, R.cmd.kind # "schema", R.skipped = {}
      PROVE  \A t \in R.allowed : \A x \in live[t] : x[2] # 0 => x[1] \in mutated[t]
  BY <1>c, <1>o DEF MutInv, MutOK
<1>1. ASSUME NEW n \in RunRec, Set(cur + 1, n), Starting(n) PROVE FALSE
  <2>1. cur + 1 \in 1..MaxRuns /\ cur' = cur + 1
    BY <1>n, <1>1 DEF Starting
  <2>2. R' = n
    <3>1. run'[cur + 1] = n
      BY <1>1, <1>b, <2>1, SetRun
    <3> QED BY <1>n, <2>1, <3>1 DEF R
  <2>3. n.pc \in {"drop", "databases", "load"}
    BY <1>1 DEF Starting
  <2> QED BY <1>s, <2>2, <2>3 DEF Past
<1>2. CASE Moving
  <2>1. PICK n \in RunRec :
        /\ cur > 0 /\ Set(cur, n)
        /\ \/ Dropping(n) \/ Building(n) \/ Loading(n) \/ Checking(n)
           \/ Ending(n) /\ (n.pc # "killed" => Reapplied)
           \/ \E t \in Tables : ModeMove(t, n)
    BY <1>2 DEF Moving
  <2>2. cur' = cur
    BY <2>1 DEF Dropping, Building, Loading, Checking, Ending, ModeMove
  <2>3. R' = n
    BY <1>b, <2>1, <2>2, SetCur
  <2>4. n.pc \in Past \ {"mutations"} /\ n.cmd.kind # "schema" /\ n.skipped = {}
    BY <1>s, <2>3
  <2>5. CASE Dropping(n) \/ Loading(n) \/ Checking(n) \/ \E t \in Tables : ModeMove(t, n)
    BY <2>4, <2>5 DEF Dropping, Loading, Checking, ModeMove, Others, Past
  <2>6. CASE Building(n)
    <3>1. n.cmd = R.cmd /\ n.allowed = R.allowed /\ n.skipped = R.skipped /\ live' = live /\ benign' = benign /\ mutated' = mutated
      BY <2>6 DEF Building, Quiet
    <3>2. R.pc \in {"postponed", "ddl"}
      BY <2>4, <2>6, <3>1 DEF Building, Past
    <3> QED BY <1>o, <2>1, <2>3, <2>4, <3>1, <3>2 DEF Past
  <2>7. CASE Ending(n) /\ (n.pc # "killed" => Reapplied)
    <3>1. n.cmd = R.cmd /\ n.allowed = R.allowed /\ n.skipped = R.skipped /\ live' = live /\ benign' = benign
      BY <2>7 DEF Ending, Quiet
    <3>2. CASE R.pc = "mutations"
      <4>1. n.pc # "killed" /\ faults' = 0
        BY <1>s, <2>4 DEF Past, Calm
      <4>2. \A t \in Tables : mutated'[t] = IF R.task[t].pc = "done" THEN Names(t) ELSE mutated[t]
        BY <2>7, <3>2, <4>1 DEF Reapplied
      <4>3. \A t \in R.allowed : R.task[t].pc = "done" \/ Parts(t) \subseteq R.skipped
        BY <2>1, <3>2 DEF DataInv, DataOK
      <4>4. ASSUME NEW t \in R.allowed, NEW x \in live[t], x[2] # 0 PROVE x[1] \in mutated'[t]
        <5>0. t \in Tables
          BY <1>b, <2>1, CurRec
        <5>1. x[2] \in Blocks[t]
          BY <1>b, <4>4, <5>0 DEF StoreInv
        <5>2. Parts(t) # {}
          BY <5>1 DEF Parts
        <5>3. R.task[t].pc = "done"
          BY <2>4, <3>1, <4>3, <5>2
        <5>4. x[1] \in Names(t)
          BY DEF Names
        <5> QED BY <4>2, <5>0, <5>3, <5>4
      <4> QED BY <2>3, <3>1, <4>4
    <3>3. CASE R.pc # "mutations"
      <4>1. R.pc \in Past \ {"mutations"} /\ mutated' = mutated
        BY <2>4, <2>7, <3>3 DEF Ending, Past
      <4> QED BY <1>o, <2>1, <2>3, <2>4, <3>1, <4>1
    <3> QED BY <3>2, <3>3
  <2> QED BY <2>1, <2>5, <2>6, <2>7
<1>3. CASE Working
  <2>1. PICK r \in 1..cur, t \in Tables, n \in RunRec : Set(r, n) /\ TaskMove(r, t, n)
    BY <1>3 DEF Working
  <2>2. cur' = cur /\ n.pc \in {"tasks", "killed"}
    BY <2>1 DEF TaskMove, Others
  <2>3. run'[r] = n /\ (r = cur => R' = n) /\ r \in 1..MaxRuns
    BY <1>b, <2>1, <2>2, SetTaskRun
  <2>4. n.pc # "killed"
    BY <1>s, <2>2, <2>3 DEF Calm
  <2>5. r # cur
    BY <1>s, <2>2, <2>3 DEF Past
  <2>6. run[r].pc \in Ended
    BY <1>b, <1>n, <2>3, <2>5 DEF RunsInv
  <2>7. n.pc = run[r].pc
    BY <2>1 DEF TaskMove, Others
  <2> QED BY <2>2, <2>4, <2>6, <2>7 DEF Ended
<1>4. ASSUME Crashed PROVE FALSE
  <2>1. cur' = cur /\ cur \in 1..MaxRuns /\ R' = run'[cur]
    BY <1>n, <1>4 DEF Crashed, R
  <2>2. R'.pc = "dead"
    BY <1>4, <2>1 DEF Crashed
  <2> QED BY <1>s, <2>2 DEF Past
<1>5. CASE UNCHANGED vars
  BY <1>s, <1>o, <1>5 DEF vars, R
<1> QED BY <1>b, <1>1, <1>2, <1>3, <1>4, <1>5, Steps

(* Success is without skipped data; the tables phase creates tables only. *)
EndOK(a) ==
    /\ a.pc = "ok" /\ a.cmd.kind # "schema" => a.skipped = {}
    /\ a.pc = "tables" => a.todo \subseteq a.allowed
EndInv == cur > 0 => EndOK(R)

LEMMA EndsStep ==
    ASSUME BaseInv, EndInv, [Next]_vars
    PROVE  EndInv'
<1>b. RunsInv /\ StoreInv
  BY DEF BaseInv
<1>n. MaxRuns \in Nat /\ cur \in 0..MaxRuns
  BY <1>b, RestoreAssumption DEF RunsInv
<1>1. ASSUME NEW n \in RunRec, Set(cur + 1, n), Starting(n) PROVE EndOK(R)'
  <2>1. cur + 1 \in 1..MaxRuns /\ cur' = cur + 1
    BY <1>n, <1>1 DEF Starting
  <2>2. R' = n
    <3>1. run'[cur + 1] = n
      BY <1>1, <1>b, <2>1, SetRun
    <3> QED BY <1>n, <2>1, <3>1 DEF R
  <2>3. n.pc \in {"drop", "databases", "load"}
    BY <1>1 DEF Starting
  <2> QED BY <2>2, <2>3 DEF EndOK
<1>2. ASSUME Moving PROVE EndOK(R)'
  <2>1. PICK n \in RunRec :
        /\ cur > 0 /\ Set(cur, n)
        /\ Dropping(n) \/ Building(n) \/ Loading(n) \/ Checking(n) \/ Ending(n) \/ \E t \in Tables : ModeMove(t, n)
    BY <1>2 DEF Moving
  <2>2. cur' = cur
    BY <2>1 DEF Dropping, Building, Loading, Checking, Ending, ModeMove
  <2>3. R' = n
    BY <1>b, <2>1, <2>2, SetCur
  <2>4. EndOK(R)
    BY <2>1 DEF EndInv
  <2>5. CASE Dropping(n) \/ Loading(n) \/ Checking(n) \/ \E t \in Tables : ModeMove(t, n)
    <3>1. n.pc \notin {"ok", "tables"}
      BY <2>5 DEF Dropping, Loading, Checking, ModeMove, Others
    <3> QED BY <2>3, <3>1 DEF EndOK
  <2>6. CASE Building(n)
    <3>1. n.pc # "ok" /\ n.allowed = R.allowed
      BY <2>6 DEF Building, Quiet
    <3>2. n.pc = "tables" => n.todo \subseteq n.allowed
      BY <2>4, <2>6, <3>1 DEF Building, EndOK
    <3> QED BY <2>3, <3>1, <3>2 DEF EndOK
  <2>7. CASE Ending(n)
    <3>1. n.pc # "tables" /\ n.skipped = R.skipped /\ n.cmd = R.cmd
      BY <2>7 DEF Ending, Quiet
    <3>2. n.pc = "ok" /\ n.cmd.kind # "schema" => n.skipped = {}
      BY <2>7, <3>1 DEF Ending
    <3> QED BY <2>3, <3>1, <3>2 DEF EndOK
  <2> QED BY <2>1, <2>5, <2>6, <2>7
<1>3. ASSUME Working PROVE EndOK(R)'
  <2>1. PICK r \in 1..cur, t \in Tables, n \in RunRec : Set(r, n) /\ TaskMove(r, t, n)
    BY <1>3 DEF Working
  <2>2. cur' = cur /\ n.pc \in {"tasks", "killed"}
    BY <2>1 DEF TaskMove, Others
  <2>3. cur > 0 /\ (r = cur => R' = n) /\ (r # cur => R' = R)
    BY <1>b, <2>1, <2>2, SetTaskRun
  <2> QED BY <2>2, <2>3 DEF EndInv, EndOK
<1>4. ASSUME Crashed PROVE EndOK(R)'
  <2>1. cur' = cur /\ cur \in 1..MaxRuns /\ R' = run'[cur]
    BY <1>n, <1>4 DEF Crashed, R
  <2>2. R'.pc = "dead"
    BY <1>4, <2>1 DEF Crashed
  <2> QED BY <2>2 DEF EndOK
<1>5. ASSUME UNCHANGED vars PROVE EndInv'
  BY <1>5 DEF vars, R, EndInv, EndOK
<1> QED BY <1>b, <1>1, <1>2, <1>3, <1>4, <1>5, Steps DEF EndInv

-----------------------------------------------------------------------------
(* The theorems *)

(* What holds of every restore that takes nothing false for attached. *)
WorkInv == BaseInv /\ AlreadyInv /\ DataInv /\ MutInv /\ EndInv
TruthInv == WorkInv /\ FileInv /\ StateInv

LEMMA TruthInit == Init => TruthInv
<1> SUFFICES ASSUME Init PROVE TruthInv
  OBVIOUS
<1>1. BaseInv
  BY BaseInit
<1>2. cur = 0 /\ file = NoState
  BY DEF Init
<1>3. AlreadyInv /\ DataInv /\ MutInv /\ EndInv
  BY <1>2 DEF AlreadyInv, DataInv, MutInv, EndInv
<1>4. FileInv /\ StateInv
  BY <1>2 DEF FileInv, StateInv
<1> QED BY <1>1, <1>3, <1>4 DEF TruthInv, WorkInv

LEMMA TruthStep ==
    ASSUME TruthInv, DropsClean, NamesTruthful, [Next]_vars
    PROVE  TruthInv'
<1>0. BaseInv /\ AlreadyInv /\ DataInv /\ MutInv /\ EndInv /\ FileInv /\ StateInv
  BY DEF TruthInv, WorkInv
<1>1. BaseInv'
  BY <1>0, BaseStep
<1>2. AlreadyInv'
  BY <1>0, AlreadyStep
<1>3. DataInv'
  BY <1>0, DataStep
<1>4. MutInv' /\ EndInv'
  BY <1>0, MutStep, EndsStep
<1>5. FileInv' /\ StateInv'
  BY <1>0, FileStep, StateStep
<1> QED BY <1>1, <1>2, <1>3, <1>4, <1>5 DEF TruthInv, WorkInv

LEMMA TruthHolds == Spec /\ []DropsClean /\ []NamesTruthful => []TruthInv
<1>1. TruthInv /\ DropsClean /\ NamesTruthful /\ [Next]_vars => TruthInv'
  BY TruthStep
<1> QED BY <1>1, TruthInit, PTL DEF Spec

(* restore/mod.rs 549-563, 1122-1125: what --resume would skip is there.   *)
(* However often restores are interrupted, fail, are killed with their     *)
(* tasks still attaching, or are given again, an entry of the state file   *)
(* names attached data, or a part whose ATTACH ClickHouse answered with    *)
(* 235 or 384, as long as no restore drops beside a state file and the     *)
(* names taken from system.parts are those of the manifest.                *)
THEOREM StateIsTruthful == Spec /\ []DropsClean /\ []NamesTruthful => []StateTruthful
<1>1. TruthInv => StateTruthful
  BY DEF TruthInv, FileInv, StateTruthful
<1> QED BY <1>1, TruthHolds, PTL

(* A data-only restore finds the tables it has no part for. *)
EmptyTablesThere ==
    cur > 0 /\ cmd.kind = "data" => \A t \in cmd.sel : Blocks[t] = {} => tab[t] # "absent"

LEMMA WorkRestored ==
    ASSUME WorkInv, EmptyTablesThere
    PROVE  SuccessMeansRestored
<1>0. RunsInv /\ StoreInv /\ TabInv /\ PhaseInv /\ DataInv /\ MutInv /\ EndInv
  BY DEF WorkInv, BaseInv
<1> SUFFICES ASSUME cur > 0, R.pc = "ok", cmd.kind # "schema"
             PROVE  /\ \A t \in cmd.sel : Blocks[t] \subseteq Has(t) /\ (t \in Planned(cmd) \/ tab[t] = "live")
                    /\ faults = 0 /\ (\A r \in 1..cur : run[r].pc # "killed") =>
                         \A t \in cmd.sel : {x[1] : x \in {y \in live[t] : y[2] # 0}} \subseteq mutated[t]
                    /\ cmd.kind = "full" => \A o \in Later \cup Views : tab[o] = "live"
  BY DEF SuccessMeansRestored
<1>1. cmd = R.cmd /\ cmd \in CmdRec /\ R.allowed \subseteq Tables
  BY <1>0, CurRec
<1>2. R.skipped = {}
  BY <1>0, <1>1 DEF EndInv, EndOK
<1>3. cmd.sel = R.allowed /\ cmd.sel \subseteq Tables /\ cmd.kind \in {"full", "data"}
  <2>1. SelOK(R)
    BY <1>0 DEF PhaseInv
  <2> QED BY <1>1, <1>2, <2>1 DEF SelOK, CmdRec, Kinds
<1>4. \A t \in cmd.sel : Blocks[t] \subseteq Has(t)
  <2>1. \A t \in R.allowed : Blocks[t] \subseteq Has(t) \cup Skips(R, t)
    BY <1>0, <1>1 DEF DataInv, DataOK, Past
  <2> QED BY <1>2, <1>3, <2>1 DEF Skips
<1>5. ASSUME NEW t \in cmd.sel PROVE t \in Planned(cmd) \/ tab[t] = "live"
  <2>1. tab[t] # "absent"
    <3>1. CASE cmd.kind = "full"
      BY <1>0, <1>1, <1>3, <3>1 DEF PhaseInv, CreatedOK
    <3>2. CASE cmd.kind = "data" /\ Blocks[t] = {}
      BY <3>2 DEF EmptyTablesThere
    <3>3. CASE Blocks[t] # {}
      <4>1. live[t] # {} \/ benign[t] # {}
        BY <1>4, <3>3 DEF Has, Data
      <4> QED BY <1>0, <1>3, <4>1 DEF TabInv
    <3> QED BY <1>3, <3>1, <3>2, <3>3
  <2>2. tab[t] \in TabStates
    BY <1>0, <1>3 DEF StoreInv, Objects
  <2>3. CASE tab[t] \in {"detached", "readonly"}
    <3>1. AsAttach /\ t \in Replicated \ S3Tables
      BY <1>0, <1>3, <2>3 DEF TabInv
    <3> QED BY <3>1 DEF Planned
  <2> QED BY <2>1, <2>2, <2>3 DEF TabStates
<1>6. ASSUME faults = 0, \A r \in 1..cur : run[r].pc # "killed", NEW t \in cmd.sel
      PROVE  {x[1] : x \in {y \in live[t] : y[2] # 0}} \subseteq mutated[t]
  <2>1. Calm
    BY <1>6 DEF Calm
  <2>2. \A u \in R.allowed : \A x \in live[u] : x[2] # 0 => x[1] \in mutated[u]
    BY <1>0, <1>1, <1>2, <2>1 DEF MutInv, MutOK, Past
  <2> QED BY <1>3, <2>2
<1>7. cmd.kind = "full" => \A o \in Later \cup Views : tab[o] = "live"
  BY <1>0, <1>1 DEF PhaseInv, CreatedOK
<1> QED BY <1>4, <1>5, <1>6, <1>7

(* Ok of restore(), with or without --resume, after any crashes, kills,    *)
(* failed steps and earlier restores: every part of every selected table   *)
(* is in place, except those whose ATTACH ClickHouse answered with 235 or  *)
(* 384 (classify_attach_error takes them for present), the pending         *)
(* mutations were applied to it when nothing failed, and the streaming     *)
(* tables and views of a full restore are live.                            *)
THEOREM SuccessIsRestored ==
    Spec /\ []DropsClean /\ []NamesTruthful /\ []EmptyTablesThere => []SuccessMeansRestored
<1>1. TruthInv /\ EmptyTablesThere => SuccessMeansRestored
  BY WorkRestored DEF TruthInv
<1> QED BY <1>1, TruthHolds, PTL

(* ClickHouse has answered no ATTACH with 235 or 384. *)
NoneBenign == \A t \in Tables : benign[t] = {}

(* Then nothing is left to the classification of errors: Ok means that     *)
(* every part of the selected tables is attached, and the state file names *)
(* attached parts only.                                                    *)
THEOREM ExactWithoutBenign ==
    Spec /\ []DropsClean /\ []NamesTruthful /\ []EmptyTablesThere /\ []NoneBenign
        => [](SuccessMeansAll /\ StateExact)
<1>1. ASSUME TruthInv, EmptyTablesThere, NoneBenign PROVE SuccessMeansAll /\ StateExact
  <2>1. \A t \in Tables : Has(t) = Data(t)
    BY <1>1 DEF NoneBenign, Has
  <2>2. StateExact
    BY <1>1, <2>1 DEF TruthInv, FileInv, StateExact
  <2>3. SuccessMeansRestored /\ RunsInv
    BY <1>1, WorkRestored DEF TruthInv, WorkInv, BaseInv
  <2>4. cur > 0 => cmd.sel \subseteq Tables
    BY <2>3, CurRec DEF CmdRec
  <2>5. SuccessMeansAll
    BY <2>1, <2>3, <2>4 DEF SuccessMeansRestored, SuccessMeansAll
  <2> QED BY <2>2, <2>5
<1> QED BY <1>1, TruthHolds, PTL

(* No restore was given --resume. *)
Plain == cur > 0 => ~R.cmd.resume

LEMMA PlainHolds == Spec /\ []Plain /\ []NamesTruthful => []WorkInv
<1>1. ASSUME WorkInv, Plain, NamesTruthful, [Next]_vars PROVE WorkInv'
  <2>0. BaseInv /\ AlreadyInv /\ DataInv /\ MutInv /\ EndInv
    BY <1>1 DEF WorkInv
  <2>1. cur > 0 => (R.cmd.resume => FileInv)
    BY <1>1 DEF Plain
  <2>2. AlreadyInv'
    BY <1>1, <2>0, <2>1, AlreadyStep
  <2>3. BaseInv' /\ DataInv' /\ MutInv' /\ EndInv'
    BY <1>1, <2>0, BaseStep, DataStep, MutStep, EndsStep
  <2> QED BY <2>2, <2>3 DEF WorkInv
<1>2. Init => WorkInv
  BY TruthInit DEF TruthInv
<1> QED BY <1>1, <1>2, PTL DEF Spec

(* The same of restores without --resume, which may drop what they like:   *)
(* state files play no part, and only the links of ATTACH TABLE mode go by *)
(* names.                                                                  *)
THEOREM PlainIsRestored ==
    Spec /\ []Plain /\ []NamesTruthful /\ []EmptyTablesThere => []SuccessMeansRestored
<1>1. WorkInv /\ EmptyTablesThere => SuccessMeansRestored
  BY WorkRestored
<1> QED BY <1>1, PlainHolds, PTL

LEMMA StreamStep ==
    ASSUME WorkInv, [Next]_vars, NEW o \in Later, tab[o] # "live", tab'[o] = "live", cmd.kind = "full",
           NEW t \in cmd.sel
    PROVE  Parts(t) \subseteq R.skipped \cup {<<t, b>> : b \in Has(t)}
<1>0. RunsInv /\ StoreInv /\ TabInv /\ PhaseInv /\ DataInv /\ EndInv
  BY DEF WorkInv, BaseInv
<1>o. o \in Objects /\ o \notin Tables
  BY RestoreAssumption DEF Objects
<1>1. ASSUME NEW n, Starting(n) PROVE FALSE
  BY <1>1 DEF Starting
<1>2. CASE Moving
  <2>1. PICK n \in RunRec :
        /\ cur > 0
        /\ Dropping(n) \/ Building(n) \/ Loading(n) \/ Checking(n) \/ Ending(n) \/ \E u \in Tables : ModeMove(u, n)
    BY <1>2 DEF Moving
  <2>2. cmd = R.cmd /\ R.allowed \subseteq Tables
    BY <1>0, <2>1, CurRec
  <2>3. Building(n)
    BY <1>o, <2>1 DEF Dropping, Loading, Checking, Ending, ModeMove
  <2>4. o \in R.todo /\ R.pc \in {"tables", "postponed", "ddl"}
    BY <1>o, <2>3 DEF Building
  <2>5. R.pc # "tables"
    BY <1>0, <1>o, <2>1, <2>2, <2>4 DEF EndInv, EndOK
  <2>6. R.pc # "ddl"
    BY <1>0, <2>1, <2>2 DEF PhaseInv, CreatedOK
  <2>7. R.pc = "postponed"
    BY <2>4, <2>5, <2>6
  <2>8. CASE t \in R.allowed
    <3>1. Blocks[t] \subseteq Has(t) \cup Skips(R, t)
      BY <1>0, <2>1, <2>2, <2>7, <2>8 DEF DataInv, DataOK, Past
    <3> QED BY <3>1 DEF Skips, Parts
  <2>9. CASE t \notin R.allowed
    <3>1. SelOK(R)
      BY <1>0, <2>1 DEF PhaseInv
    <3>2. Parts(t) \subseteq R.skipped
      BY <2>2, <2>9, <3>1 DEF SelOK
    <3> QED BY <3>2
  <2> QED BY <2>8, <2>9
<1>3. ASSUME Working PROVE FALSE
  BY <1>3 DEF Working, TaskMove
<1>4. ASSUME Crashed PROVE FALSE
  BY <1>4 DEF Crashed
<1>5. ASSUME UNCHANGED vars PROVE FALSE
  BY <1>5 DEF vars
<1> QED BY <1>0, <1>1, <1>2, <1>3, <1>4, <1>5, Steps

(* Phase 2b of restore(): a streaming table or refreshable view of a full  *)
(* restore comes to life only when every part of the selected tables is    *)
(* attached, was answered with 235 or 384, or counts as skipped.           *)
THEOREM StreamingIsLast == Spec /\ []DropsClean /\ []NamesTruthful => StreamingAfterData
<1> DEFINE A == \A o \in Later : tab[o] # "live" /\ tab'[o] = "live" /\ cmd.kind = "full" =>
                   \A t \in cmd.sel : Parts(t) \subseteq R.skipped \cup {<<t, b>> : b \in Has(t)}
<1>1. TruthInv /\ [Next]_vars => [A]_vars
  <2> SUFFICES ASSUME WorkInv, [Next]_vars PROVE A
    BY DEF TruthInv
  <2> QED BY StreamStep
<1>2. StreamingAfterData <=> [][A]_vars
  BY DEF StreamingAfterData
<1> HIDE DEF A
<1> QED BY <1>1, <1>2, TruthHolds, PTL DEF Spec

=============================================================================
