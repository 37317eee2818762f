---------------------------- MODULE ServerProofs ----------------------------
(***************************************************************************)
(* Proofs about Server, for any requests, batch, number of operations,     *)
(* listers, configurations, faults and stops: a cached list is dropped by  *)
(* every completed operation that must drop it; with one reload at a time  *)
(* the configuration and both clients are of one version; operations under *)
(* way hold disjoint locks; a batch runs its commands one after the other. *)
(***************************************************************************)
EXTENDS Server, FiniteSetTheorems, SequenceTheorems, TLAPS

Labels == {"free", "queued", "lock", "load", "run", "finish", "end"}
Statuses == {"none", "running", "completed", "failed", "killed", "conflict", "lost"}
Kinds == Actions \cup {"clean_broken_remote", "clean_broken_local", "retention", "none"}
Routes == {"", "api", "actions", "queue", "resume"}
OpRec ==
    [kind : Kinds, name : Name \cup {""}, route : Routes, pc : Labels, todo : Seq(Kinds),
     status : Statuses, begun : BOOLEAN, s3 : Nat]
BatchRec ==
    [pc : {"none", "idle", "next", "wait", "done", "lost"}, route : {"", "actions", "queue"},
     next : Nat, cur : Nat, log : Seq(Statuses \cup {"busy"})]

(* Operations: a started one has a name, a finishing one nothing left. *)
OpsInv ==
    /\ op \in [Ids -> OpRec]
    /\ \A i \in Ids : op[i].pc # "free" => op[i].name \in Name
    /\ \A i \in Ids : op[i].pc = "finish" => op[i].todo = <<>>

(* The batch task: the command it works on has the id of its place, and    *)
(* the commands after it have not been started.                            *)
BatchInv ==
    /\ batch \in BatchRec
    /\ batch.next >= 1 /\ batch.next <= Len(Batch) + 1 /\ Len(batch.log) = batch.next - 1
    /\ batch.pc = "wait" => batch.next <= Len(Batch) /\ batch.cur = MaxOps + batch.next
    /\ batch.pc = "idle" => batch.next = 1
    /\ batch.pc \in {"idle", "next"} =>
          \A i \in Ids : i >= MaxOps + batch.next => op[i].pc = "free"
    /\ batch.pc = "wait" =>
          \A i \in Ids : i > MaxOps + batch.next => op[i].pc = "free"

(* Serial mode gives out one permit. *)
PermitInv == ~Parallel => \A i, j \in WithPermit : i = j

(* Operations that got their PID locks have disjoint scopes. *)
LocksDisjoint ==
    \A i, j \in Locked : i # j =>
        lock_for_command(op[i].kind, op[i].name) \cap lock_for_command(op[j].kind, op[j].name) = {}

(* The cached list, and a fetched one on its way to the cache, is younger   *)
(* than every operation past its invalidation, or was overtaken by it.     *)
Must(o) == (o.status = "completed" \/ o.pc = "finish") /\ Invalidates(o.route, o.kind)
CacheInv ==
    /\ cache.full => \A i \in Ids : Must(op[i]) => i \in cache.asOf \/ i \in cache.raced
    /\ DOMAIN lister = Lister
    /\ \A l \in Lister : lister[l].pc = "set" =>
          \A i \in Ids : Must(op[i]) => i \in lister[l].asOf \/ i \in lister[l].raced

(* How far a reload has come tells which of the three are of its version. *)
ReloadRec == [pc : {"idle", "check", "config", "ch", "s3"}, v : Nat]
SwapTypes ==
    /\ reload \in [Reloader -> ReloadRec]
    /\ \A r \in Reloader : reload[r].pc # "idle" => reload[r].v \in Versions
    /\ live \in [config : Versions, ch : Versions, s3 : Versions] /\ disk \in Versions
Still(r) == reload[r].pc \in {"idle", "check"}
Same == live.config = live.ch /\ live.ch = live.s3
SwapInv ==
    /\ ~Serving => \A r \in Reloader : reload[r].pc = "idle"
    /\ Serving /\ (\A r \in Reloader : Still(r)) => Same
    /\ \A r \in Reloader :
        /\ reload[r].pc = "config" => Same
        /\ reload[r].pc = "ch" => live.config = reload[r].v /\ live.ch = live.s3
        /\ reload[r].pc = "s3" => live.config = reload[r].v /\ live.ch = reload[r].v

(* No two reload or restart requests are in their three stores at once. *)
SwapsApart == \A r, q \in Reloader : Still(r) \/ Still(q) \/ r = q

StoreInv ==
    /\ local \subseteq Name /\ files \subseteq (Resumable \X Name) /\ remote \in [Versions -> SUBSET Name]
    /\ boot \in [pc : {"ready", "tables", "flag", "serving", "down"},
                 scan : SUBSET (Resumable \X Name), flag : BOOLEAN]
    /\ faults \in 0..MaxFaults /\ crashes \in 0..MaxCrashes

-----------------------------------------------------------------------------
(* A step of an operation under way: what it may become. *)
Continues(i, r) ==
    /\ i \in Running
    /\ r.kind = op[i].kind /\ r.name = op[i].name /\ r.route = op[i].route
    /\ \/ r.pc = "run" /\ op[i].pc \in {"run", "load"}
       \/ r.pc = "lock" /\ op[i].pc = "queued" /\ Admitted
       \/ /\ r.pc = "load" /\ op[i].pc = "lock"
          /\ \A j \in Locked : lock_for_command(op[i].kind, op[i].name)
                                  \cap lock_for_command(op[j].kind, op[j].name) = {}
       \/ /\ r.pc = "finish" /\ op[i].pc = "run" /\ r.todo = <<>>
          /\ Invalidates(op[i].route, op[i].kind) => cache'.full = FALSE
       \/ r.pc = "end"
    /\ lister' = IF r.pc = "finish" THEN Racing(i) ELSE lister
    /\ r.pc # "end" => r.status = op[i].status
    /\ r.status = "completed" => op[i].status = "completed" \/ op[i].pc = "finish"

(* A step that starts an operation. *)
Starts(i, r) ==
    /\ op[i].pc = "free" /\ r.name \in Name /\ r.status = "running"
    /\ r.pc = "queued" \/ (r.pc = "lock" /\ Admitted)

Set(i, r) == op' = [op EXCEPT ![i] = r]

(* What the tasks of the operations leave alone. *)
Apart == UNCHANGED <<confVars, batch, boot, tables, crashes>>

(* An operation that ends: failed, killed, in conflict, or completed from finish. *)
LEMMA EndContinues ==
    ASSUME OpsInv, NEW i \in Ids, NEW s \in Statuses, i \in Running, Ended(i, s), lister' = lister,
           s = "completed" => op[i].pc = "finish"
    PROVE  \E r \in OpRec : Set(i, r) /\ Continues(i, r)
<1>0. op[i] \in OpRec
  BY DEF OpsInv
<1> DEFINE n == [op[i] EXCEPT !.pc = "end", !.status = s]
<1>1. n \in OpRec /\ n.pc = "end" /\ n.kind = op[i].kind /\ n.name = op[i].name
      /\ n.route = op[i].route /\ n.status = s
  BY <1>0 DEF OpRec, Labels
<1>2. Set(i, n)
  BY DEF Set, Ended
<1> HIDE DEF n
<1>3. Continues(i, n)
  BY <1>1 DEF Continues
<1> QED BY <1>1, <1>2, <1>3

(* Every task step works on its operation only, and may empty the cache. *)
LEMMA TaskContinues ==
    ASSUME OpsInv, live.s3 \in Nat, NEW i \in Ids, Task(i) \/ Kill(i)
    PROVE  /\ \E r \in OpRec : Set(i, r) /\ Continues(i, r)
           /\ cache' = cache \/ cache'.full = FALSE
           /\ Apart
<1>0. op[i] \in OpRec
  BY DEF OpsInv
<1>1. CASE AcquireLock(i)
  <2>0. op[i].pc = "lock" /\ i \in Running /\ cache' = cache /\ lister' = lister /\ Apart
    BY <1>1 DEF AcquireLock, Running, Apart, bootVars
  <2>1. CASE \A j \in Locked : lock_for_command(op[i].kind, op[i].name)
                                  \cap lock_for_command(op[j].kind, op[j].name) = {}
    <3> DEFINE n == [op[i] EXCEPT !.pc = "load"]
    <3>1. n \in OpRec /\ n.pc = "load" /\ n.kind = op[i].kind /\ n.name = op[i].name
          /\ n.route = op[i].route /\ n.status = op[i].status
      BY <1>0 DEF OpRec, Labels
    <3>2. Set(i, n)
      BY <1>1, <2>1 DEF Set, AcquireLock
    <3> HIDE DEF n
    <3>5. Continues(i, n)
      BY <3>1, <2>0, <2>1 DEF Continues
    <3> QED BY <3>1, <3>2, <3>5, <2>0
  <2>2. CASE Ended(i, "failed")
    BY <2>0, <2>2, EndContinues DEF Statuses
  <2> QED BY <1>1, <2>1, <2>2 DEF AcquireLock
<1>2. CASE LoadClients(i)
  <2> DEFINE n == [op[i] EXCEPT !.pc = "run", !.s3 = live.s3]
  <2>1. n \in OpRec /\ n.pc = "run" /\ n.kind = op[i].kind /\ n.name = op[i].name
        /\ n.route = op[i].route /\ n.status = op[i].status
    BY <1>0 DEF OpRec, Labels
  <2>2. Set(i, n)
    BY <1>2 DEF Set, LoadClients
  <2> HIDE DEF n
  <2>3. Continues(i, n)
    BY <2>1, <1>2 DEF Continues, LoadClients, Running
  <2> QED BY <2>1, <2>2, <2>3, <1>2 DEF LoadClients, Apart, bootVars
<1>3. CASE BeginStep(i)
  <2> DEFINE n == [op[i] EXCEPT !.begun = TRUE]
  <2>1. n \in OpRec /\ n.pc = op[i].pc /\ n.kind = op[i].kind /\ n.name = op[i].name
        /\ n.route = op[i].route /\ n.status = op[i].status
    BY <1>0 DEF OpRec, Labels
  <2>2. Set(i, n)
    BY <1>3 DEF Set, BeginStep
  <2> HIDE DEF n
  <2>3. Continues(i, n)
    BY <2>1, <1>3 DEF Continues, BeginStep, Running
  <2> QED BY <2>1, <2>2, <2>3, <1>3 DEF BeginStep, Apart, bootVars
<1>4. CASE StepSucceeds(i)
  <2> DEFINE n == [op[i] EXCEPT !.todo = Tail(op[i].todo), !.begun = FALSE]
  <2>0. op[i].todo \in Seq(Kinds) /\ op[i].todo # <<>>
    BY <1>0, <1>4 DEF OpRec, StepSucceeds
  <2>1. Tail(op[i].todo) \in Seq(Kinds)
    BY <2>0, HeadTailProperties
  <2>2. n \in OpRec /\ n.pc = op[i].pc /\ n.kind = op[i].kind /\ n.name = op[i].name
        /\ n.route = op[i].route /\ n.status = op[i].status
    BY <1>0, <2>1 DEF OpRec, Labels
  <2>3. Set(i, n)
    BY <1>4 DEF Set, StepSucceeds
  <2> HIDE DEF n
  <2>4. Continues(i, n)
    BY <2>2, <1>4 DEF Continues, StepSucceeds, Running
  <2>5. cache' = cache \/ cache'.full = FALSE
    BY <1>4 DEF StepSucceeds, Effect, EmptyCache
  <2> QED BY <2>2, <2>3, <2>4, <2>5, <1>4 DEF StepSucceeds, Apart, bootVars
<1>5. CASE StepFails(i)
  <2>1. i \in Running /\ Ended(i, "failed") /\ cache' = cache /\ lister' = lister /\ Apart
    BY <1>5 DEF StepFails, Running, Apart, bootVars
  <2> QED BY <2>1, EndContinues DEF Statuses
<1>6. CASE StepImpossible(i)
  <2>1. i \in Running /\ Ended(i, "failed") /\ cache' = cache /\ lister' = lister /\ Apart
    BY <1>6 DEF StepImpossible, Running, Apart, bootVars
  <2> QED BY <2>1, EndContinues DEF Statuses
<1>7. CASE Invalidate(i)
  <2> DEFINE n == [op[i] EXCEPT !.pc = "finish"]
  <2>1. n \in OpRec /\ n.pc = "finish" /\ n.kind = op[i].kind /\ n.name = op[i].name
        /\ n.route = op[i].route /\ n.status = op[i].status /\ n.todo = op[i].todo
    BY <1>0 DEF OpRec, Labels
  <2>2. Set(i, n)
    BY <1>7 DEF Set, Invalidate
  <2> HIDE DEF n
  <2>3. op[i].pc = "run" /\ op[i].todo = <<>> /\ i \in Running
    BY <1>7 DEF Invalidate, Running
  <2>4. Invalidates(op[i].route, op[i].kind) => cache'.full = FALSE
    BY <1>7 DEF Invalidate, EmptyCache
  <2>5. cache' = cache \/ cache'.full = FALSE
    BY <1>7 DEF Invalidate, EmptyCache
  <2>6. lister' = Racing(i)
    BY <1>7 DEF Invalidate
  <2>7. Continues(i, n)
    BY <2>1, <2>3, <2>4, <2>6 DEF Continues
  <2> QED BY <2>1, <2>2, <2>5, <2>7, <1>7 DEF Invalidate, Apart, bootVars
<1>8. CASE Finish(i)
  <2>1. i \in Running /\ op[i].pc = "finish" /\ Ended(i, "completed") /\ cache' = cache /\ lister' = lister /\ Apart
    BY <1>8 DEF Finish, Running, Apart, bootVars
  <2> QED BY <2>1, EndContinues DEF Statuses
<1>9. CASE Dequeue(i)
  <2>0. op[i].pc = "queued" /\ i \in Running /\ Admitted /\ cache' = cache /\ lister' = lister /\ Apart
    BY <1>9 DEF Dequeue, Running, Apart, bootVars
  <2>1. CASE Ended(i, "conflict")
    BY <2>0, <2>1, EndContinues DEF Statuses
  <2>2. CASE op' = [op EXCEPT ![i].pc = "lock"]
    <3> DEFINE n == [op[i] EXCEPT !.pc = "lock"]
    <3>1. n \in OpRec /\ n.pc = "lock" /\ n.kind = op[i].kind /\ n.name = op[i].name
          /\ n.route = op[i].route /\ n.status = op[i].status
      BY <1>0 DEF OpRec, Labels
    <3>2. Set(i, n)
      BY <2>2 DEF Set
    <3> HIDE DEF n
    <3>3. Continues(i, n)
      BY <3>1, <2>0 DEF Continues
    <3> QED BY <3>1, <3>2, <3>3, <2>0
  <2> QED BY <1>9, <2>1, <2>2 DEF Dequeue
<1>10. CASE Kill(i)
  <2>1. i \in Running /\ Ended(i, "killed") /\ cache' = cache /\ lister' = lister /\ Apart
    BY <1>10 DEF Kill, Apart, bootVars
  <2> QED BY <2>1, EndContinues DEF Statuses
<1> QED
  BY <1>1, <1>2, <1>3, <1>4, <1>5, <1>6, <1>7, <1>8, <1>9, <1>10 DEF Task

-----------------------------------------------------------------------------
LEMMA StepsType ==
    ASSUME NEW kind \in Kinds
    PROVE  Steps(kind) \in Seq(Kinds)
<1>1. CASE kind = "upload"
  <2>1. Steps(kind) = <<"upload", "retention">>
    BY <1>1 DEF Steps
  <2> QED BY <2>1 DEF Kinds, Actions
<1>2. CASE kind = "create_remote"
  <2>1. Steps(kind) = <<"create", "upload", "retention">>
    BY <1>2 DEF Steps
  <2> QED BY <2>1 DEF Kinds, Actions
<1>3. CASE kind = "restore_remote"
  <2>1. Steps(kind) = <<"download", "restore">>
    BY <1>3 DEF Steps
  <2> QED BY <2>1 DEF Kinds, Actions
<1>4. CASE kind \notin {"upload", "create_remote", "restore_remote"}
  <2>1. Steps(kind) = <<kind>>
    BY <1>4 DEF Steps
  <2> QED BY <2>1
<1> QED BY <1>1, <1>2, <1>3, <1>4

LEMMA NoOpType == NoOp \in OpRec /\ NoOp.pc = "free" /\ NoOp.status = "none"
<1>1. 0 \in Nat /\ <<>> \in Seq(Kinds)
  OBVIOUS
<1>2. "none" \in Kinds /\ "" \in Routes /\ "free" \in Labels /\ "none" \in Statuses /\ "" \in Name \cup {""}
  BY DEF Kinds, Routes, Labels, Statuses
<1> QED BY <1>1, <1>2 DEF NoOp, OpRec

LEMMA NewType ==
    ASSUME NEW kind \in Kinds, NEW n \in Name, NEW route \in Routes, NEW steps \in Seq(Kinds),
           NEW p \in {"lock", "queued"}
    PROVE  \E r \in OpRec : /\ r = [New(kind, n, route, steps) EXCEPT !.pc = p]
                            /\ r.name = n /\ r.status = "running" /\ r.pc = p
<1>1. NoOp \in OpRec
  BY NoOpType
<1> DEFINE m == New(kind, n, route, steps)
<1>2. m \in OpRec /\ m.name = n /\ m.status = "running"
  BY <1>1 DEF New, OpRec, Statuses
<1> HIDE DEF m
<1> DEFINE q == [m EXCEPT !.pc = p]
<1>3. q \in OpRec /\ q.name = n /\ q.status = "running" /\ q.pc = p
  BY <1>2 DEF OpRec, Labels
<1> QED BY <1>3 DEF m

LEMMA TryStarts ==
    ASSUME OpsInv, NEW i \in Ids, NEW kind \in Kinds, NEW n \in Name, NEW route \in Routes,
           NEW steps \in Seq(Kinds), try_start_op(i, kind, n, route, steps), op[i].pc = "free"
    PROVE  \E r \in OpRec : Set(i, r) /\ Starts(i, r)
<1>1. PICK q \in OpRec : /\ q = [New(kind, n, route, steps) EXCEPT !.pc = "lock"]
                         /\ q.name = n /\ q.status = "running" /\ q.pc = "lock"
  BY NewType
<1>2. Set(i, q) /\ Admitted
  BY <1>1 DEF Set, try_start_op
<1>3. Starts(i, q)
  BY <1>1, <1>2 DEF Starts
<1> QED BY <1>1, <1>2, <1>3

(* A typed request starts an operation of its own. *)
LEMMA HandlerStarts ==
    ASSUME OpsInv, NEW n \in Name, Handler(n)
    PROVE  /\ \E i \in Ids, r \in OpRec : i <= MaxOps /\ Set(i, r) /\ Starts(i, r)
           /\ UNCHANGED <<storeVars, cache, lister, confVars, batch, bootVars, faults>>
<1>1. PICK kind \in Kinds : RunOperation(kind, n)
  BY DEF Handler, create_backup, upload_backup, download_backup, restore_backup, create_remote,
         restore_remote, delete_backup, clean_remote_broken, clean_local_broken, clean, Kinds, Actions
<1>2. PICK i \in Free : try_start_op(i, kind, n, "api", Steps(kind))
  BY <1>1 DEF RunOperation
<1>3. i \in Ids /\ i <= MaxOps /\ op[i].pc = "free"
  BY ServerAssumption, <1>2 DEF Free, Ids, ServerAssumption
<1>4. \E r \in OpRec : Set(i, r) /\ Starts(i, r)
  BY <1>2, <1>3, StepsType, TryStarts DEF Routes
<1> QED BY <1>1, <1>3, <1>4 DEF RunOperation

(* A batch starts the command it has come to. *)
LEMMA BatchTyped ==
    ASSUME BatchInv, batch.next <= Len(Batch)
    PROVE  /\ MaxOps + batch.next \in Ids
           /\ Batch[batch.next][1] \in Kinds /\ Batch[batch.next][2] \in Name
<1>1. Batch \in Seq(Actions \X Name) /\ MaxOps \in Nat
  BY ServerAssumption DEF ServerAssumption
<1>a. Len(Batch) \in Nat
  BY <1>1
<1>b. batch.next \in Nat /\ batch.next >= 1
  BY DEF BatchInv, BatchRec
<1>2. batch.next \in 1..Len(Batch)
  BY <1>a, <1>b
<1>3. Batch[batch.next] \in Actions \X Name
  BY <1>1, <1>2
<1> QED BY <1>1, <1>a, <1>b, <1>2, <1>3 DEF Ids, Kinds

LEMMA StartActionStarts ==
    ASSUME OpsInv, BatchInv, StartAction, op' # op
    PROVE  /\ \E r \in OpRec : Set(MaxOps + batch.next, r) /\ Starts(MaxOps + batch.next, r)
           /\ batch' = [batch EXCEPT !.cur = MaxOps + batch.next, !.pc = "wait"]
<1>1. batch.pc = "next" /\ batch.next <= Len(Batch)
  BY DEF StartAction
<1>2. PICK i \in Ids : i = MaxOps + batch.next
  BY <1>1, BatchTyped
<1>3. PICK kind \in Kinds : kind = Batch[batch.next][1]
  BY <1>1, BatchTyped
<1>4. PICK n \in Name : n = Batch[batch.next][2]
  BY <1>1, BatchTyped
<1>a. i >= MaxOps + batch.next
  <2>1. MaxOps \in Nat /\ batch.next \in Nat
    BY ServerAssumption DEF ServerAssumption, BatchInv, BatchRec
  <2> QED BY <2>1, <1>2
<1>5. op[i].pc = "free"
  BY <1>1, <1>a DEF BatchInv
<1>6. try_start_op(i, kind, n, "actions", Steps(kind)) /\ batch' = [batch EXCEPT !.cur = i, !.pc = "wait"]
  BY <1>2, <1>3, <1>4 DEF StartAction
<1>7. \E r \in OpRec : Set(i, r) /\ Starts(i, r)
  BY <1>5, <1>6, StepsType, TryStarts DEF Routes
<1> QED BY <1>2, <1>6, <1>7

LEMMA QueueActionStarts ==
    ASSUME OpsInv, BatchInv, QueueAction
    PROVE  /\ \E r \in OpRec : Set(MaxOps + batch.next, r) /\ Starts(MaxOps + batch.next, r)
           /\ batch' = [batch EXCEPT !.cur = MaxOps + batch.next, !.pc = "wait"]
<1>1. batch.pc = "next" /\ batch.next <= Len(Batch)
  BY DEF QueueAction
<1>2. PICK i \in Ids : i = MaxOps + batch.next
  BY <1>1, BatchTyped
<1>3. PICK kind \in Kinds : kind = Batch[batch.next][1]
  BY <1>1, BatchTyped
<1>4. PICK n \in Name : n = Batch[batch.next][2]
  BY <1>1, BatchTyped
<1>a. i >= MaxOps + batch.next
  <2>1. MaxOps \in Nat /\ batch.next \in Nat
    BY ServerAssumption DEF ServerAssumption, BatchInv, BatchRec
  <2> QED BY <2>1, <1>2
<1>5. op[i].pc = "free"
  BY <1>1, <1>a DEF BatchInv
<1>7. PICK q \in OpRec : /\ q = [New(kind, n, "queue", Steps(kind)) EXCEPT !.pc = "queued"]
                         /\ q.name = n /\ q.status = "running" /\ q.pc = "queued"
  <2>1. Steps(kind) \in Seq(Kinds) /\ "queue" \in Routes
    BY StepsType DEF Routes
  <2> QED BY <2>1, NewType
<1>6. Set(i, q) /\ batch' = [batch EXCEPT !.cur = i, !.pc = "wait"]
  BY <1>2, <1>3, <1>4, <1>7 DEF QueueAction, Set
<1>8. Starts(i, q)
  BY <1>5, <1>7 DEF Starts
<1> QED BY <1>2, <1>6, <1>7, <1>8

(* The background task resumes a state file, or passes over it. *)
LEMMA ResumeStarts ==
    ASSUME OpsInv, StoreInv, auto_resume
    PROVE  \/ op' = op
           \/ \E i \in Ids, r \in OpRec : i <= MaxOps /\ Set(i, r) /\ Starts(i, r)
<1>1. PICK f \in boot.scan : ResumeTask(f) \/ (Fault /\ UNCHANGED op)
  BY DEF auto_resume, ResumeRestore
<1>2. f \in Resumable \X Name
  BY DEF StoreInv
<1>3. f[1] \in Kinds /\ f[2] \in Name /\ <<f[1]>> \in Seq(Kinds) /\ "resume" \in Routes
  BY <1>2 DEF Resumable, Kinds, Actions, Routes
<1>4. ASSUME NEW i \in Free, try_start_op(i, f[1], f[2], "resume", <<f[1]>>)
      PROVE  \E j \in Ids, r \in OpRec : j <= MaxOps /\ Set(j, r) /\ Starts(j, r)
  <2>1. i \in Ids /\ i <= MaxOps /\ op[i].pc = "free"
    BY ServerAssumption DEF Free, Ids, ServerAssumption
  <2>2. \E r \in OpRec : Set(i, r) /\ Starts(i, r)
    BY <1>3, <1>4, <2>1, TryStarts
  <2> QED BY <2>1, <2>2
<1> QED BY <1>1, <1>4 DEF ResumeTask

-----------------------------------------------------------------------------
(* The steps, as far as operations, batch and cache go. *)
TaskShape ==
    /\ \E i \in Ids, r \in OpRec : Set(i, r) /\ Continues(i, r)
    /\ cache' = cache \/ cache'.full = FALSE
    /\ batch' = batch
RequestShape ==
    /\ \E i \in Ids, r \in OpRec : i <= MaxOps /\ Set(i, r) /\ Starts(i, r)
    /\ cache' = cache /\ lister' = lister /\ batch' = batch
CommandShape ==
    /\ batch.pc = "next" /\ batch.next <= Len(Batch)
    /\ \E r \in OpRec : Set(MaxOps + batch.next, r) /\ Starts(MaxOps + batch.next, r)
    /\ batch' = [batch EXCEPT !.cur = MaxOps + batch.next, !.pc = "wait"]
    /\ cache' = cache /\ lister' = lister
BatchShape ==
    /\ op' = op /\ cache' = cache /\ lister' = lister
    /\ \/ \E route \in BatchRoutes : batch.pc = "idle" /\ batch' = [NoBatch EXCEPT !.pc = "next", !.route = route]
       \/ batch.pc = "wait" /\ op[batch.cur].pc = "end" /\ batch' = Logged(op[batch.cur].status)
       \/ batch.pc = "next" /\ batch.next <= Len(Batch) /\ batch' = Logged("busy")
       \/ batch.pc = "next" /\ batch' = [batch EXCEPT !.pc = "done"]
OtherShape ==
    /\ op' = op /\ batch' = batch
    /\ \/ (cache' = cache \/ cache'.full = FALSE) /\ lister' = lister
       \/ \E l \in Lister : ListHit(l) \/ ListTask(l)

LEMMA StepShape ==
    ASSUME OpsInv, BatchInv, StoreInv, live.s3 \in Nat, Next
    PROVE  \/ TaskShape \/ RequestShape \/ CommandShape \/ BatchShape \/ OtherShape
           \/ \E graceful \in BOOLEAN : Stop(graceful)
<1>1. ASSUME NEW n \in Name, Handler(n) PROVE RequestShape
  BY <1>1, HandlerStarts DEF RequestShape
<1>2. ASSUME NEW i \in Ids, Task(i) \/ Kill(i) PROVE TaskShape
  BY <1>2, TaskContinues DEF TaskShape, Apart
<1>3. ASSUME NEW route \in BatchRoutes, PostBatch(route) PROVE BatchShape
  BY <1>3 DEF PostBatch, BatchShape
<1>4. CASE StartAction
  <2>1. CASE op' # op
    BY <1>4, <2>1, StartActionStarts DEF CommandShape, StartAction
  <2>2. CASE op' = op
    <3>1. cache' = cache /\ lister' = lister /\ batch.pc = "next" /\ batch.next <= Len(Batch)
      BY <1>4 DEF StartAction
    <3>2. CASE try_start_op(MaxOps + batch.next, Batch[batch.next][1], Batch[batch.next][2], "actions",
                            Steps(Batch[batch.next][1]))
      <4>1. PICK i \in Ids : i = MaxOps + batch.next
        BY <3>1, BatchTyped
      <4>2. PICK kind \in Kinds : kind = Batch[batch.next][1]
        BY <3>1, BatchTyped
      <4>3. PICK n \in Name : n = Batch[batch.next][2]
        BY <3>1, BatchTyped
      <4>4. op[i].pc = "free"
        <5>1. MaxOps \in Nat /\ batch.next \in Nat
          BY ServerAssumption DEF ServerAssumption, BatchInv, BatchRec
        <5>2. i >= MaxOps + batch.next
          BY <5>1, <4>1
        <5> QED BY <3>1, <5>2 DEF BatchInv
      <4>5. PICK r \in OpRec : Set(i, r) /\ Starts(i, r)
        <5>1. Steps(kind) \in Seq(Kinds) /\ "actions" \in Routes
          BY StepsType DEF Routes
        <5> QED BY <5>1, <3>2, <4>1, <4>2, <4>3, <4>4, TryStarts
      <4>6. op'[i] = r
        BY <4>5 DEF Set, OpsInv
      <4>7. r.pc # "free"
        BY <4>5 DEF Starts
      <4> QED BY <4>4, <4>6, <4>7, <2>2
    <3>3. CASE batch' = IF batch.next = 1 THEN [batch EXCEPT !.pc = "done"] ELSE Logged("busy")
      BY <2>2, <3>1, <3>3 DEF BatchShape
    <3> QED BY <1>4, <3>2, <3>3 DEF StartAction
  <2> QED BY <2>1, <2>2
<1>5. CASE QueueAction
  BY <1>5, QueueActionStarts DEF CommandShape, QueueAction
<1>6. CASE BatchNext
  BY <1>6 DEF BatchNext, BatchShape
<1>7. CASE Background
  <2>1. CASE AutoResumeScan
    BY <2>1 DEF AutoResumeScan, OtherShape
  <2>2. CASE auto_resume
    <3>1. cache' = cache /\ lister' = lister /\ batch' = batch
      BY <2>2 DEF auto_resume
    <3> QED BY <2>2, <3>1, ResumeStarts DEF OtherShape, RequestShape
  <2>3. CASE CreateIntegrationTables
    BY <2>3 DEF CreateIntegrationTables, OtherShape
  <2>4. CASE StartServer
    BY <2>4 DEF StartServer, OtherShape
  <2> QED BY <1>7, <2>1, <2>2, <2>3, <2>4 DEF Background
<1>8. CASE Expire
  BY <1>8 DEF Expire, OtherShape, EmptyCache
<1>9. CASE EditConfig
  BY <1>9 DEF EditConfig, OtherShape
<1>10. ASSUME NEW l \in Lister, ListHit(l) \/ ListTask(l) PROVE OtherShape
  BY <1>10 DEF ListHit, ListTask, ListFetch, ListSet, OtherShape
<1>11. ASSUME NEW r \in Reloader, ReloadConfig(r) \/ ReloadTask(r) PROVE OtherShape
  BY <1>11 DEF ReloadConfig, ReloadTask, CheckClients, Swap, OtherShape
<1> QED
  BY <1>1, <1>2, <1>3, <1>4, <1>5, <1>6, <1>7, <1>8, <1>9, <1>10, <1>11 DEF Next, BatchTask

-----------------------------------------------------------------------------
(* A stop ends every operation under way. *)
LEMMA StopEnds ==
    ASSUME OpsInv, NEW graceful \in BOOLEAN, Stop(graceful)
    PROVE  /\ DOMAIN op' = Ids /\ op' \in [Ids -> OpRec]
           /\ \A i \in Ids : /\ op'[i].pc \in {"free", "end"} /\ op'[i].name = op[i].name
                             /\ op'[i].pc = "free" <=> op[i].pc = "free"
           /\ cache'.full = FALSE
<1> DEFINE n(i) == IF i \in Running THEN [op[i] EXCEPT !.pc = "end", !.status = "lost"] ELSE op[i]
<1>1. op' = [i \in Ids |-> n(i)] /\ cache' = EmptyCache
  BY DEF Stop
<1>2. ASSUME NEW i \in Ids
      PROVE  /\ n(i) \in OpRec /\ n(i).pc \in {"free", "end"} /\ n(i).name = op[i].name
             /\ n(i).pc = "free" <=> op[i].pc = "free"
  <2>1. op[i] \in OpRec
    BY DEF OpsInv
  <2>2. CASE i \in Running
    BY <2>1, <2>2 DEF OpRec, Labels, Statuses, Running
  <2>3. CASE i \notin Running
    BY <2>1, <2>3 DEF OpRec, Labels, Running
  <2> QED BY <2>2, <2>3
<1> HIDE DEF n
<1> QED BY <1>1, <1>2 DEF EmptyCache

(* One operation changes, the others stay. *)
LEMMA SetAt ==
    ASSUME OpsInv, NEW i \in Ids, NEW r \in OpRec, Set(i, r)
    PROVE  /\ op' \in [Ids -> OpRec] /\ op'[i] = r
           /\ \A j \in Ids : j # i => op'[j] = op[j]
BY DEF OpsInv, Set

LEMMA OpsStep ==
    ASSUME OpsInv, BatchInv, StoreInv, live.s3 \in Nat, Next
    PROVE  OpsInv'
<1>1. ASSUME NEW i \in Ids, NEW r \in OpRec, Set(i, r), r.pc # "free" => r.name \in Name,
             r.pc = "finish" => r.todo = <<>>
      PROVE  OpsInv'
  BY <1>1, SetAt DEF OpsInv
<1>2. CASE TaskShape
  <2>1. PICK i \in Ids, r \in OpRec : Set(i, r) /\ Continues(i, r)
    BY <1>2 DEF TaskShape
  <2>2. op[i].name \in Name
    BY <2>1 DEF Continues, Running, OpsInv
  <2>3. r.pc = "finish" => r.todo = <<>>
    BY <2>1 DEF Continues
  <2>4. r.name \in Name
    BY <2>1, <2>2 DEF Continues
  <2> QED BY <1>1, <2>1, <2>3, <2>4
<1>3. CASE RequestShape
  <2>1. PICK i \in Ids, r \in OpRec : Set(i, r) /\ Starts(i, r)
    BY <1>3 DEF RequestShape
  <2>2. r.pc # "finish" /\ r.name \in Name
    BY <2>1 DEF Starts
  <2> QED BY <1>1, <2>1, <2>2
<1>4. CASE CommandShape
  <2>1. PICK i \in Ids : i = MaxOps + batch.next
    BY <1>4, BatchTyped DEF CommandShape
  <2>2. PICK r \in OpRec : Set(i, r) /\ Starts(i, r)
    BY <1>4, <2>1 DEF CommandShape
  <2>3. r.pc # "finish" /\ r.name \in Name
    BY <2>2 DEF Starts
  <2> QED BY <1>1, <2>2, <2>3
<1>5. CASE BatchShape \/ OtherShape
  BY <1>5 DEF BatchShape, OtherShape, OpsInv
<1>6. ASSUME NEW graceful \in BOOLEAN, Stop(graceful) PROVE OpsInv'
  BY <1>6, StopEnds DEF OpsInv
<1> QED BY <1>2, <1>3, <1>4, <1>5, <1>6, StepShape

(* The list a cache holds stays younger than what it must show. *)
LEMMA CacheStep ==
    ASSUME OpsInv, BatchInv, StoreInv, live.s3 \in Nat, CacheInv, Next
    PROVE  CacheInv'
<1> DEFINE Seen(i, c) == i \in c.asOf \/ i \in c.raced
<1>1. ASSUME lister' = lister, cache' = cache \/ cache'.full = FALSE, NEW i \in Ids, NEW r \in OpRec,
             Set(i, r), Must(r) => Must(op[i])
      PROVE  CacheInv'
  <2>1. op'[i] = r /\ \A j \in Ids : j # i => op'[j] = op[j]
    BY <1>1, SetAt
  <2>2. \A j \in Ids : Must(op'[j]) => Must(op[j])
    BY <1>1, <2>1
  <2> QED BY <1>1, <2>2 DEF CacheInv
<1>2. CASE TaskShape
  <2>2. PICK i \in Ids, r \in OpRec : Set(i, r) /\ Continues(i, r)
    BY <1>2 DEF TaskShape
  <2>3. CASE r.pc # "finish"
    <3>1. Must(r) => Must(op[i])
      BY <2>2, <2>3 DEF Continues, Must
    <3> QED BY <1>1, <1>2, <2>2, <2>3, <3>1 DEF Continues, TaskShape
  <2>4. CASE r.pc = "finish"
    <3>1. op'[i] = r /\ \A j \in Ids : j # i => op'[j] = op[j]
      BY <2>2, SetAt
    <3>2. \A j \in Ids : j # i => (Must(op'[j]) <=> Must(op[j]))
      BY <3>1
    <3>3. lister' = Racing(i)
      BY <2>2, <2>4 DEF Continues
    <3>4. ASSUME NEW l \in Lister, lister'[l].pc = "set"
          PROVE  \A j \in Ids : Must(op'[j]) => Seen(j, lister'[l])
      BY <3>2, <3>3, <3>4 DEF CacheInv, Racing
    <3>5. DOMAIN lister' = Lister
      BY <3>3 DEF Racing
    <3>6. Must(r) => cache'.full = FALSE
      BY <2>2, <2>4 DEF Continues, Must
    <3>7. cache'.full => cache' = cache
      BY <1>2 DEF TaskShape
    <3>8. ASSUME cache'.full, NEW j \in Ids, Must(op'[j]) PROVE Seen(j, cache')
      <4>1. ~Must(r) /\ cache' = cache
        BY <3>6, <3>7, <3>8
      <4>2. Must(op[j])
        BY <3>1, <3>2, <3>8, <4>1
      <4> QED BY <4>1, <4>2, <3>8 DEF CacheInv
    <3> QED BY <3>4, <3>5, <3>8 DEF CacheInv
  <2> QED BY <2>3, <2>4
<1>3. CASE RequestShape
  <2>1. PICK i \in Ids, r \in OpRec : Set(i, r) /\ Starts(i, r)
    BY <1>3 DEF RequestShape
  <2>2. ~Must(r)
    BY <2>1 DEF Starts, Must
  <2> QED BY <1>1, <1>3, <2>1, <2>2 DEF RequestShape
<1>4. CASE CommandShape
  <2>1. PICK i \in Ids : i = MaxOps + batch.next
    BY <1>4, BatchTyped DEF CommandShape
  <2>2. PICK r \in OpRec : Set(i, r) /\ Starts(i, r)
    BY <1>4, <2>1 DEF CommandShape
  <2>3. ~Must(r)
    BY <2>2 DEF Starts, Must
  <2> QED BY <1>1, <1>4, <2>2, <2>3 DEF CommandShape
<1>5. CASE BatchShape
  BY <1>5 DEF BatchShape, CacheInv
<1>6. CASE OtherShape
  <2>1. CASE (cache' = cache \/ cache'.full = FALSE) /\ lister' = lister
    BY <1>6, <2>1 DEF OtherShape, CacheInv
  <2>2. ASSUME NEW l \in Lister, ListHit(l) \/ ListTask(l) PROVE CacheInv'
    <3>1. op' = op
      BY <1>6 DEF OtherShape
    <3>2. CASE ListHit(l)
      BY <3>1, <3>2 DEF ListHit, NoList, CacheInv
    <3>3. CASE ListFetch(l)
      <4>1. \A i \in Ids : Must(op[i]) => i \in Invalidated
        BY DEF Invalidated, Completed, Must
      <4> QED BY <3>1, <3>3, <4>1 DEF ListFetch, NoList, CacheInv
    <3>4. CASE ListSet(l)
      BY <3>1, <3>4 DEF ListSet, NoList, CacheInv
    <3> QED BY <2>2, <3>2, <3>3, <3>4 DEF ListTask
  <2> QED BY <1>6, <2>1, <2>2 DEF OtherShape
<1>8. ASSUME NEW graceful \in BOOLEAN, Stop(graceful) PROVE CacheInv'
  <2>1. lister' = [l \in Lister |-> NoList]
    BY <1>8 DEF Stop
  <2> QED BY <1>8, <2>1, StopEnds DEF CacheInv, NoList
<1> QED BY <1>2, <1>3, <1>4, <1>5, <1>6, <1>8, StepShape

-----------------------------------------------------------------------------
(* BatchInv without the operations: the counters of the batch task. *)
BatchCounts ==
    /\ batch \in BatchRec
    /\ batch.next >= 1 /\ batch.next <= Len(Batch) + 1 /\ Len(batch.log) = batch.next - 1
    /\ batch.pc = "wait" => batch.next <= Len(Batch) /\ batch.cur = MaxOps + batch.next
    /\ batch.pc = "idle" => batch.next = 1
BatchFree ==
    /\ batch.pc \in {"idle", "next"} =>
          \A i \in Ids : i >= MaxOps + batch.next => op[i].pc = "free"
    /\ batch.pc = "wait" =>
          \A i \in Ids : i > MaxOps + batch.next => op[i].pc = "free"

LEMMA LoggedOk ==
    ASSUME BatchInv, NEW e \in Statuses \cup {"busy"}, batch.next <= Len(Batch), batch' = Logged(e)
    PROVE  BatchCounts' /\ batch'.pc = "next" /\ batch'.next = batch.next + 1
<1>1. batch \in BatchRec /\ batch.next \in Nat /\ batch.log \in Seq(Statuses \cup {"busy"})
  BY DEF BatchInv, BatchRec
<1>2. Len(Batch) \in Nat
  BY ServerAssumption DEF ServerAssumption
<1> DEFINE l == Append(batch.log, e)
<1>3. l \in Seq(Statuses \cup {"busy"}) /\ Len(l) = Len(batch.log) + 1
  BY <1>1
<1> HIDE DEF l
<1> DEFINE m == batch.next + 1
<1>4. m \in Nat /\ m >= 1 /\ m <= Len(Batch) + 1 /\ Len(l) = m - 1 /\ 0 \in Nat
  BY <1>1, <1>2, <1>3 DEF BatchInv
<1>5. batch' = [batch EXCEPT !.log = l, !.next = m, !.cur = 0, !.pc = "next"]
  BY DEF Logged, l
<1> HIDE DEF m
<1>6. batch' \in BatchRec /\ batch'.log = l /\ batch'.next = m /\ batch'.pc = "next"
  BY <1>1, <1>3, <1>4, <1>5 DEF BatchRec
<1> QED BY <1>4, <1>6 DEF BatchCounts, m

LEMMA BatchStep ==
    ASSUME OpsInv, BatchInv, StoreInv, live.s3 \in Nat, Next
    PROVE  BatchInv'
<1>0. BatchInv <=> BatchCounts /\ BatchFree
  BY DEF BatchInv, BatchCounts, BatchFree
<1>p. BatchInv' <=> BatchCounts' /\ BatchFree'
  BY DEF BatchInv, BatchCounts, BatchFree
<1>t. batch \in BatchRec /\ batch.next \in Nat /\ MaxOps \in Nat /\ Len(Batch) \in Nat
      /\ Ids = 1..(MaxOps + Len(Batch)) /\ batch.next >= 1
  <2>1. MaxOps \in Nat /\ Batch \in Seq(Actions \X Name)
    BY ServerAssumption DEF ServerAssumption
  <2>2. batch \in BatchRec /\ batch.next \in Nat /\ batch.next >= 1
    BY DEF BatchInv, BatchRec
  <2> QED BY <2>1, <2>2 DEF Ids
<1>1. ASSUME batch' = batch, \A j \in Ids : j > MaxOps /\ op[j].pc = "free" => op'[j].pc = "free"
      PROVE  BatchInv'
  <2>1. BatchCounts'
    BY <1>0, <1>1 DEF BatchCounts
  <2>2. \A j \in Ids : j >= MaxOps + batch.next => j > MaxOps
    BY <1>t
  <2>3. \A j \in Ids : j > MaxOps + batch.next => j > MaxOps
    BY <1>t
  <2>4. BatchFree'
    BY <1>0, <1>1, <2>2, <2>3 DEF BatchFree
  <2> QED BY <1>p, <2>1, <2>4
<1>2. CASE TaskShape
  <2>1. PICK i \in Ids, r \in OpRec : Set(i, r) /\ Continues(i, r)
    BY <1>2 DEF TaskShape
  <2>2. op[i].pc # "free"
    BY <2>1 DEF Continues, Running
  <2>3. \A j \in Ids : j # i => op'[j] = op[j]
    BY <2>1, SetAt
  <2> QED BY <1>1, <1>2, <2>2, <2>3 DEF TaskShape
<1>3. CASE RequestShape
  <2>1. PICK i \in Ids, r \in OpRec : i <= MaxOps /\ Set(i, r)
    BY <1>3 DEF RequestShape
  <2>2. \A j \in Ids : j # i => op'[j] = op[j]
    BY <2>1, SetAt
  <2>3. \A j \in Ids : j > MaxOps => j # i
    BY <2>1, <1>t
  <2> QED BY <1>1, <1>3, <2>2, <2>3 DEF RequestShape
<1>4. CASE CommandShape
  <2>1. PICK i \in Ids : i = MaxOps + batch.next
    BY <1>4, BatchTyped DEF CommandShape
  <2>2. PICK r \in OpRec : Set(i, r) /\ Starts(i, r)
    BY <1>4, <2>1 DEF CommandShape
  <2>3. \A j \in Ids : j # i => op'[j] = op[j]
    BY <2>2, SetAt
  <2>4. batch' = [batch EXCEPT !.cur = i, !.pc = "wait"] /\ batch.pc = "next" /\ batch.next <= Len(Batch)
    BY <1>4, <2>1 DEF CommandShape
  <2>5. i \in Nat
    BY <1>t, <2>1
  <2>6. batch' \in BatchRec /\ batch'.pc = "wait" /\ batch'.cur = i /\ batch'.next = batch.next
        /\ batch'.log = batch.log
    BY <1>t, <2>4, <2>5 DEF BatchRec
  <2>7. BatchCounts'
    BY <1>0, <2>1, <2>4, <2>6 DEF BatchCounts
  <2>8. \A j \in Ids : j > MaxOps + batch.next => j # i /\ j >= MaxOps + batch.next
    BY <1>t, <2>1
  <2>9. BatchFree'
    BY <1>0, <2>3, <2>4, <2>6, <2>8 DEF BatchFree
  <2> QED BY <1>p, <2>7, <2>9
<1>5. CASE BatchShape
  <2>0. op' = op
    BY <1>5 DEF BatchShape
  <2>1. ASSUME NEW route \in BatchRoutes, batch.pc = "idle", batch' = [NoBatch EXCEPT !.pc = "next", !.route = route]
        PROVE  BatchInv'
    <3>1. route \in {"", "actions", "queue"}
      BY ServerAssumption DEF ServerAssumption
    <3>2. 1 \in Nat /\ 0 \in Nat /\ <<>> \in Seq(Statuses \cup {"busy"}) /\ Len(<<>>) = 0
      OBVIOUS
    <3>3. batch' \in BatchRec /\ batch'.pc = "next" /\ batch'.next = 1 /\ batch'.log = <<>>
      BY <2>1, <3>1, <3>2 DEF NoBatch, BatchRec
    <3>4. BatchCounts'
      BY <1>t, <3>2, <3>3 DEF BatchCounts
    <3>5. batch.next = 1
      BY <1>0, <2>1 DEF BatchCounts
    <3>6. BatchFree'
      BY <1>0, <2>0, <2>1, <3>3, <3>5 DEF BatchFree
    <3> QED BY <1>p, <3>4, <3>6
  <2>2. CASE batch.pc = "wait" /\ batch' = Logged(op[batch.cur].status)
    <3>1. batch.next <= Len(Batch) /\ batch.cur = MaxOps + batch.next
      BY <1>0, <2>2 DEF BatchCounts
    <3>2. batch.cur \in Ids
      BY <3>1, BatchTyped
    <3>3. PICK e \in Statuses : e = op[batch.cur].status
      BY <3>2 DEF OpsInv, OpRec
    <3>4. BatchCounts' /\ batch'.pc = "next" /\ batch'.next = batch.next + 1
      BY <2>2, <3>1, <3>3, LoggedOk
    <3>5. \A j \in Ids : j >= MaxOps + (batch.next + 1) => j > MaxOps + batch.next
      BY <1>t
    <3>6. BatchFree'
      BY <1>0, <2>0, <2>2, <3>4, <3>5 DEF BatchFree
    <3> QED BY <1>p, <3>4, <3>6
  <2>3. CASE batch.pc = "next" /\ batch.next <= Len(Batch) /\ batch' = Logged("busy")
    <3>4. BatchCounts' /\ batch'.pc = "next" /\ batch'.next = batch.next + 1
      BY <2>3, LoggedOk
    <3>5. \A j \in Ids : j >= MaxOps + (batch.next + 1) => j >= MaxOps + batch.next
      BY <1>t
    <3>6. BatchFree'
      BY <1>0, <2>0, <2>3, <3>4, <3>5 DEF BatchFree
    <3> QED BY <1>p, <3>4, <3>6
  <2>4. CASE batch.pc = "next" /\ batch' = [batch EXCEPT !.pc = "done"]
    <3>1. batch' \in BatchRec /\ batch'.pc = "done" /\ batch'.next = batch.next /\ batch'.log = batch.log
      BY <1>t, <2>4 DEF BatchRec
    <3>2. BatchCounts'
      BY <1>0, <3>1 DEF BatchCounts
    <3>3. BatchFree'
      BY <3>1 DEF BatchFree
    <3> QED BY <1>p, <3>2, <3>3
  <2> QED BY <1>5, <2>1, <2>2, <2>3, <2>4 DEF BatchShape
<1>6. CASE OtherShape
  BY <1>1, <1>6 DEF OtherShape
<1>7. ASSUME NEW graceful \in BOOLEAN, Stop(graceful) PROVE BatchInv'
  <2>1. \A j \in Ids : op[j].pc = "free" => op'[j].pc = "free"
    BY <1>7, StopEnds
  <2>2. CASE batch' = batch
    BY <1>1, <2>1, <2>2
  <2>3. CASE batch' = [batch EXCEPT !.pc = "lost"]
    <3>1. batch' \in BatchRec /\ batch'.pc = "lost" /\ batch'.next = batch.next /\ batch'.log = batch.log
      BY <1>t, <2>3 DEF BatchRec
    <3>2. BatchCounts'
      BY <1>0, <3>1 DEF BatchCounts
    <3>3. BatchFree'
      BY <3>1 DEF BatchFree
    <3> QED BY <1>p, <3>2, <3>3
  <2> QED BY <1>7, <2>2, <2>3 DEF Stop
<1> QED BY <1>2, <1>3, <1>4, <1>5, <1>6, <1>7, StepShape

-----------------------------------------------------------------------------
(* One permit in serial mode: an operation gets it only when there is none. *)
LEMMA PermitStep ==
    ASSUME OpsInv, BatchInv, StoreInv, live.s3 \in Nat, PermitInv, Next
    PROVE  PermitInv'
<1> DEFINE Held(o) == o.pc \notin {"free", "end", "queued"}
<1>0. \A i : i \in WithPermit <=> i \in Ids /\ Held(op[i])
  BY DEF WithPermit, Running
<1>p. \A i : i \in WithPermit' <=> i \in Ids /\ Held(op'[i])
  BY DEF WithPermit, Running
<1>1. ASSUME NEW i \in Ids, NEW r \in OpRec, Set(i, r), Held(r) => Held(op[i]) \/ Admitted
      PROVE  PermitInv'
  <2>1. op'[i] = r /\ \A j \in Ids : j # i => op'[j] = op[j]
    BY <1>1, SetAt
  <2>2. SUFFICES ASSUME ~Parallel, NEW j \in WithPermit', NEW k \in WithPermit' PROVE j = k
    BY DEF PermitInv
  <2>3. CASE Held(op[i]) \/ ~Held(r)
    BY <1>0, <1>p, <2>1, <2>2, <2>3 DEF PermitInv
  <2>4. CASE Admitted
    <3>1. WithPermit = {}
      BY <2>2, <2>4 DEF Admitted
    <3> QED BY <1>0, <1>p, <2>1, <2>2, <3>1
  <2> QED BY <1>1, <2>3, <2>4
<1>2. CASE TaskShape
  <2>1. PICK i \in Ids, r \in OpRec : Set(i, r) /\ Continues(i, r)
    BY <1>2 DEF TaskShape
  <2>2. Held(r) => Held(op[i]) \/ Admitted
    BY <2>1 DEF Continues, Running
  <2> QED BY <1>1, <2>1, <2>2
<1>3. CASE RequestShape
  <2>1. PICK i \in Ids, r \in OpRec : Set(i, r) /\ Starts(i, r)
    BY <1>3 DEF RequestShape
  <2>2. Held(r) => Held(op[i]) \/ Admitted
    BY <2>1 DEF Starts
  <2> QED BY <1>1, <2>1, <2>2
<1>4. CASE CommandShape
  <2>1. PICK i \in Ids : i = MaxOps + batch.next
    BY <1>4, BatchTyped DEF CommandShape
  <2>2. PICK r \in OpRec : Set(i, r) /\ Starts(i, r)
    BY <1>4, <2>1 DEF CommandShape
  <2>3. Held(r) => Held(op[i]) \/ Admitted
    BY <2>2 DEF Starts
  <2> QED BY <1>1, <2>2, <2>3
<1>5. CASE BatchShape \/ OtherShape
  BY <1>5, <1>0, <1>p DEF BatchShape, OtherShape, PermitInv
<1>6. ASSUME NEW graceful \in BOOLEAN, Stop(graceful) PROVE PermitInv'
  BY <1>6, <1>p, StopEnds DEF PermitInv
<1> QED BY <1>2, <1>3, <1>4, <1>5, <1>6, StepShape

(* The PID locks of the operations that have them. *)
LEMMA LocksStep ==
    ASSUME OpsInv, BatchInv, StoreInv, live.s3 \in Nat, LocksDisjoint, Next
    PROVE  LocksDisjoint'
<1> DEFINE Has(o) == o.pc \notin {"free", "end", "queued", "lock"}
           Apart2(o, q) == lock_for_command(o.kind, o.name) \cap lock_for_command(q.kind, q.name) = {}
<1>0. \A i : i \in Locked <=> i \in Ids /\ Has(op[i])
  BY DEF Locked, Running
<1>p. \A i : i \in Locked' <=> i \in Ids /\ Has(op'[i])
  BY DEF Locked, Running
<1>s. \A o, q : Apart2(o, q) <=> Apart2(q, o)
  OBVIOUS
<1>i. \A i, j \in Locked : i # j => Apart2(op[i], op[j])
  BY DEF LocksDisjoint
<1>g. (\A i, j \in Locked' : i # j => Apart2(op'[i], op'[j])) => LocksDisjoint'
  BY DEF LocksDisjoint
<1> HIDE DEF Apart2
<1>1. ASSUME NEW i \in Ids, NEW r \in OpRec, Set(i, r),
             Has(r) => \A j \in Locked : j # i => Apart2(r, op[j])
      PROVE  LocksDisjoint'
  <2>1. op'[i] = r /\ \A j \in Ids : j # i => op'[j] = op[j]
    BY <1>1, SetAt
  <2>2. SUFFICES ASSUME NEW j \in Locked', NEW k \in Locked', j # k PROVE Apart2(op'[j], op'[k])
    BY <1>g
  <2>3. CASE j = i
    BY <1>0, <1>p, <1>1, <2>1, <2>2, <2>3
  <2>4. CASE k = i
    BY <1>0, <1>p, <1>s, <1>1, <2>1, <2>2, <2>4
  <2>5. CASE j # i /\ k # i
    BY <1>0, <1>p, <1>i, <2>1, <2>2, <2>5
  <2> QED BY <2>3, <2>4, <2>5
<1>2. CASE TaskShape
  <2>1. PICK i \in Ids, r \in OpRec : Set(i, r) /\ Continues(i, r)
    BY <1>2 DEF TaskShape
  <2>2. ASSUME Has(r), NEW j \in Locked, j # i PROVE Apart2(r, op[j])
    <3>1. r.kind = op[i].kind /\ r.name = op[i].name
      BY <2>1 DEF Continues
    <3>2. CASE i \in Locked
      BY <1>i, <2>2, <3>1, <3>2 DEF Apart2
    <3>3. CASE i \notin Locked
      <4>1. r.pc = "load" /\ op[i].pc = "lock"
        BY <2>1, <2>2, <3>3, <1>0 DEF Continues
      <4>2. lock_for_command(op[i].kind, op[i].name) \cap lock_for_command(op[j].kind, op[j].name) = {}
        BY <2>1, <2>2, <4>1 DEF Continues
      <4> QED BY <3>1, <4>2 DEF Apart2
    <3> QED BY <3>2, <3>3
  <2> QED BY <1>1, <2>1, <2>2
<1>3. CASE RequestShape
  <2>1. PICK i \in Ids, r \in OpRec : Set(i, r) /\ Starts(i, r)
    BY <1>3 DEF RequestShape
  <2>2. ~Has(r)
    BY <2>1 DEF Starts
  <2> QED BY <1>1, <2>1, <2>2
<1>4. CASE CommandShape
  <2>1. PICK i \in Ids : i = MaxOps + batch.next
    BY <1>4, BatchTyped DEF CommandShape
  <2>2. PICK r \in OpRec : Set(i, r) /\ Starts(i, r)
    BY <1>4, <2>1 DEF CommandShape
  <2>3. ~Has(r)
    BY <2>2 DEF Starts
  <2> QED BY <1>1, <2>2, <2>3
<1>5. CASE BatchShape \/ OtherShape
  BY <1>5, <1>0, <1>p, <1>i, <1>g DEF BatchShape, OtherShape
<1>6. ASSUME NEW graceful \in BOOLEAN, Stop(graceful) PROVE LocksDisjoint'
  BY <1>6, <1>p, <1>g, StopEnds
<1> QED BY <1>2, <1>3, <1>4, <1>5, <1>6, StepShape

-----------------------------------------------------------------------------
(* The stores hold backups by name, the scan of a start state files. *)
Stored == local \subseteq Name /\ files \subseteq (Resumable \X Name) /\ remote \in [Versions -> SUBSET Name]
Counted == faults \in 0..MaxFaults /\ crashes \in 0..MaxCrashes
Booted == boot \in [pc : {"ready", "tables", "flag", "serving", "down"},
                    scan : SUBSET (Resumable \X Name), flag : BOOLEAN]

LEMMA FaultCounted ==
    ASSUME StoreInv, Fault \/ faults' = faults, UNCHANGED crashes
    PROVE  Counted'
<1>1. faults \in Nat /\ MaxFaults \in Nat /\ faults <= MaxFaults /\ crashes \in 0..MaxCrashes
  BY ServerAssumption DEF ServerAssumption, StoreInv
<1>2. CASE Fault
  BY <1>1, <1>2 DEF Fault, MayFail, Counted
<1>3. CASE faults' = faults
  BY <1>1, <1>3 DEF Counted
<1> QED BY <1>2, <1>3

LEMMA StoreParts == StoreInv <=> Stored /\ Counted /\ Booted
BY DEF StoreInv, Stored, Counted, Booted

LEMMA StorePartsNext == StoreInv' <=> Stored' /\ Counted' /\ Booted'
BY DEF StoreInv, Stored, Counted, Booted

LEMMA TaskStores ==
    ASSUME OpsInv, StoreInv, live.s3 \in Nat, NEW i \in Ids, Task(i) \/ Kill(i)
    PROVE  StoreInv'
<1>0. Stored /\ Booted
  BY StoreParts
<1>a. boot' = boot /\ crashes' = crashes
  BY TaskContinues DEF Apart
<1>b. Booted'
  BY <1>0, <1>a DEF Booted
<1>c. Fault \/ faults' = faults
  BY DEF Task, AcquireLock, LoadClients, BeginStep, StepSucceeds, StepFails, StepImpossible,
         Invalidate, Finish, Dequeue, Kill
<1>d. Counted'
  BY <1>a, <1>c, FaultCounted
<1>e. SUFFICES Stored'
  BY <1>b, <1>d, StorePartsNext
<1>1. CASE AcquireLock(i) \/ LoadClients(i) \/ StepImpossible(i) \/ Invalidate(i) \/ Finish(i) \/ Dequeue(i)
  <2>1. UNCHANGED storeVars
    BY <1>1 DEF AcquireLock, LoadClients, StepImpossible, Invalidate, Finish, Dequeue
  <2> QED BY <1>0, <2>1 DEF Stored, storeVars
<1>n. ASSUME op[i].pc # "free" PROVE op[i].name \in Name
  BY <1>n DEF OpsInv
<1>2. CASE BeginStep(i)
  <2>1. op[i].name \in Name
    BY <1>2, <1>n DEF BeginStep
  <2>2. remote' = remote
    BY <1>2 DEF BeginStep
  <2>3. local' \subseteq local \cup {op[i].name}
    BY <1>2 DEF BeginStep
  <2>4. files' \subseteq files \cup (Resumable \X {op[i].name})
    BY <1>2 DEF BeginStep
  <2> QED BY <1>0, <2>1, <2>2, <2>3, <2>4 DEF Stored
<1>3. CASE StepSucceeds(i)
  <2>1. op[i].name \in Name
    BY <1>3, <1>n DEF StepSucceeds
  <2> DEFINE s == Head(op[i].todo)
  <2>2. Effect(i, s)
    BY <1>3 DEF StepSucceeds
  <2> HIDE DEF s
  <2>3. local' \subseteq local \cup {op[i].name}
    <3>1. local' = CASE s = "create" -> local \cup {op[i].name}
                     [] s = "delete_local" -> local \ {op[i].name}
                     [] OTHER -> local
      BY <2>2 DEF Effect
    <3>2. CASE s = "create"
      BY <3>1, <3>2
    <3>3. CASE s = "delete_local"
      BY <3>1, <3>3
    <3>4. CASE s \notin {"create", "delete_local"}
      BY <3>1, <3>4
    <3> QED BY <3>2, <3>3, <3>4
  <2>4. files' \subseteq files
    <3>1. files' = CASE s \in Resumable -> files \ {<<s, op[i].name>>}
                     [] s = "delete_local" -> {f \in files : f[2] # op[i].name}
                     [] OTHER -> files
      BY <2>2 DEF Effect
    <3>2. CASE s \in Resumable
      <4>1. s # "delete_local"
        BY <3>2 DEF Resumable
      <4> QED BY <3>1, <3>2, <4>1
    <3>3. CASE s = "delete_local"
      <4>1. s \notin Resumable
        BY <3>3 DEF Resumable
      <4> QED BY <3>1, <3>3, <4>1
    <3>4. CASE s \notin Resumable /\ s # "delete_local"
      BY <3>1, <3>4
    <3> QED BY <3>2, <3>3, <3>4
  <2>5. remote' \in [Versions -> SUBSET Name]
    <3> DEFINE b == op[i].s3
    <3>1. CASE remote' = [remote EXCEPT ![b] = @ \cup {op[i].name}]
      BY <3>1, <2>1, <1>0 DEF Stored
    <3>2. ASSUME NEW gone, remote' = [remote EXCEPT ![b] = @ \ gone]
          PROVE  remote' \in [Versions -> SUBSET Name]
      BY <3>2, <1>0 DEF Stored
    <3>3. CASE remote' = remote
      BY <3>3, <1>0 DEF Stored
    <3> QED BY <2>2, <3>1, <3>2, <3>3 DEF Effect
  <2> QED BY <1>0, <2>1, <2>3, <2>4, <2>5 DEF Stored
<1>4. CASE StepFails(i) \/ Kill(i)
  <2>1. op[i].name \in Name
    BY <1>4, <1>n DEF StepFails, Kill, Running
  <2>2. local' = local /\ files' = files
    BY <1>4 DEF StepFails, Kill
  <2>3. remote' = remote \/ remote' = [remote EXCEPT ![op[i].s3] = @ \cup {op[i].name}]
    BY <1>4 DEF StepFails, Kill
  <2>4. remote' \in [Versions -> SUBSET Name]
    BY <1>0, <2>1, <2>3 DEF Stored
  <2> QED BY <1>0, <2>2, <2>4 DEF Stored
<1> QED BY <1>1, <1>2, <1>3, <1>4 DEF Task

LEMMA BackgroundStores ==
    ASSUME StoreInv, Background \/ (\E graceful \in BOOLEAN : Stop(graceful))
    PROVE  StoreInv'
<1>0. Stored /\ Booted /\ Counted
  BY StoreParts
<1>1. Stored'
  <2>1. UNCHANGED storeVars
    BY DEF Background, AutoResumeScan, auto_resume, CreateIntegrationTables, StartServer, Stop
  <2> QED BY <1>0, <2>1 DEF Stored, storeVars
<1>2. Counted'
  <2>1. CASE Background
    <3>1. Fault \/ faults' = faults
      BY <2>1 DEF Background, AutoResumeScan, auto_resume, CreateIntegrationTables, StartServer,
                  ResumeRestore, ResumeTask
    <3>2. crashes' = crashes
      BY <2>1 DEF Background, AutoResumeScan, auto_resume, CreateIntegrationTables, StartServer
    <3> QED BY <3>1, <3>2, FaultCounted
  <2>2. ASSUME NEW graceful \in BOOLEAN, Stop(graceful) PROVE Counted'
    <3>1. crashes \in Nat /\ MaxCrashes \in Nat /\ faults \in 0..MaxFaults
      BY <1>0, ServerAssumption DEF ServerAssumption, Counted
    <3>2. crashes < MaxCrashes /\ crashes' = crashes + 1 /\ faults' = faults
      BY <2>2 DEF Stop
    <3> QED BY <3>1, <3>2 DEF Counted
  <2> QED BY <2>1, <2>2
<1>3. Booted'
  <2>1. CASE AutoResumeScan
    <3>1. PICK sc \in SUBSET (Resumable \X Name) : boot' = [boot EXCEPT !.pc = "tables", !.scan = sc]
      <4>1. scan_resumable_state_files \in SUBSET (Resumable \X Name)
        BY <1>0 DEF scan_resumable_state_files, Stored
      <4> QED BY <2>1, <4>1 DEF AutoResumeScan
    <3> QED BY <1>0, <3>1 DEF Booted
  <2>2. CASE auto_resume
    <3>1. PICK sc \in SUBSET (Resumable \X Name) : boot' = [boot EXCEPT !.scan = sc]
      <4>1. \A f : boot.scan \ {f} \in SUBSET (Resumable \X Name)
        BY <1>0 DEF Booted
      <4> QED BY <2>2, <4>1 DEF auto_resume
    <3> QED BY <1>0, <3>1 DEF Booted
  <2>3. CASE CreateIntegrationTables
    BY <1>0, <2>3 DEF CreateIntegrationTables, Booted
  <2>4. CASE StartServer
    BY <1>0, <2>4 DEF StartServer, Booted
  <2>5. ASSUME NEW graceful \in BOOLEAN, Stop(graceful) PROVE Booted'
    BY <2>5 DEF Stop, Booted
  <2> QED BY <2>1, <2>2, <2>3, <2>4, <2>5 DEF Background
<1> QED BY <1>1, <1>2, <1>3, StorePartsNext

LEMMA StoreStep ==
    ASSUME OpsInv, StoreInv, live.s3 \in Nat, Next
    PROVE  StoreInv'
<1>0. Stored /\ Booted /\ Counted
  BY StoreParts
<1>1. ASSUME UNCHANGED storeVars, UNCHANGED bootVars, Fault \/ faults' = faults
      PROVE  StoreInv'
  <2>1. Stored'
    BY <1>0, <1>1 DEF Stored, storeVars
  <2>2. Booted'
    BY <1>0, <1>1 DEF Booted, bootVars
  <2>3. Counted'
    BY <1>1, FaultCounted DEF bootVars
  <2> QED BY <2>1, <2>2, <2>3, StorePartsNext
<1>2. ASSUME NEW n \in Name, Handler(n) PROVE StoreInv'
  BY <1>1, <1>2, HandlerStarts
<1>3. ASSUME NEW i \in Ids, Task(i) \/ Kill(i) PROVE StoreInv'
  BY <1>3, TaskStores
<1>4. CASE Background \/ \E graceful \in BOOLEAN : Stop(graceful)
  BY <1>4, BackgroundStores
<1>5. ASSUME NEW route \in BatchRoutes, PostBatch(route) PROVE StoreInv'
  BY <1>5, <1>1 DEF PostBatch
<1>6. CASE BatchTask
  BY <1>6, <1>1 DEF BatchTask, StartAction, QueueAction, BatchNext
<1>7. CASE Expire \/ EditConfig
  BY <1>7, <1>1 DEF Expire, EditConfig
<1>8. ASSUME NEW l \in Lister, ListHit(l) \/ ListTask(l) PROVE StoreInv'
  BY <1>8, <1>1 DEF ListHit, ListTask, ListFetch, ListSet
<1>9. ASSUME NEW r \in Reloader, ReloadConfig(r) \/ ReloadTask(r) PROVE StoreInv'
  BY <1>9, <1>1 DEF ReloadConfig, ReloadTask, CheckClients, Swap
<1> QED BY <1>2, <1>3, <1>4, <1>5, <1>6, <1>7, <1>8, <1>9 DEF Next

-----------------------------------------------------------------------------
(* The steps that touch the configuration, its clients or a reload. *)
ConfStep ==
    \/ EditConfig \/ StartServer \/ \E graceful \in BOOLEAN : Stop(graceful)
    \/ \E r \in Reloader : ReloadConfig(r) \/ CheckClients(r) \/ Swap(r)

LEMMA ConfFrame ==
    ASSUME OpsInv, StoreInv, live.s3 \in Nat, Next
    PROVE  ConfStep \/ (UNCHANGED confVars /\ (boot'.pc # "down" <=> Serving))
<1>1. ASSUME NEW n \in Name, Handler(n) PROVE UNCHANGED confVars /\ boot' = boot
  BY <1>1, HandlerStarts DEF bootVars
<1>2. ASSUME NEW i \in Ids, Task(i) \/ Kill(i) PROVE UNCHANGED confVars /\ boot' = boot
  BY <1>2, TaskContinues DEF Apart
<1>3. ASSUME NEW route \in BatchRoutes, PostBatch(route) PROVE UNCHANGED confVars /\ boot' = boot
  BY <1>3 DEF PostBatch, bootVars
<1>4. CASE BatchTask
  BY <1>4 DEF BatchTask, StartAction, QueueAction, BatchNext, bootVars, Serving
<1>5. CASE AutoResumeScan \/ auto_resume \/ CreateIntegrationTables
  BY <1>5 DEF AutoResumeScan, auto_resume, CreateIntegrationTables, Serving, StoreInv
<1>6. CASE Expire
  BY <1>6 DEF Expire, bootVars, Serving
<1>7. ASSUME NEW l \in Lister, ListHit(l) \/ ListTask(l) PROVE UNCHANGED confVars /\ boot' = boot
  BY <1>7 DEF ListHit, ListTask, ListFetch, ListSet, bootVars
<1> QED
  BY <1>1, <1>2, <1>3, <1>4, <1>5, <1>6, <1>7 DEF Next, Background, ConfStep, ReloadTask, Serving

(* What one store of a reload does. *)
LEMMA SwapAt ==
    ASSUME SwapTypes, NEW r \in Reloader, Swap(r)
    PROVE  /\ reload[r].v \in Versions /\ disk' = disk /\ boot' = boot
           /\ \/ reload[r].pc = "config" /\ live' = [live EXCEPT !.config = reload[r].v]
                 /\ reload' = [reload EXCEPT ![r] = [pc |-> "ch", v |-> reload[r].v]]
              \/ reload[r].pc = "ch" /\ live' = [live EXCEPT !.ch = reload[r].v]
                 /\ reload' = [reload EXCEPT ![r] = [pc |-> "s3", v |-> reload[r].v]]
              \/ reload[r].pc = "s3" /\ live' = [live EXCEPT !.s3 = reload[r].v]
                 /\ reload' = [reload EXCEPT ![r] = [pc |-> "idle", v |-> 0]]
<1> DEFINE q == reload[r]
<1>0. q \in ReloadRec /\ q.v \in Versions /\ disk' = disk /\ boot' = boot
  BY DEF SwapTypes, Swap, bootVars
<1>1. q.pc \in {"config", "ch", "s3"} /\ live' = [live EXCEPT ![q.pc] = q.v]
  BY DEF Swap
<1>2. reload' = [reload EXCEPT ![r] = CASE q.pc = "config" -> [q EXCEPT !.pc = "ch"]
                                         [] q.pc = "ch" -> [q EXCEPT !.pc = "s3"]
                                         [] q.pc = "s3" -> [pc |-> "idle", v |-> 0]]
  BY DEF Swap
<1>3. [q EXCEPT !.pc = "ch"] = [pc |-> "ch", v |-> q.v] /\ [q EXCEPT !.pc = "s3"] = [pc |-> "s3", v |-> q.v]
  BY <1>0 DEF ReloadRec
<1> HIDE DEF q
<1>4. CASE q.pc = "config"
  BY <1>0, <1>1, <1>2, <1>3, <1>4 DEF q
<1>5. CASE q.pc = "ch"
  BY <1>0, <1>1, <1>2, <1>3, <1>5 DEF q
<1>6. CASE q.pc = "s3"
  BY <1>0, <1>1, <1>2, <1>3, <1>6 DEF q
<1> QED BY <1>1, <1>4, <1>5, <1>6

LEMMA SwapTypesStep ==
    ASSUME OpsInv, StoreInv, SwapTypes, Next
    PROVE  SwapTypes'
<1>v. Versions \subseteq Nat /\ MaxVersion \in Nat
  BY ServerAssumption DEF ServerAssumption, Versions
<1>s. live.s3 \in Nat
  BY <1>v DEF SwapTypes
<1>1. CASE UNCHANGED confVars
  BY <1>1 DEF SwapTypes, confVars
<1>2. CASE EditConfig
  <2>1. disk + 1 \in Versions
    BY <1>2, <1>v DEF EditConfig, SwapTypes, Versions
  <2> QED BY <1>2, <2>1 DEF EditConfig, SwapTypes
<1>3. CASE StartServer
  <2>1. live' \in [config : Versions, ch : Versions, s3 : Versions]
    BY <1>3 DEF StartServer, SwapTypes
  <2> QED BY <1>3, <2>1 DEF StartServer, SwapTypes
<1>4. ASSUME NEW graceful \in BOOLEAN, Stop(graceful) PROVE SwapTypes'
  <2>1. reload' = [r \in Reloader |-> [pc |-> "idle", v |-> 0]] /\ live' = live /\ disk' = disk
    BY <1>4 DEF Stop
  <2>2. [pc |-> "idle", v |-> 0] \in ReloadRec
    BY DEF ReloadRec
  <2> QED BY <2>1, <2>2 DEF SwapTypes
<1>5. ASSUME NEW r \in Reloader, NEW q \in ReloadRec, reload' = [reload EXCEPT ![r] = q],
             q.pc # "idle" => q.v \in Versions, disk' = disk,
             live' \in [config : Versions, ch : Versions, s3 : Versions]
      PROVE  SwapTypes'
  <2>1. reload' \in [Reloader -> ReloadRec] /\ reload'[r] = q
        /\ \A p \in Reloader : p # r => reload'[p] = reload[p]
    BY <1>5 DEF SwapTypes
  <2>2. disk' \in Versions
    BY <1>5 DEF SwapTypes
  <2>3. \A p \in Reloader : reload'[p].pc # "idle" => reload'[p].v \in Versions
    BY <1>5, <2>1 DEF SwapTypes
  <2> QED BY <1>5, <2>1, <2>2, <2>3 DEF SwapTypes
<1>l. live \in [config : Versions, ch : Versions, s3 : Versions]
  BY DEF SwapTypes
<1>6. ASSUME NEW r \in Reloader, ReloadConfig(r) PROVE SwapTypes'
  <2>1. disk \in Versions
    BY DEF SwapTypes
  <2>2. [pc |-> "check", v |-> disk] \in ReloadRec
    BY <1>v, <2>1 DEF ReloadRec
  <2> QED BY <1>5, <1>6, <1>l, <2>1, <2>2 DEF ReloadConfig
<1>7. ASSUME NEW r \in Reloader, CheckClients(r) PROVE SwapTypes'
  <2>0. reload[r] \in ReloadRec /\ reload[r].v \in Versions /\ disk' = disk /\ live' = live
    BY <1>7 DEF CheckClients, SwapTypes
  <2>1. CASE reload' = [reload EXCEPT ![r].pc = "config"]
    <3> DEFINE q == [reload[r] EXCEPT !.pc = "config"]
    <3>1. q \in ReloadRec /\ q.v \in Versions
      BY <2>0 DEF ReloadRec
    <3>2. reload' = [reload EXCEPT ![r] = q]
      BY <2>1
    <3> HIDE DEF q
    <3> QED BY <1>5, <1>l, <2>0, <3>1, <3>2
  <2>2. CASE reload' = [reload EXCEPT ![r] = [pc |-> "idle", v |-> 0]]
    <3>1. [pc |-> "idle", v |-> 0] \in ReloadRec
      BY DEF ReloadRec
    <3> QED BY <1>5, <1>l, <2>0, <2>2, <3>1
  <2> QED BY <1>7, <2>1, <2>2 DEF CheckClients
<1>8. ASSUME NEW r \in Reloader, Swap(r) PROVE SwapTypes'
  <2>0. reload[r] \in ReloadRec /\ reload[r].v \in Versions /\ disk' = disk
    BY <1>8, SwapAt DEF SwapTypes
  <2>1. live' \in [config : Versions, ch : Versions, s3 : Versions]
    BY <1>8, <1>l, <2>0, SwapAt
  <2>2. \E q \in ReloadRec : (q.pc # "idle" => q.v \in Versions) /\ reload' = [reload EXCEPT ![r] = q]
    <3>1. reload[r].v \in Nat
      BY <2>0, <1>v
    <3>2. /\ [pc |-> "ch", v |-> reload[r].v] \in ReloadRec
          /\ [pc |-> "s3", v |-> reload[r].v] \in ReloadRec
          /\ [pc |-> "idle", v |-> 0] \in ReloadRec
      BY <3>1 DEF ReloadRec
    <3> QED BY <1>8, <2>0, <3>2, SwapAt
  <2> QED BY <1>5, <2>0, <2>1, <2>2
<1> QED BY <1>1, <1>2, <1>3, <1>4, <1>6, <1>7, <1>8, <1>s, ConfFrame DEF ConfStep

(* A reload that is alone in its three stores leaves them of one version. *)
LEMMA SwapStep ==
    ASSUME OpsInv, StoreInv, SwapTypes, SwapInv, SwapsApart, SwapsApart', Next
    PROVE  SwapInv'
<1>s. live.s3 \in Nat
  BY ServerAssumption DEF ServerAssumption, Versions, SwapTypes
<1>1. CASE UNCHANGED confVars /\ (boot'.pc # "down" <=> Serving)
  BY <1>1 DEF SwapInv, confVars, Serving, Still, Same
<1>2. CASE EditConfig
  BY <1>2 DEF EditConfig, SwapInv, bootVars, Serving, Still, Same
<1>3. CASE StartServer
  BY <1>3 DEF StartServer, SwapInv, Serving, Still, Same
<1>4. ASSUME NEW graceful \in BOOLEAN, Stop(graceful) PROVE SwapInv'
  <2>1. boot'.pc = "down"
    BY <1>4 DEF Stop
  <2>2. \A r \in Reloader : reload'[r].pc = "idle"
    BY <1>4 DEF Stop
  <2> QED BY <2>1, <2>2 DEF SwapInv, Serving
<1>5. ASSUME NEW r \in Reloader, ReloadConfig(r) \/ CheckClients(r) PROVE SwapInv'
  <2>1. live' = live /\ boot' = boot /\ Still(r)
    BY <1>5 DEF ReloadConfig, CheckClients, bootVars, Still
  <2>2. reload'[r].pc \in {"idle", "check", "config"} /\ \A q \in Reloader : q # r => reload'[q] = reload[q]
    BY <1>5 DEF ReloadConfig, CheckClients, SwapTypes, ReloadRec
  <2>3. Serving
    BY <1>5 DEF ReloadConfig, CheckClients, SwapInv
  <2>4. CASE Still(r)'
    <3>1. \A q \in Reloader : Still(q)' <=> Still(q)
      BY <2>1, <2>2, <2>4 DEF Still
    <3>2. \A q \in Reloader : ~Still(q) => reload'[q] = reload[q]
      BY <2>1, <2>2
    <3>3. reload'[r].pc \in {"idle", "check"}
      BY <2>4 DEF Still
    <3>4. Serving' /\ (Same' <=> Same)
      BY <2>1, <2>3 DEF Serving, Same
    <3>5. \A q \in Reloader : Still(q)' \/ reload'[q] = reload[q]
      BY <3>1, <3>2
    <3>6. (\A q \in Reloader : Still(q)') => Same'
      BY <2>3, <3>1, <3>4 DEF SwapInv
    <3>7. ASSUME NEW q \in Reloader
          PROVE  /\ reload'[q].pc = "config" => Same'
                 /\ reload'[q].pc = "ch" => live'.config = reload'[q].v /\ live'.ch = live'.s3
                 /\ reload'[q].pc = "s3" => live'.config = reload'[q].v /\ live'.ch = reload'[q].v
      <4>1. CASE Still(q)'
        BY <4>1 DEF Still
      <4>2. CASE reload'[q] = reload[q]
        BY <4>2, <2>1, <3>4 DEF SwapInv
      <4> QED BY <3>5, <4>1, <4>2
    <3> QED BY <3>4, <3>6, <3>7 DEF SwapInv
  <2>5. CASE reload'[r].pc = "config"
    <3>1. \A q \in Reloader : q # r => Still(q)'
      BY <2>5 DEF SwapsApart, Still
    <3>2. \A q \in Reloader : Still(q)
      BY <2>1, <2>2, <3>1 DEF Still
    <3>3. Same /\ Same' /\ Serving'
      BY <2>1, <2>3, <3>2 DEF SwapInv, Same, Serving
    <3>4. \A q \in Reloader : reload'[q].pc \in {"idle", "check", "config"}
      BY <2>5, <3>1 DEF Still
    <3> QED BY <3>3, <3>4 DEF SwapInv
  <2> QED BY <2>2, <2>4, <2>5 DEF Still
<1>6. ASSUME NEW r \in Reloader, Swap(r) PROVE SwapInv'
  <2>1. boot' = boot /\ ~Still(r)
    BY <1>6, SwapAt DEF Still, Swap
  <2>2. Serving /\ Serving'
    BY <1>6, <2>1 DEF Swap, SwapInv, Serving
  <2>3. \A q \in Reloader : q # r => Still(q)
    BY <2>1 DEF SwapsApart
  <2>4. live \in [config : Versions, ch : Versions, s3 : Versions] /\ reload \in [Reloader -> ReloadRec]
    BY DEF SwapTypes
  <2>a. \A q \in Reloader : q # r => reload'[q] = reload[q]
    BY <1>6, <2>4, SwapAt
  <2>b. \A q \in Reloader : q # r => reload'[q].pc \in {"idle", "check"}
    BY <2>3, <2>a DEF Still
  <2>5. CASE reload[r].pc = "config"
    <3>1. live.config = live.ch /\ live.ch = live.s3
      BY <2>5 DEF SwapInv, Same
    <3>2. live' = [live EXCEPT !.config = reload[r].v] /\ reload' = [reload EXCEPT ![r] = [pc |-> "ch", v |-> reload[r].v]]
      BY <1>6, <2>5, SwapAt
    <3>3. live'.config = reload[r].v /\ live'.ch = live'.s3
      BY <2>4, <3>1, <3>2
    <3>4. reload'[r].pc = "ch" /\ reload'[r].v = reload[r].v
      BY <2>4, <3>2
    <3> QED BY <2>2, <2>b, <3>3, <3>4 DEF SwapInv, Still
  <2>6. CASE reload[r].pc = "ch"
    <3>1. live.config = reload[r].v
      BY <2>6 DEF SwapInv
    <3>2. live' = [live EXCEPT !.ch = reload[r].v] /\ reload' = [reload EXCEPT ![r] = [pc |-> "s3", v |-> reload[r].v]]
      BY <1>6, <2>6, SwapAt
    <3>3. live'.config = reload[r].v /\ live'.ch = reload[r].v
      BY <2>4, <3>1, <3>2
    <3>4. reload'[r].pc = "s3" /\ reload'[r].v = reload[r].v
      BY <2>4, <3>2
    <3> QED BY <2>2, <2>b, <3>3, <3>4 DEF SwapInv, Still
  <2>7. CASE reload[r].pc = "s3"
    <3>1. live.config = reload[r].v /\ live.ch = reload[r].v
      BY <2>7 DEF SwapInv
    <3>2. live' = [live EXCEPT !.s3 = reload[r].v] /\ reload' = [reload EXCEPT ![r] = [pc |-> "idle", v |-> 0]]
      BY <1>6, <2>7, SwapAt
    <3>3. live'.config = live'.ch /\ live'.ch = live'.s3
      BY <2>4, <3>1, <3>2
    <3>4. reload'[r].pc = "idle"
      BY <2>4, <3>2
    <3> QED BY <2>2, <2>b, <3>3, <3>4 DEF SwapInv, Same
  <2> QED BY <1>6, <2>5, <2>6, <2>7, SwapAt
<1> QED BY <1>1, <1>2, <1>3, <1>4, <1>5, <1>6, <1>s, ConfFrame DEF ConfStep

-----------------------------------------------------------------------------
(* The command the batch task waits for is the only one of it under way. *)
BatchAlone == \A i \in Running : i > MaxOps => batch.pc = "wait" /\ i = batch.cur

LEMMA AloneStep ==
    ASSUME OpsInv, BatchInv, StoreInv, live.s3 \in Nat, BatchAlone, Next
    PROVE  BatchAlone'
<1> DEFINE Runs(o) == o.pc \notin {"free", "end"}
<1>0. \A i : i \in Running <=> i \in Ids /\ Runs(op[i])
  BY DEF Running
<1>p. \A i : i \in Running' <=> i \in Ids /\ Runs(op'[i])
  BY DEF Running
<1>t. batch \in BatchRec /\ MaxOps \in Nat /\ Ids \subseteq Nat
  BY ServerAssumption DEF ServerAssumption, BatchInv, Ids
<1>1. CASE TaskShape
  <2>1. PICK i \in Ids, r \in OpRec : Set(i, r) /\ i \in Running
    BY <1>1 DEF TaskShape, Continues
  <2>2. \A j \in Ids : j # i => op'[j] = op[j]
    BY <2>1, SetAt
  <2> QED BY <1>0, <1>p, <1>1, <2>1, <2>2 DEF TaskShape, BatchAlone
<1>2. CASE RequestShape
  <2>1. PICK i \in Ids, r \in OpRec : Set(i, r) /\ i <= MaxOps
    BY <1>2 DEF RequestShape
  <2>2. \A j \in Ids : j # i => op'[j] = op[j]
    BY <2>1, SetAt
  <2>3. \A j \in Ids : j > MaxOps => j # i
    BY <1>t, <2>1
  <2> QED BY <1>0, <1>p, <1>2, <2>2, <2>3 DEF RequestShape, BatchAlone
<1>3. CASE CommandShape
  <2>1. PICK i \in Ids : i = MaxOps + batch.next
    BY <1>3, BatchTyped DEF CommandShape
  <2>2. PICK r \in OpRec : Set(i, r)
    BY <1>3, <2>1 DEF CommandShape
  <2>3. \A j \in Ids : j # i => op'[j] = op[j]
    BY <2>2, SetAt
  <2>4. batch.pc = "next" /\ batch' = [batch EXCEPT !.cur = i, !.pc = "wait"]
    BY <1>3, <2>1 DEF CommandShape
  <2>5. batch'.cur = i /\ batch'.pc = "wait"
    BY <1>t, <2>4 DEF BatchRec
  <2> QED BY <1>0, <1>p, <2>3, <2>4, <2>5 DEF BatchAlone
<1>4. CASE BatchShape
  <2>1. \A j \in Running : ~(j > MaxOps)
    BY <1>4, <1>0 DEF BatchShape, BatchAlone
  <2> QED BY <1>0, <1>p, <1>4, <2>1 DEF BatchShape, BatchAlone
<1>5. CASE OtherShape
  BY <1>0, <1>p, <1>5 DEF OtherShape, BatchAlone
<1>6. ASSUME NEW graceful \in BOOLEAN, Stop(graceful) PROVE BatchAlone'
  BY <1>6, <1>p, StopEnds DEF BatchAlone
<1> QED BY <1>1, <1>2, <1>3, <1>4, <1>5, <1>6, StepShape

-----------------------------------------------------------------------------
ServerInv ==
    /\ OpsInv /\ BatchInv /\ StoreInv /\ SwapTypes /\ PermitInv /\ LocksDisjoint /\ CacheInv /\ BatchAlone

LEMMA InitHolds == Init => ServerInv /\ SwapInv
<1> SUFFICES ASSUME Init PROVE ServerInv /\ SwapInv
  OBVIOUS
<1>t. MaxOps \in Nat /\ MaxVersion \in Nat \ {0} /\ MaxCrashes \in Nat /\ MaxFaults \in Nat /\ Len(Batch) \in Nat
  BY ServerAssumption DEF ServerAssumption
<1>0. \A i \in Ids : op[i] = NoOp /\ op[i].pc = "free" /\ op[i].status = "none"
  BY NoOpType DEF Init
<1>1. OpsInv
  BY <1>0, NoOpType DEF Init, OpsInv
<1>2. Running = {} /\ WithPermit = {} /\ Locked = {}
  BY <1>0 DEF Running, WithPermit, Locked
<1>3. PermitInv /\ LocksDisjoint /\ BatchAlone
  BY <1>2 DEF PermitInv, LocksDisjoint, BatchAlone
<1>4. BatchInv
  <2>1. 1 \in Nat /\ 0 \in Nat /\ <<>> \in Seq(Statuses \cup {"busy"}) /\ Len(<<>>) = 0
    OBVIOUS
  <2>2. NoBatch \in BatchRec /\ [NoBatch EXCEPT !.pc = "none"] \in BatchRec
        /\ NoBatch.next = 1 /\ NoBatch.log = <<>> /\ NoBatch.pc = "idle"
        /\ [NoBatch EXCEPT !.pc = "none"].next = 1 /\ [NoBatch EXCEPT !.pc = "none"].log = <<>>
        /\ [NoBatch EXCEPT !.pc = "none"].pc = "none"
    BY <2>1 DEF NoBatch, BatchRec
  <2>3. batch \in BatchRec /\ batch.next = 1 /\ batch.log = <<>> /\ batch.pc \in {"idle", "none"}
    BY <2>2 DEF Init
  <2>4. 1 >= 1 /\ 1 <= Len(Batch) + 1 /\ 0 = 1 - 1
    BY <1>t
  <2> QED BY <1>0, <2>1, <2>3, <2>4 DEF BatchInv
<1>5. StoreInv
  <2>1. 0 \in 0..MaxFaults /\ 0 \in 0..MaxCrashes /\ MaxCrashes \in 0..MaxCrashes
    BY <1>t
  <2>2. Booted
    BY DEF Init, Booted
  <2>3. Stored
    BY DEF Init, Stored
  <2>4. Counted
    BY <2>1 DEF Init, Counted
  <2> QED BY <2>2, <2>3, <2>4, StoreParts
<1>6. SwapTypes
  <2>1. disk \in Versions
    BY <1>t DEF Init, Versions
  <2>2. live \in [config : Versions, ch : Versions, s3 : Versions]
    BY <2>1 DEF Init
  <2>3. [pc |-> "idle", v |-> 0] \in ReloadRec
    BY DEF ReloadRec
  <2>4. reload = [r \in Reloader |-> [pc |-> "idle", v |-> 0]]
    BY DEF Init
  <2> QED BY <2>1, <2>2, <2>3, <2>4 DEF SwapTypes
<1>7. SwapInv
  BY DEF Init, SwapInv, Same, Still
<1>8. CacheInv
  BY DEF Init, CacheInv, EmptyCache, NoList
<1> QED BY <1>1, <1>3, <1>4, <1>5, <1>6, <1>7, <1>8 DEF ServerInv

LEMMA NextHolds ==
    ASSUME ServerInv, [Next]_vars
    PROVE  ServerInv'
<1>1. CASE Next
  <2>1. live.s3 \in Nat
    BY ServerAssumption DEF ServerAssumption, Versions, SwapTypes, ServerInv
  <2> QED BY <1>1, <2>1, OpsStep, BatchStep, StoreStep, SwapTypesStep, PermitStep, LocksStep, CacheStep, AloneStep
         DEF ServerInv
<1>2. CASE UNCHANGED vars
  <2>1. OpsInv' /\ BatchInv' /\ StoreInv' /\ SwapTypes'
    BY <1>2 DEF vars, ServerInv, OpsInv, BatchInv, StoreInv, SwapTypes
  <2>2. WithPermit' = WithPermit /\ Locked' = Locked /\ Running' = Running
    BY <1>2 DEF vars, WithPermit, Locked, Running
  <2>3. PermitInv' /\ LocksDisjoint' /\ CacheInv' /\ BatchAlone'
    BY <1>2, <2>2 DEF vars, ServerInv, PermitInv, LocksDisjoint, CacheInv, BatchAlone
  <2> QED BY <2>1, <2>3 DEF ServerInv
<1> QED BY <1>1, <1>2

LEMMA InvAlways == Spec => []ServerInv
<1>1. Init => ServerInv
  BY InitHolds
<1>2. ServerInv /\ [Next]_vars => ServerInv'
  BY NextHolds
<1> QED BY <1>1, <1>2, PTL DEF Spec

LEMMA InvTypes == ServerInv => TypeOK
<1> SUFFICES ASSUME ServerInv PROVE TypeOK
  OBVIOUS
<1>1. \A i \in Ids : op[i].pc \in Labels /\ (op[i].pc = "finish" => op[i].todo = <<>>)
  BY DEF ServerInv, OpsInv, OpRec
<1>2. Parallel \/ Cardinality(WithPermit) <= 1
  <2>1. SUFFICES ASSUME ~Parallel PROVE Cardinality(WithPermit) <= 1
    OBVIOUS
  <2>2. CASE WithPermit = {}
    <3>1. Cardinality(WithPermit) = 0
      BY <2>2, FS_EmptySet
    <3> QED BY <3>1
  <2>3. CASE WithPermit # {}
    <3>1. PICK i \in WithPermit : TRUE
      BY <2>3
    <3>2. WithPermit = {i}
      BY <2>1, <3>1 DEF ServerInv, PermitInv
    <3>3. Cardinality({i}) = 1
      BY FS_Singleton
    <3> QED BY <3>2, <3>3
  <2> QED BY <2>2, <2>3
<1>3. local \subseteq Name /\ files \subseteq (Resumable \X Name) /\ \A v \in Versions : remote[v] \subseteq Name
  BY DEF ServerInv, StoreInv
<1>4. live.config \in Versions /\ live.ch \in Versions /\ live.s3 \in Versions /\ disk \in Versions
  BY DEF ServerInv, SwapTypes
<1>5. Len(batch.log) <= Len(Batch)
  <2>1. Len(Batch) \in Nat
    BY ServerAssumption DEF ServerAssumption
  <2>2. batch.next \in Nat /\ batch.next <= Len(Batch) + 1 /\ Len(batch.log) = batch.next - 1
    BY DEF ServerInv, BatchInv, BatchRec
  <2> QED BY <2>1, <2>2
<1>6. faults <= MaxFaults /\ crashes <= MaxCrashes
  BY ServerAssumption DEF ServerAssumption, ServerInv, StoreInv
<1> QED BY <1>1, <1>2, <1>3, <1>4, <1>5, <1>6 DEF TypeOK, Labels

-----------------------------------------------------------------------------
(* Type correctness; in serial mode one operation has the permit.          *)
THEOREM TypeCorrect == Spec => []TypeOK
BY InvAlways, InvTypes, PTL

(* run_operation, post_actions, ManifestCache::invalidate: an operation    *)
(* that must drop the cached list has dropped it before the action log     *)
(* says completed, and a list cached since then is older only if it was    *)
(* read before the drop and stored after it.                               *)
THEOREM CompletedAreVisible == Spec => []CompletedVisible
<1>1. ServerInv => CompletedVisible
  BY DEF ServerInv, CacheInv, Must, CompletedVisible, Completed
<1> QED BY <1>1, InvAlways, PTL

(* reload, restart: whatever fails and however often the server stops, the *)
(* configuration and both clients are of one version outside the three     *)
(* stores, provided no two reloads are in theirs at once.                  *)
THEOREM ReloadSwapsAll == Spec /\ []SwapsApart => []SwapComplete
<1>1. Init => SwapInv
  BY InitHolds
<1>2. ServerInv /\ SwapInv /\ SwapsApart /\ SwapsApart' /\ [Next]_vars => SwapInv'
  <2> SUFFICES ASSUME ServerInv, SwapInv, SwapsApart, SwapsApart', [Next]_vars PROVE SwapInv'
    OBVIOUS
  <2>1. CASE Next
    BY <2>1, SwapStep DEF ServerInv
  <2>2. CASE UNCHANGED vars
    BY <2>2 DEF vars, SwapInv, Serving, Still, Same
  <2> QED BY <2>1, <2>2
<1>3. SwapInv => SwapComplete
  BY DEF SwapInv, SwapComplete, Still, Same
<1> QED BY <1>1, <1>2, <1>3, InvAlways, PTL DEF Spec

(* lock_for_command: two operations of the server past their PID locks     *)
(* never have a backup in common, in parallel mode too.                    *)
THEOREM LocksExclude == Spec => []LocksDisjoint
<1>1. ServerInv => LocksDisjoint
  BY DEF ServerInv
<1> QED BY <1>1, InvAlways, PTL

(* post_actions, go_post_actions: the commands of a batch run one after    *)
(* the other, in parallel mode too.                                        *)
THEOREM BatchInOrder == Spec => []BatchAlone
<1>1. ServerInv => BatchAlone
  BY DEF ServerInv
<1> QED BY <1>1, InvAlways, PTL
=============================================================================
