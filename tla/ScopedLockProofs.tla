-------------------------- MODULE ScopedLockProofs --------------------------
(***************************************************************************)
(* TLAPS proofs about ScopedLock, for any tasks, processes, names and caps *)
(* and any number of exits, crashes and I/O errors.                        *)
(***************************************************************************)
EXTENDS ScopedLock, TLAPS

(* A task inside acquire_scoped or under a lock belongs to a live process  *)
(* and has a scope; it is at the scope level only under the gate.          *)
TaskInv ==
    \A t \in Task :
        /\ pc[t] # "idle" => scope[t] \in Scopes /\ up[ProcOf[t]]
        /\ pc[t] \in {"idle", "held", "check"} => lvl[t] = "gate"
        /\ lvl[t] = "scope" => todo[t] = {}

(* The file at p is the one task t wrote, in its process's lifetime. *)
Mine(t, p) == file[p] = [task |-> t, inc |-> inc[ProcOf[t]]]

GateFile  == \A t \in Task : HasGate(t) => Mine(t, Gate)
ScopeFile == \A t \in Task : HasScope(t) => Mine(t, lock_path_for_scope(scope[t]))

(* Between the start of the cross-tier check and the publication nobody    *)
(* holds a lock of the other tier that the check has already passed.       *)
Scanning(t) ==
    \/ pc[t] = "check"
    \/ pc[t] \in {"publish", "read", "judge", "remove"} /\ lvl[t] = "scope"

Cleared ==
    \A t, u \in Task :
        Scanning(t) /\ HasScope(u) =>
            lock_path_for_scope(scope[u]) \notin CrossTier(scope[t]) \ todo[t]

(* What a takeover of a live lock file would break. *)
Owned == GateFile /\ ScopeFile /\ Cleared /\ ScopeExclusion

TypeInv      == TypeOK /\ TaskInv
ExclusionInv == TypeInv /\ (~breach => Owned)

(* No lock file carries a start token its PID has not had yet. *)
PastTokens == \A p \in Paths : file[p] \in LockInfo => file[p].inc <= inc[ProcOf[file[p].task]]
LeakInv    == TypeInv /\ PastTokens /\ NoLeakedLock

-----------------------------------------------------------------------------
(* Types *)

(* The contents a task publishes, the caps and the other tier's paths have *)
(* the types their uses need.                                              *)
LEMMA OperatorTypes ==
    /\ NoTries \in Tries
    /\ \A a, c, g \in Nat : Count(a, c, g) \in Tries
    /\ \A s \in Scopes : lock_path_for_scope(s) \in Stems /\ CrossTier(s) \subseteq Stems
    /\ Requests \subseteq Scopes
    /\ Gate \in Paths /\ Stems \subseteq Paths /\ Gate \notin Stems
<1>1. NoTries \in Tries /\ \A a, c, g \in Nat : Count(a, c, g) \in Tries
  BY DEF NoTries, Count, Tries
<1>2. \A s \in Scopes : lock_path_for_scope(s) \in Stems /\ CrossTier(s) \subseteq Stems
  BY DEF Scopes, Backup, Global, lock_path_for_scope, CrossTier, Stems
<1>3. Requests \subseteq Scopes
  BY DEF Requests, lock_for_command, Scopes
<1>4. Gate \in Paths /\ Stems \subseteq Paths /\ Gate \notin Stems
  BY ConstantsAssumption DEF Paths
<1> QED BY <1>1, <1>2, <1>3, <1>4

(* A task that is not idle works on a path of the lock directory. *)
LEMMA TargetType ==
    ASSUME TypeInv, NEW t \in Task, pc[t] # "idle"
    PROVE  Target(t) \in Paths
  BY OperatorTypes DEF TypeInv, TaskInv, Target

(* The counters of a task are numbers. *)
LEMMA CounterTypes ==
    ASSUME TypeInv, NEW t \in Task
    PROVE  tries[t].attempts \in Nat /\ tries[t].corruptReads \in Nat /\ tries[t].gate \in Nat
<1>1. tries[t] \in Tries
  BY DEF TypeInv, TypeOK
<1> QED BY <1>1 DEF Tries

(* What PidLock::acquire's two ways to go on do to the types. *)
LEMMA AcquireErrType ==
    ASSUME TypeInv, NEW t \in Task, AcquireErr(t)
    PROVE  /\ tries' \in [Task -> Tries]
           /\ scope' \in [Task -> Scopes \cup {NoScope}]
           /\ pc' \in [Task -> Labels]
<1> USE DEF TypeInv, TypeOK
<1>1. tries' \in [Task -> Tries]
  <2>1. Count(0, 0, tries[t].gate + 1) \in Tries
    BY CounterTypes, OperatorTypes
  <2> QED BY <2>1, OperatorTypes DEF AcquireErr
<1>2. scope' \in [Task -> Scopes \cup {NoScope}]
  BY DEF AcquireErr
<1>3. pc' \in [Task -> Labels]
  BY DEF AcquireErr, Goto, Labels
<1> QED BY <1>1, <1>2, <1>3

(* Another round of PidLock::acquire, or its end, keeps the types. *)
LEMMA NextAttemptType ==
    ASSUME TypeInv, NEW t \in Task, NEW n \in Nat, NextAttempt(t, n)
    PROVE  /\ tries' \in [Task -> Tries]
           /\ scope' \in [Task -> Scopes \cup {NoScope}]
           /\ pc' \in [Task -> Labels]
<1>1. CASE AcquireErr(t)
  BY <1>1, AcquireErrType
<1>2. CASE ~AcquireErr(t)
  <2>1. /\ tries' = [tries EXCEPT ![t] = Count(tries[t].attempts + 1, n, tries[t].gate)]
        /\ Goto(t, "publish")
        /\ UNCHANGED scope
    BY <1>2 DEF NextAttempt
  <2>2. tries' \in [Task -> Tries]
    <3>1. Count(tries[t].attempts + 1, n, tries[t].gate) \in Tries
      BY CounterTypes, OperatorTypes
    <3> QED BY <2>1, <3>1 DEF TypeInv, TypeOK
  <2> QED BY <2>1, <2>2 DEF TypeInv, TypeOK, Goto, Labels
<1> QED BY <1>1, <1>2

(* After either way to go on, a task is idle only if it gave up at the     *)
(* gate, and it keeps its scope otherwise.                                 *)
LEMMA NextAttemptControl ==
    ASSUME TypeInv, NEW t \in Task, NEW n \in Nat,
           AcquireErr(t) \/ NextAttempt(t, n)
    PROVE  /\ \A u \in Task \ {t} : pc'[u] = pc[u] /\ scope'[u] = scope[u]
           /\ \/ pc'[t] = "publish" /\ scope'[t] = scope[t]
              \/ pc'[t] = "idle" /\ lvl[t] = "gate" /\ scope'[t] = NoScope
              \/ pc'[t] = "dropGateErr" /\ lvl[t] = "scope" /\ scope'[t] = scope[t]
  BY DEF TypeInv, TypeOK, AcquireErr, NextAttempt, Goto

(* One step of any task or process keeps the types and TaskInv. *)
LEMMA TypeInvStep == TypeInv /\ [Next]_vars => TypeInv'
<1> SUFFICES ASSUME TypeInv, [Next]_vars PROVE TypeInv'
  OBVIOUS
<1> USE DEF TypeInv, Labels
<1>1. ASSUME NEW t \in Task, NEW s \in Requests, Begin(t, s) PROVE TypeInv'
  <2>1. s \in Scopes /\ Count(0, 0, 1) \in Tries
    BY OperatorTypes
  <2>2. TypeOK'
    BY <1>1, <2>1 DEF Begin, Goto, TypeOK, procs
  <2>3. TaskInv'
    BY <1>1, <2>1 DEF Begin, Goto, TypeOK, TaskInv, procs
  <2> QED BY <2>2, <2>3
<1>2. ASSUME NEW t \in Task, Publish(t) PROVE TypeInv'
  <2>1. [task |-> t, inc |-> inc[ProcOf[t]]] \in Contents
    BY ConstantsAssumption DEF TypeOK, Contents, LockInfo
  <2>2. scope[t] \in Scopes /\ CrossTier(scope[t]) \subseteq Stems
    BY <1>2, OperatorTypes DEF Publish, TaskInv
  <2>3. TypeOK'
    BY <1>2, <2>1, <2>2, OperatorTypes DEF Publish, Goto, TypeOK, procs
  <2>4. TaskInv'
    BY <1>2 DEF Publish, Goto, TypeOK, TaskInv, procs
  <2> QED BY <2>3, <2>4
<1>3. ASSUME NEW t \in Task, PublishFails(t) PROVE TypeInv'
  <2>1. CASE AcquireErr(t)
    <3>1. TypeOK'
      BY <1>3, <2>1, AcquireErrType DEF PublishFails, TypeOK, procs
    <3>2. TaskInv'
      BY <1>3, <2>1, NextAttemptControl DEF PublishFails, TypeOK, TaskInv, procs
    <3> QED BY <3>1, <3>2
  <2>2. CASE Goto(t, "read") /\ UNCHANGED <<tries, scope>>
    BY <1>3, <2>2 DEF PublishFails, Goto, TypeOK, TaskInv, procs
  <2> QED BY <1>3, <2>1, <2>2 DEF PublishFails
<1>4. ASSUME NEW t \in Task, ReadFile(t) PROVE TypeInv'
  <2>1. file[Target(t)] \in Contents /\ Corrupt \in Contents
    BY <1>4, TargetType DEF ReadFile, TypeOK, Contents
  <2>2. TypeOK'
    BY <1>4, <2>1 DEF ReadFile, Goto, TypeOK, procs
  <2>3. TaskInv'
    BY <1>4 DEF ReadFile, Goto, TypeOK, TaskInv, procs
  <2> QED BY <2>2, <2>3
<1>5. ASSUME NEW t \in Task, Judge(t) PROVE TypeInv'
  <2>1. /\ tries' \in [Task -> Tries]
        /\ scope' \in [Task -> Scopes \cup {NoScope}]
        /\ pc' \in [Task -> Labels]
    <3>1. tries[t].corruptReads \in Nat /\ tries[t].corruptReads + 1 \in Nat
      BY CounterTypes
    <3>2. CASE Goto(t, "remove") /\ UNCHANGED <<tries, scope>>
      BY <3>2 DEF Goto, TypeOK
    <3>3. CASE AcquireErr(t)
      BY <3>3, AcquireErrType
    <3>4. CASE \E n \in Nat : NextAttempt(t, n)
      BY <3>4, NextAttemptType
    <3> QED BY <1>5, <3>1, <3>2, <3>3, <3>4 DEF Judge, Verdict
  <2>2. TypeOK'
    BY <1>5, <2>1 DEF Judge, TypeOK, Contents, procs
  <2>3. TaskInv'
    <3>1. tries[t].corruptReads \in Nat /\ tries[t].corruptReads + 1 \in Nat
      BY CounterTypes
    <3>2. \/ Goto(t, "remove") /\ UNCHANGED scope
          \/ AcquireErr(t)
          \/ \E n \in Nat : NextAttempt(t, n)
      BY <1>5, <3>1 DEF Judge, Verdict
    <3>3. CASE Goto(t, "remove") /\ UNCHANGED scope
      BY <1>5, <3>3 DEF Judge, Goto, TypeOK, TaskInv, procs
    <3>4. CASE AcquireErr(t) \/ \E n \in Nat : NextAttempt(t, n)
      BY <1>5, <3>4, NextAttemptControl DEF Judge, TypeOK, TaskInv, procs
    <3> QED BY <3>2, <3>3, <3>4
  <2> QED BY <2>2, <2>3
<1>6. ASSUME NEW t \in Task, RemoveStale(t) PROVE TypeInv'
  <2>1. tries[t].corruptReads \in Nat
    BY CounterTypes
  <2>2. TypeOK'
    <3>1. breach' \in BOOLEAN
      BY <1>6 DEF RemoveStale, TypeOK
    <3>2. file' \in [Paths -> Contents]
      BY <1>6 DEF RemoveStale, TypeOK, Contents
    <3> QED BY <1>6, <2>1, <3>1, <3>2, NextAttemptType DEF RemoveStale, TypeOK, procs
  <2>3. TaskInv'
    BY <1>6, <2>1, NextAttemptControl DEF RemoveStale, TypeOK, TaskInv, procs
  <2> QED BY <2>2, <2>3
<1>7. ASSUME NEW t \in Task, CheckOne(t) PROVE TypeInv'
  <2>1. breach' \in BOOLEAN
    BY <1>7, Zenon DEF CheckOne, TypeOK
  <2>2. ioFaults' \in Nat
    BY <1>7 DEF CheckOne, TypeOK
  <2> QED BY <1>7, <2>1, <2>2 DEF CheckOne, Goto, TypeOK, TaskInv, procs
<1>8. ASSUME NEW t \in Task, CheckFails(t) PROVE TypeInv'
  BY <1>8 DEF CheckFails, Goto, TypeOK, TaskInv, procs
<1>9. ASSUME NEW t \in Task, CheckDone(t) PROVE TypeInv'
  BY <1>9 DEF CheckDone, Goto, TypeOK, TaskInv, procs
<1>10. ASSUME NEW t \in Task, DropGate(t) PROVE TypeInv'
  <2>1. TypeOK'
    BY <1>10 DEF DropGate, Goto, TypeOK, Contents, procs
  <2>2. TaskInv'
    BY <1>10 DEF DropGate, Goto, TypeOK, TaskInv, procs
  <2> QED BY <2>1, <2>2
<1>11. ASSUME NEW t \in Task, Release(t) PROVE TypeInv'
  BY <1>11 DEF Release, Goto, TypeOK, TaskInv, Contents, procs
<1>12. ASSUME NEW p \in Proc, Exit(p) PROVE TypeInv'
  BY <1>12, ConstantsAssumption DEF Exit, TypeOK, TaskInv
<1>13. ASSUME NEW p \in Proc, Crash(p) PROVE TypeInv'
  <2>1. TypeOK'
    BY <1>13, OperatorTypes DEF Crash, TypeOK, Contents
  <2>2. TaskInv'
    BY <1>13, ConstantsAssumption DEF Crash, TypeOK, TaskInv
  <2> QED BY <2>1, <2>2
<1>14. ASSUME NEW p \in Proc, Start(p) PROVE TypeInv'
  BY <1>14, ConstantsAssumption DEF Start, TypeOK, TaskInv
<1>15. CASE UNCHANGED vars
  BY <1>15 DEF vars, TypeOK, TaskInv, Target
<1> QED
  BY <1>1, <1>2, <1>3, <1>4, <1>5, <1>6, <1>7, <1>8, <1>9, <1>10, <1>11,
     <1>12, <1>13, <1>14, <1>15 DEF Next, Step

(* The initial lock directory, with or without corrupt files, is well typed. *)
LEMMA TypeInvInit == Init => TypeInv
<1> SUFFICES ASSUME Init PROVE TypeInv
  OBVIOUS
<1>1. file \in [Paths -> Contents]
  BY DEF Init, Contents
<1>2. /\ tries \in [Task -> Tries]
      /\ breach \in BOOLEAN
      /\ up \in [Proc -> BOOLEAN]
  BY OperatorTypes DEF Init
<1>3. TypeOK
  BY <1>1, <1>2 DEF Init, TypeOK, Contents, Labels
<1>4. TaskInv
  BY DEF Init, TaskInv
<1> QED BY <1>3, <1>4 DEF TypeInv

(* Every state of every behaviour of the lock protocol is well typed, the  *)
(* contents of the lock directory included.                                *)
THEOREM TypeCorrect == Spec => []TypeOK
<1>1. Init => TypeInv
  BY TypeInvInit
<1>2. TypeInv /\ [Next]_vars => TypeInv'
  BY TypeInvStep
<1>3. TypeInv => TypeOK
  BY DEF TypeInv
<1> QED BY <1>1, <1>2, <1>3, PTL DEF Spec

-----------------------------------------------------------------------------
(* Exclusion *)

(* A file names one task, so its owner is unique. *)
LEMMA UniqueOwner ==
    ASSUME Owned, NEW t \in Task, NEW u \in Task
    PROVE  /\ HasGate(t) /\ HasGate(u) => t = u
           /\ HasScope(t) /\ HasScope(u)
              /\ lock_path_for_scope(scope[t]) = lock_path_for_scope(scope[u]) => t = u
<1>1. \A v \in Task : \A p : Mine(v, p) => file[p].task = v
  BY DEF Mine
<1>2. HasGate(t) /\ HasGate(u) => file[Gate].task = t /\ file[Gate].task = u
  BY <1>1, OperatorTypes DEF Owned, GateFile
<1>3. \A v \in Task : HasScope(v) => file[lock_path_for_scope(scope[v])].task = v
  BY <1>1 DEF Owned, ScopeFile
<1> QED BY <1>2, <1>3

(* A task in flight that owns a file is a live holder of it, whichever     *)
(* liveness test is asked.                                                 *)
LEMMA MineIsLive ==
    ASSUME TypeInv, NEW t \in Task, pc[t] # "idle", NEW p \in Paths, Mine(t, p)
    PROVE  file[p] \in LockInfo /\ SameProcess(file[p]) /\ live_lock_holder(file[p])
<1>1. file[p] = [task |-> t, inc |-> inc[ProcOf[t]]] /\ up[ProcOf[t]]
  BY DEF Mine, TypeInv, TaskInv
<1>2. file[p] \in LockInfo
  BY <1>1, ConstantsAssumption DEF TypeInv, TypeOK, LockInfo
<1> QED BY <1>1, <1>2 DEF SameProcess, live_lock_holder, holder_is_live

(* A step after which nobody has a gate, a scope or a scan that it did not *)
(* have before, and which leaves the files of those who still do alone.    *)
LEMMA KeepStep ==
    ASSUME TypeInv, Owned,
           \A t \in Task : HasGate(t)' =>
               HasGate(t) /\ Mine(t, Gate)' = Mine(t, Gate),
           \A t \in Task : HasScope(t)' =>
               /\ HasScope(t) /\ scope'[t] = scope[t]
               /\ Mine(t, lock_path_for_scope(scope[t]))' = Mine(t, lock_path_for_scope(scope[t])),
           \A t \in Task : Scanning(t)' =>
               Scanning(t) /\ scope'[t] = scope[t] /\ todo'[t] = todo[t]
    PROVE  Owned'
<1>1. GateFile'
  BY DEF Owned, GateFile
<1>2. ScopeFile'
  BY DEF Owned, ScopeFile, lock_path_for_scope, Mine
<1>3. Cleared'
  BY DEF Owned, Cleared, lock_path_for_scope
<1>4. ScopeExclusion'
  BY DEF Owned, ScopeExclusion
<1> QED BY <1>1, <1>2, <1>3, <1>4 DEF Owned

(* As long as there is no breach, a step of any task or process leaves     *)
(* every gate and scope with the file of its holder.                       *)
LEMMA OwnedStep ==
    ASSUME TypeInv, TypeInv', Owned, ~breach', [Next]_vars
    PROVE  Owned'
<1> USE DEF TypeInv, TypeOK
<1>1. ASSUME NEW t \in Task, NEW s \in Requests, Begin(t, s) PROVE Owned'
  BY <1>1, KeepStep
  DEF Begin, Goto, TaskInv, procs, HasGate, HasScope, Scanning, Mine, lock_path_for_scope
<1>2. ASSUME NEW t \in Task, Publish(t) PROVE Owned'
  <2>1. CASE file[Target(t)] # NoFile
    BY <1>2, <2>1, KeepStep
    DEF Publish, Goto, procs, HasGate, HasScope, Scanning, Mine, lock_path_for_scope
  <2>2. CASE file[Target(t)] = NoFile /\ lvl[t] = "gate"
    <3>1. /\ file' = [file EXCEPT ![Gate] = [task |-> t, inc |-> inc[ProcOf[t]]]]
          /\ pc' = [pc EXCEPT ![t] = "check"]
          /\ todo' = [todo EXCEPT ![t] = CrossTier(scope[t])]
          /\ UNCHANGED <<inc, lvl, scope>>
          /\ pc[t] = "publish" /\ file[Gate] = NoFile
      BY <1>2, <2>2 DEF Publish, Goto, procs, Target
    <3>2. \A u \in Task : HasScope(u)' => u # t /\ HasScope(u) /\ Mine(u, lock_path_for_scope(scope[u]))
                            /\ scope[u] \in Scopes
      BY <3>1 DEF Owned, ScopeFile, HasScope, TaskInv
    <3>3. \A u \in Task : ~HasGate(u)
      <4>1. \A u \in Task : HasGate(u) => pc[u] # "idle"
        BY DEF HasGate
      <4> QED BY <3>1, <4>1, MineIsLive, OperatorTypes, ConstantsAssumption DEF Owned, GateFile
    <3>4. GateFile'
      BY <3>1, <3>3, OperatorTypes DEF GateFile, HasGate, Mine
    <3>5. ScopeFile'
      BY <3>1, <3>2, OperatorTypes DEF ScopeFile, Mine
    <3>6. Cleared'
      BY <3>1, <3>2, <3>3 DEF Cleared, Scanning, HasGate
    <3>7. ScopeExclusion'
      BY <3>1, <3>2 DEF Owned, ScopeExclusion
    <3> QED BY <3>4, <3>5, <3>6, <3>7 DEF Owned
  <2>3. CASE file[Target(t)] = NoFile /\ lvl[t] = "scope"
    <3> DEFINE path == lock_path_for_scope(scope[t])
    <3>1. /\ file' = [file EXCEPT ![path] = [task |-> t, inc |-> inc[ProcOf[t]]]]
          /\ pc' = [pc EXCEPT ![t] = "dropGateOk"]
          /\ UNCHANGED <<inc, lvl, scope, todo>>
          /\ pc[t] = "publish" /\ file[path] = NoFile
          /\ scope[t] \in Scopes /\ path \in Stems
          /\ todo[t] = {}
      BY <1>2, <2>3, OperatorTypes DEF Publish, Goto, procs, Target, TaskInv
    <3>2. /\ HasGate(t) /\ HasGate(t)' /\ Scanning(t) /\ ~Scanning(t)' /\ HasScope(t)'
          /\ \A u \in Task \ {t} : /\ HasGate(u)' = HasGate(u)
                                    /\ HasScope(u)' = HasScope(u)
                                    /\ Scanning(u)' = Scanning(u)
      BY <2>3, <3>1 DEF HasGate, HasScope, Scanning
    <3>3. \A u \in Task \ {t} : ~HasGate(u) /\ ~Scanning(u)
      BY <3>2, UniqueOwner DEF HasGate, Scanning
    <3>4. \A u \in Task : HasScope(u) =>
              scope[u] \in Scopes /\ lock_path_for_scope(scope[u]) \in Stems
              /\ lock_path_for_scope(scope[u]) # path
      <4>1. \A u \in Task : HasScope(u) => pc[u] # "idle"
        BY DEF HasScope
      <4> QED BY <3>1, <4>1, MineIsLive, OperatorTypes, ConstantsAssumption
              DEF Owned, ScopeFile, TaskInv
    <3>5. GateFile'
      BY <3>1, <3>2, <3>3, OperatorTypes DEF Owned, GateFile, Mine
    <3>6. ScopeFile'
      BY <3>1, <3>2, <3>4, OperatorTypes DEF Owned, ScopeFile, Mine
    <3>7. Cleared'
      BY <3>2, <3>3 DEF Cleared
    <3>8. ASSUME NEW u \in Task \ {t}, HasScope(u)
          PROVE  ~Conflict(scope[t], scope[u]) /\ ~Conflict(scope[u], scope[t])
      <4>1. lock_path_for_scope(scope[u]) \notin CrossTier(scope[t])
        BY <3>1, <3>2, <3>8 DEF Owned, Cleared
      <4> QED BY <3>1, <3>4, <3>8, <4>1
              DEF Conflict, CrossTier, Scopes, Backup, Global, lock_path_for_scope, Stems
    <3>9. ScopeExclusion'
      BY <3>1, <3>2, <3>8 DEF Owned, ScopeExclusion
    <3> QED BY <3>5, <3>6, <3>7, <3>9 DEF Owned
  <2> QED BY <2>1, <2>2, <2>3
<1>3. ASSUME NEW t \in Task, PublishFails(t) PROVE Owned'
  <2>1. CASE AcquireErr(t)
    BY <1>3, <2>1, NextAttemptControl, KeepStep
    DEF PublishFails, procs, HasGate, HasScope, Scanning, Mine, lock_path_for_scope
  <2>2. CASE Goto(t, "read") /\ UNCHANGED <<tries, scope>>
    BY <1>3, <2>2, KeepStep
    DEF PublishFails, Goto, procs, HasGate, HasScope, Scanning, Mine, lock_path_for_scope
  <2> QED BY <1>3, <2>1, <2>2 DEF PublishFails
<1>4. ASSUME NEW t \in Task, ReadFile(t) PROVE Owned'
  BY <1>4, KeepStep
  DEF ReadFile, Goto, TaskInv, procs, HasGate, HasScope, Scanning, Mine, lock_path_for_scope
<1>5. ASSUME NEW t \in Task, Judge(t) PROVE Owned'
  <2>1. tries[t].corruptReads \in Nat /\ tries[t].corruptReads + 1 \in Nat
    BY CounterTypes
  <2>2. \/ Goto(t, "remove") /\ UNCHANGED scope
        \/ AcquireErr(t) \/ \E n \in Nat : NextAttempt(t, n)
    BY <1>5, <2>1 DEF Judge, Verdict
  <2>3. CASE Goto(t, "remove") /\ UNCHANGED scope
    BY <1>5, <2>3, KeepStep
    DEF Judge, Goto, procs, HasGate, HasScope, Scanning, Mine, lock_path_for_scope
  <2>4. CASE AcquireErr(t) \/ \E n \in Nat : NextAttempt(t, n)
    BY <1>5, <2>4, NextAttemptControl, KeepStep
    DEF Judge, procs, HasGate, HasScope, Scanning, Mine, lock_path_for_scope
  <2> QED BY <2>2, <2>3, <2>4
<1>6. ASSUME NEW t \in Task, RemoveStale(t) PROVE Owned'
  <2>1. /\ pc[t] = "remove" /\ UNCHANGED <<inc, lvl, todo>>
        /\ NextAttempt(t, tries[t].corruptReads) /\ tries[t].corruptReads \in Nat
    BY <1>6, CounterTypes DEF RemoveStale, procs
  <2>2. /\ \A u \in Task : HasGate(u)' => HasGate(u)
        /\ \A u \in Task : HasScope(u)' => HasScope(u) /\ scope'[u] = scope[u]
        /\ \A u \in Task : Scanning(u)' => Scanning(u) /\ scope'[u] = scope[u]
    BY <2>1, NextAttemptControl DEF HasGate, HasScope, Scanning
  <2>3. \/ UNCHANGED file
        \/ /\ file' = [file EXCEPT ![Target(t)] = NoFile]
           /\ ~(file[Target(t)] \in LockInfo /\ SameProcess(file[Target(t)]))
    BY <1>6 DEF RemoveStale
  <2>4. \A u \in Task, p \in Paths : pc[u] # "idle" /\ Mine(u, p) => file'[p] = file[p]
    BY <2>3, MineIsLive
  <2>5. \A u \in Task : HasGate(u)' => Mine(u, Gate)' = Mine(u, Gate)
    <3>1. \A u \in Task : HasGate(u) => pc[u] # "idle" /\ Mine(u, Gate) /\ Gate \in Paths
      BY OperatorTypes DEF Owned, GateFile, HasGate
    <3> QED BY <2>1, <2>2, <2>4, <3>1 DEF Mine
  <2>6. \A u \in Task : HasScope(u)' =>
            Mine(u, lock_path_for_scope(scope[u]))' = Mine(u, lock_path_for_scope(scope[u]))
    <3>1. \A u \in Task : HasScope(u) =>
              /\ pc[u] # "idle" /\ Mine(u, lock_path_for_scope(scope[u]))
              /\ lock_path_for_scope(scope[u]) \in Paths
      BY OperatorTypes DEF Owned, ScopeFile, HasScope, TaskInv
    <3>2. \A u \in Task : HasScope(u) =>
              file'[lock_path_for_scope(scope[u])] = file[lock_path_for_scope(scope[u])]
      BY <2>4, <3>1
    <3> QED BY <2>1, <2>2, <3>2 DEF Mine, lock_path_for_scope
  <2> QED BY <2>1, <2>2, <2>5, <2>6, KeepStep
<1>7. ASSUME NEW t \in Task, CheckOne(t) PROVE Owned'
  <2> PICK p \in todo[t] :
        \/ /\ live_lock_holder(file[p])
           /\ Goto(t, "dropGateErr")
           /\ todo' = [todo EXCEPT ![t] = {}]
        \/ /\ ~live_lock_holder(file[p])
           /\ todo' = [todo EXCEPT ![t] = @ \ {p}]
           /\ UNCHANGED pc
    BY <1>7 DEF CheckOne
  <2>1. UNCHANGED <<file, inc, lvl, scope>> /\ pc[t] = "check"
    BY <1>7 DEF CheckOne, procs
  <2>2. CASE Goto(t, "dropGateErr") /\ todo' = [todo EXCEPT ![t] = {}]
    BY <2>1, <2>2, KeepStep
    DEF Goto, HasGate, HasScope, Scanning, Mine, lock_path_for_scope
  <2>3. CASE ~live_lock_holder(file[p]) /\ todo' = [todo EXCEPT ![t] = @ \ {p}] /\ UNCHANGED pc
    <3>1. \A u \in Task : /\ HasGate(u)' = HasGate(u)
                          /\ HasScope(u)' = HasScope(u)
                          /\ Scanning(u)' = Scanning(u)
      BY <2>1, <2>3 DEF HasGate, HasScope, Scanning
    <3>2. \A u \in Task : HasScope(u) => lock_path_for_scope(scope[u]) # p
      <4>1. \A u \in Task : HasScope(u) =>
                pc[u] # "idle" /\ lock_path_for_scope(scope[u]) \in Paths
        BY OperatorTypes DEF HasScope, TaskInv
      <4> QED BY <2>3, <4>1, MineIsLive DEF Owned, ScopeFile
    <3>3. GateFile' /\ ScopeFile' /\ ScopeExclusion'
      BY <2>1, <3>1 DEF Owned, GateFile, ScopeFile, ScopeExclusion, Mine, lock_path_for_scope
    <3>4. Cleared'
      BY <2>1, <2>3, <3>1, <3>2 DEF Owned, Cleared, lock_path_for_scope
    <3> QED BY <3>3, <3>4 DEF Owned
  <2> QED BY <2>2, <2>3
<1>8. ASSUME NEW t \in Task, CheckFails(t) PROVE Owned'
  BY <1>8, KeepStep
  DEF CheckFails, Goto, TaskInv, procs, HasGate, HasScope, Scanning, Mine, lock_path_for_scope
<1>9. ASSUME NEW t \in Task, CheckDone(t) PROVE Owned'
  BY <1>9, KeepStep
  DEF CheckDone, Goto, TaskInv, procs, HasGate, HasScope, Scanning, Mine, lock_path_for_scope
<1>10. ASSUME NEW t \in Task, DropGate(t) PROVE Owned'
  <2>1. /\ HasGate(t) /\ ~HasGate(t)' /\ ~Scanning(t)'
        /\ HasScope(t)' => HasScope(t) /\ scope'[t] = scope[t]
        /\ \A u \in Task \ {t} : /\ HasGate(u)' = HasGate(u)
                                  /\ HasScope(u)' = HasScope(u)
                                  /\ Scanning(u)' = Scanning(u)
                                  /\ scope'[u] = scope[u]
        /\ file' = [file EXCEPT ![Gate] = NoFile] /\ UNCHANGED <<inc, todo>>
    BY <1>10 DEF DropGate, Goto, procs, HasGate, HasScope, Scanning
  <2>2. \A u \in Task : ~HasGate(u)'
    BY <2>1, UniqueOwner
  <2>3. \A u \in Task : HasScope(u)' =>
            /\ HasScope(u) /\ scope'[u] = scope[u]
            /\ lock_path_for_scope(scope[u]) \in Stems
    BY <2>1, OperatorTypes DEF HasScope, TaskInv
  <2>4. \A u \in Task : HasScope(u)' =>
            Mine(u, lock_path_for_scope(scope[u]))' = Mine(u, lock_path_for_scope(scope[u]))
    BY <2>1, <2>3, OperatorTypes DEF Mine, lock_path_for_scope
  <2> QED BY <2>1, <2>2, <2>3, <2>4, KeepStep
<1>11. ASSUME NEW t \in Task, Release(t) PROVE Owned'
  <2>1. /\ HasScope(t) /\ ~HasGate(t)' /\ ~Scanning(t)' /\ ~HasScope(t)'
        /\ \A u \in Task \ {t} : /\ HasGate(u)' = HasGate(u)
                                  /\ HasScope(u)' = HasScope(u)
                                  /\ Scanning(u)' = Scanning(u)
                                  /\ scope'[u] = scope[u]
        /\ file' = [file EXCEPT ![lock_path_for_scope(scope[t])] = NoFile]
        /\ UNCHANGED <<inc, todo>>
        /\ lock_path_for_scope(scope[t]) \in Stems
    BY <1>11, OperatorTypes DEF Release, Goto, procs, HasGate, HasScope, Scanning, TaskInv
  <2>2. \A u \in Task : HasGate(u)' => Mine(u, Gate)' = Mine(u, Gate)
    BY <2>1, OperatorTypes DEF Mine
  <2>3. \A u \in Task : HasScope(u)' =>
            /\ HasScope(u) /\ scope'[u] = scope[u]
            /\ lock_path_for_scope(scope[u]) \in Stems
            /\ lock_path_for_scope(scope[u]) # lock_path_for_scope(scope[t])
    BY <2>1, UniqueOwner, OperatorTypes DEF HasScope, TaskInv
  <2>4. \A u \in Task : HasScope(u)' =>
            Mine(u, lock_path_for_scope(scope[u]))' = Mine(u, lock_path_for_scope(scope[u]))
    BY <2>1, <2>3, OperatorTypes DEF Mine, lock_path_for_scope
  <2> QED BY <2>1, <2>2, <2>3, <2>4, KeepStep
<1>12. ASSUME NEW p \in Proc, Exit(p) PROVE Owned'
  BY <1>12, KeepStep
  DEF Exit, HasGate, HasScope, Scanning, Mine, lock_path_for_scope
<1>13. ASSUME NEW p \in Proc, Crash(p) PROVE Owned'
  BY <1>13, KeepStep
  DEF Crash, HasGate, HasScope, Scanning, Mine, lock_path_for_scope
<1>14. ASSUME NEW p \in Proc, Start(p) PROVE Owned'
  BY <1>14, KeepStep, ConstantsAssumption
  DEF Start, TaskInv, HasGate, HasScope, Scanning, Mine, lock_path_for_scope
<1>15. CASE UNCHANGED vars
  BY <1>15, KeepStep DEF vars, HasGate, HasScope, Scanning, Mine, lock_path_for_scope
<1> QED
  BY <1>1, <1>2, <1>3, <1>4, <1>5, <1>6, <1>7, <1>8, <1>9, <1>10, <1>11,
     <1>12, <1>13, <1>14, <1>15 DEF Next, Step

(* Nobody starts with a gate or a scope. *)
LEMMA ExclusionInvInit == Init => ExclusionInv
<1> SUFFICES ASSUME Init PROVE ExclusionInv
  OBVIOUS
<1>1. \A t \in Task : ~HasGate(t) /\ ~HasScope(t) /\ ~Scanning(t)
  BY DEF Init, HasGate, HasScope, Scanning
<1> QED BY <1>1, TypeInvInit
        DEF ExclusionInv, Owned, GateFile, ScopeFile, Cleared, ScopeExclusion

(* The inductive invariant behind Exclusion and Refinement. *)
LEMMA ExclusionInvStep == ExclusionInv /\ [Next]_vars => ExclusionInv'
<1> SUFFICES ASSUME ExclusionInv, [Next]_vars PROVE ExclusionInv'
  OBVIOUS
<1>1. TypeInv /\ TypeInv'
  BY TypeInvStep DEF ExclusionInv
<1>2. ~breach' => ~breach
  BY DEF Next, Step, vars, Begin, Publish, PublishFails, ReadFile, Judge, RemoveStale,
         CheckOne, CheckFails, CheckDone, DropGate, Release, Exit, Crash, Start
<1> QED BY <1>1, <1>2, OwnedStep DEF ExclusionInv

(* Whatever exits, crashes, restarts under the same PID, corrupt files and *)
(* I/O errors there are: until the file of a live holder is taken over by  *)
(* PidLock::acquire or missed by check_cross_tier_exclusion, no two        *)
(* commands run under conflicting scopes and the gate admits one task.     *)
THEOREM Exclusion == Spec => []ExclusionUnlessBreach
<1>1. Init => ExclusionInv
  BY ExclusionInvInit
<1>2. ExclusionInv /\ [Next]_vars => ExclusionInv'
  BY ExclusionInvStep
<1>3. ExclusionInv => ExclusionUnlessBreach
  BY UniqueOwner DEF ExclusionInv, ExclusionUnlessBreach, GateExclusion, Owned
<1> QED BY <1>1, <1>2, <1>3, PTL DEF Spec

-----------------------------------------------------------------------------
(* Leaks *)

(* A step that removes or keeps every file, gives nobody a later start     *)
(* token or a new life, and takes no gate or scope from a task whose file  *)
(* is still there.                                                         *)
LEMMA LeakKeepStep ==
    ASSUME LeakInv,
           \A p \in Paths : file'[p] \in LockInfo => file'[p] = file[p],
           \A p \in Proc : inc'[p] = inc[p] /\ (up'[p] => up[p]),
           \A p \in Paths : LET t == file[p].task IN
               file'[p] \in LockInfo /\ up'[ProcOf[t]] /\ HasFile(t, p) =>
                   IF p = Gate THEN HasGate(t)' ELSE HasScope(t)' /\ scope'[t] = scope[t]
    PROVE  PastTokens' /\ NoLeakedLock'
<1> USE ConstantsAssumption DEF LockInfo
<1>1. PastTokens'
  BY DEF LeakInv, PastTokens
<1>2. NoLeakedLock'
  BY DEF LeakInv, NoLeakedLock, SameProcess, HasFile, lock_path_for_scope
<1> QED BY <1>1, <1>2

(* The inductive invariant behind NoLeak: no action leaves a file behind. *)
LEMMA LeakInvStep == LeakInv /\ [Next]_vars => LeakInv'
<1> SUFFICES ASSUME LeakInv, [Next]_vars PROVE PastTokens' /\ NoLeakedLock'
  BY TypeInvStep DEF LeakInv
<1>0. TypeInv /\ TypeInv'
  BY TypeInvStep DEF LeakInv
<1> USE <1>0 DEF TypeInv, TypeOK
<1>1. ASSUME NEW t \in Task, NEW s \in Requests, Begin(t, s)
      PROVE  PastTokens' /\ NoLeakedLock'
  BY <1>1, LeakKeepStep DEF Begin, Goto, procs, HasFile, HasGate, HasScope, LockInfo
<1>2. ASSUME NEW t \in Task, Publish(t) PROVE PastTokens' /\ NoLeakedLock'
  <2>1. CASE file[Target(t)] # NoFile
    BY <1>2, <2>1, LeakKeepStep DEF Publish, Goto, procs, HasFile, HasGate, HasScope, LockInfo
  <2>2. CASE file[Target(t)] = NoFile
    <3> DEFINE mine == [task |-> t, inc |-> inc[ProcOf[t]]]
    <3>1. /\ file' = [file EXCEPT ![Target(t)] = mine] /\ Target(t) \in Paths
          /\ UNCHANGED <<up, inc, lvl, scope>>
          /\ pc[t] = "publish" /\ scope[t] \in Scopes
          /\ \/ lvl[t] = "gate" /\ pc' = [pc EXCEPT ![t] = "check"]
             \/ lvl[t] = "scope" /\ pc' = [pc EXCEPT ![t] = "dropGateOk"]
      BY <1>2, <2>2, TargetType DEF Publish, Goto, procs, TaskInv
    <3>2. PastTokens'
      BY <3>1, ConstantsAssumption DEF LeakInv, PastTokens, LockInfo
    <3>3. \A u \in Task : \A p : HasFile(u, p) => HasFile(u, p)'
      BY <3>1 DEF HasFile, HasGate, HasScope, lock_path_for_scope
    <3>4. \A p : p = Target(t) => HasFile(t, p)'
      BY <3>1, OperatorTypes DEF HasFile, Target, HasGate, HasScope, lock_path_for_scope
    <3>5. ASSUME NEW p \in Paths, file'[p] \in LockInfo, SameProcess(file[p])'
          PROVE  HasFile(file[p].task, p)'
      <4>1. CASE p = Target(t)
        <5>1. file'[p].task = t
          BY <3>1, <4>1
        <5> QED BY <3>4, <4>1, <5>1
      <4>2. CASE p # Target(t)
        <5>1. file'[p] = file[p] /\ SameProcess(file[p]) /\ file[p].task \in Task
          BY <3>1, <3>5, <4>2 DEF SameProcess, LockInfo
        <5> QED BY <3>3, <3>5, <5>1 DEF LeakInv, NoLeakedLock
      <4> QED BY <4>1, <4>2
    <3>6. NoLeakedLock'
      BY <3>5 DEF NoLeakedLock
    <3> QED BY <3>2, <3>6
  <2> QED BY <2>1, <2>2
<1>3. ASSUME NEW t \in Task, PublishFails(t) PROVE PastTokens' /\ NoLeakedLock'
  <2>1. CASE AcquireErr(t)
    BY <1>3, <2>1, NextAttemptControl, LeakKeepStep
    DEF PublishFails, procs, HasFile, HasGate, HasScope, LockInfo
  <2>2. CASE Goto(t, "read") /\ UNCHANGED <<tries, scope>>
    BY <1>3, <2>2, LeakKeepStep
    DEF PublishFails, Goto, procs, HasFile, HasGate, HasScope, LockInfo
  <2> QED BY <1>3, <2>1, <2>2 DEF PublishFails
<1>4. ASSUME NEW t \in Task, ReadFile(t) PROVE PastTokens' /\ NoLeakedLock'
  BY <1>4, LeakKeepStep DEF ReadFile, Goto, procs, HasFile, HasGate, HasScope, LockInfo
<1>5. ASSUME NEW t \in Task, Judge(t) PROVE PastTokens' /\ NoLeakedLock'
  <2>1. tries[t].corruptReads \in Nat /\ tries[t].corruptReads + 1 \in Nat
    BY CounterTypes
  <2>2. \/ Goto(t, "remove") /\ UNCHANGED scope
        \/ AcquireErr(t) \/ \E n \in Nat : NextAttempt(t, n)
    BY <1>5, <2>1 DEF Judge, Verdict
  <2>3. CASE Goto(t, "remove") /\ UNCHANGED scope
    BY <1>5, <2>3, LeakKeepStep DEF Judge, Goto, procs, HasFile, HasGate, HasScope, LockInfo
  <2>4. CASE AcquireErr(t) \/ \E n \in Nat : NextAttempt(t, n)
    BY <1>5, <2>4, NextAttemptControl, LeakKeepStep
    DEF Judge, procs, HasFile, HasGate, HasScope, LockInfo
  <2> QED BY <2>2, <2>3, <2>4
<1>6. ASSUME NEW t \in Task, RemoveStale(t) PROVE PastTokens' /\ NoLeakedLock'
  <2>1. tries[t].corruptReads \in Nat
    BY CounterTypes
  <2> QED BY <1>6, <2>1, NextAttemptControl, LeakKeepStep, ConstantsAssumption
          DEF RemoveStale, procs, HasFile, HasGate, HasScope, LockInfo
<1>7. ASSUME NEW t \in Task, CheckOne(t) PROVE PastTokens' /\ NoLeakedLock'
  BY <1>7, LeakKeepStep DEF CheckOne, Goto, procs, HasFile, HasGate, HasScope, LockInfo
<1>8. ASSUME NEW t \in Task, CheckFails(t) PROVE PastTokens' /\ NoLeakedLock'
  BY <1>8, LeakKeepStep DEF CheckFails, Goto, procs, HasFile, HasGate, HasScope, LockInfo
<1>9. ASSUME NEW t \in Task, CheckDone(t) PROVE PastTokens' /\ NoLeakedLock'
  BY <1>9, LeakKeepStep DEF CheckDone, Goto, procs, HasFile, HasGate, HasScope, LockInfo
<1>10. ASSUME NEW t \in Task, DropGate(t) PROVE PastTokens' /\ NoLeakedLock'
  BY <1>10, LeakKeepStep, ConstantsAssumption
  DEF DropGate, Goto, procs, HasFile, HasGate, HasScope, LockInfo
<1>11. ASSUME NEW t \in Task, Release(t) PROVE PastTokens' /\ NoLeakedLock'
  BY <1>11, LeakKeepStep, ConstantsAssumption
  DEF Release, Goto, procs, HasFile, HasGate, HasScope, LockInfo
<1>12. ASSUME NEW p \in Proc, Exit(p) PROVE PastTokens' /\ NoLeakedLock'
  BY <1>12, LeakKeepStep DEF Exit, HasFile, HasGate, HasScope, LockInfo
<1>13. ASSUME NEW p \in Proc, Crash(p) PROVE PastTokens' /\ NoLeakedLock'
  BY <1>13, LeakKeepStep, ConstantsAssumption DEF Crash, HasFile, HasGate, HasScope, LockInfo
<1>14. ASSUME NEW p \in Proc, Start(p) PROVE PastTokens' /\ NoLeakedLock'
  <2>1. /\ ~up[p] /\ up' = [up EXCEPT ![p] = TRUE] /\ inc' = [inc EXCEPT ![p] = @ + 1]
        /\ UNCHANGED <<file, pc, lvl, scope>>
    BY <1>14 DEF Start
  <2>2. PastTokens'
    BY <2>1, ConstantsAssumption DEF LeakInv, PastTokens, LockInfo
  <2>3. \A q \in Paths : file[q] \in LockInfo /\ SameProcess(file[q])' => SameProcess(file[q])
    BY <2>1, ConstantsAssumption DEF LeakInv, PastTokens, SameProcess, LockInfo
  <2>4. NoLeakedLock'
    BY <2>1, <2>3 DEF LeakInv, NoLeakedLock, HasFile, HasGate, HasScope, lock_path_for_scope
  <2> QED BY <2>2, <2>4
<1>15. CASE UNCHANGED vars
  BY <1>15, LeakKeepStep, ConstantsAssumption DEF vars, HasFile, HasGate, HasScope, LockInfo
<1> QED
  BY <1>1, <1>2, <1>3, <1>4, <1>5, <1>6, <1>7, <1>8, <1>9, <1>10, <1>11,
     <1>12, <1>13, <1>14, <1>15 DEF Next, Step

(* A lock file that names a running process is the gate or the scope of a  *)
(* task that still has it, in every reachable state, after a breach too:   *)
(* no error path of acquire_scoped leaves a lock behind.                   *)
THEOREM NoLeak == Spec => []NoLeakedLock
<1>1. Init => LeakInv
  <2> SUFFICES ASSUME Init PROVE LeakInv
    OBVIOUS
  <2>1. \A p \in Paths : file[p] \notin LockInfo
    BY ConstantsAssumption DEF Init
  <2> QED BY <2>1, TypeInvInit DEF LeakInv, PastTokens, NoLeakedLock
<1>2. LeakInv /\ [Next]_vars => LeakInv'
  BY LeakInvStep
<1>3. LeakInv => NoLeakedLock
  BY DEF LeakInv
<1> QED BY <1>1, <1>2, <1>3, PTL DEF Spec

-----------------------------------------------------------------------------
(* Refinement *)

held == [t \in Task |-> IF HasScope(t) THEN scope[t] ELSE NoScope]

(* The steps that change what somebody holds are the publication of a      *)
(* scope's file, a release and a crash.                                    *)
LEMMA HeldUnchanged ==
    ASSUME \A t \in Task : HasScope(t)' = HasScope(t) /\ (HasScope(t) => scope'[t] = scope[t])
    PROVE  held' = held
  BY DEF held

(* Every step is a step of LockTiers, or changes nothing LockTiers sees. *)
LEMMA TiersStep ==
    ASSUME TypeInv, Owned', [Next]_vars
    PROVE  [Tiers!Next]_held
<1> USE DEF TypeInv, TypeOK
<1>1. ASSUME NEW t \in Task, NEW s \in Requests, Begin(t, s) PROVE held' = held
  BY <1>1, HeldUnchanged DEF Begin, Goto, HasScope
<1>2. ASSUME NEW t \in Task, Publish(t) PROVE [Tiers!Next]_held
  <2>1. CASE pc'[t] # "dropGateOk"
    BY <1>2, <2>1, HeldUnchanged DEF Publish, Goto, HasScope
  <2>2. CASE pc'[t] = "dropGateOk"
    <3>1. /\ pc[t] = "publish" /\ scope[t] \in Scopes /\ UNCHANGED scope
          /\ ~HasScope(t) /\ HasScope(t)'
          /\ \A u \in Task \ {t} : HasScope(u)' = HasScope(u)
      BY <1>2, <2>2 DEF Publish, Goto, HasScope, TaskInv
    <3>2. \A u \in Task : HasScope(u) => ~Conflict(scope[t], scope[u])
      BY <3>1 DEF Owned, ScopeExclusion
    <3>3. held' = [held EXCEPT ![t] = scope[t]] /\ held[t] = NoScope
      BY <3>1 DEF held
    <3>4. \A u \in Task : held[u] # NoScope => ~Tiers!Conflict(scope[t], held[u])
      BY <3>2 DEF held, Conflict, Tiers!Conflict, Global, Tiers!Global
    <3>5. scope[t] \in Tiers!Scopes
      BY <3>1 DEF Scopes, Tiers!Scopes, Backup, Tiers!Backup, Global, Tiers!Global
    <3>6. Tiers!Next
      BY <3>3, <3>4, <3>5 DEF Tiers!Next, Tiers!Acquire, held
    <3> QED BY <3>6
  <2> QED BY <2>1, <2>2
<1>3. ASSUME NEW t \in Task, PublishFails(t) PROVE held' = held
  <2>1. CASE AcquireErr(t)
    BY <1>3, <2>1, NextAttemptControl, HeldUnchanged DEF PublishFails, HasScope
  <2>2. CASE Goto(t, "read") /\ UNCHANGED <<tries, scope>>
    BY <1>3, <2>2, HeldUnchanged DEF PublishFails, Goto, HasScope
  <2> QED BY <1>3, <2>1, <2>2 DEF PublishFails
<1>4. ASSUME NEW t \in Task, ReadFile(t) PROVE held' = held
  BY <1>4, HeldUnchanged DEF ReadFile, Goto, HasScope
<1>5. ASSUME NEW t \in Task, Judge(t) PROVE held' = held
  <2>1. tries[t].corruptReads \in Nat /\ tries[t].corruptReads + 1 \in Nat
    BY CounterTypes
  <2>2. \/ Goto(t, "remove") /\ UNCHANGED scope
        \/ AcquireErr(t) \/ \E n \in Nat : NextAttempt(t, n)
    BY <1>5, <2>1 DEF Judge, Verdict
  <2> QED BY <1>5, <2>2, NextAttemptControl, HeldUnchanged DEF Judge, Goto, HasScope
<1>6. ASSUME NEW t \in Task, RemoveStale(t) PROVE held' = held
  <2>1. tries[t].corruptReads \in Nat
    BY CounterTypes
  <2> QED BY <1>6, <2>1, NextAttemptControl, HeldUnchanged DEF RemoveStale, HasScope
<1>7. ASSUME NEW t \in Task, CheckOne(t) PROVE held' = held
  BY <1>7, HeldUnchanged DEF CheckOne, Goto, HasScope
<1>8. ASSUME NEW t \in Task, CheckFails(t) \/ CheckDone(t) \/ DropGate(t) PROVE held' = held
  BY <1>8, HeldUnchanged DEF CheckFails, CheckDone, DropGate, Goto, HasScope
<1>9. ASSUME NEW t \in Task, Release(t) PROVE [Tiers!Next]_held
  <2>1. held' = [u \in Task |-> IF u \in {t} THEN NoScope ELSE held[u]]
    BY <1>9 DEF Release, Goto, held, HasScope
  <2> QED BY <2>1 DEF Tiers!Next, Tiers!Release, held
<1>10. ASSUME NEW p \in Proc, Exit(p) \/ Start(p) PROVE held' = held
  BY <1>10, HeldUnchanged DEF Exit, Start, HasScope
<1>11. ASSUME NEW p \in Proc, Crash(p) PROVE [Tiers!Next]_held
  <2> DEFINE T == {t \in Task : ProcOf[t] = p}
  <2>1. held' = [u \in Task |-> IF u \in T THEN NoScope ELSE held[u]]
    BY <1>11 DEF Crash, held, HasScope
  <2>2. T \in SUBSET Task
    OBVIOUS
  <2> QED BY <2>1, <2>2 DEF Tiers!Next, Tiers!Release, held
<1>12. CASE UNCHANGED vars
  BY <1>12, HeldUnchanged DEF vars, HasScope
<1> QED
  BY <1>1, <1>2, <1>3, <1>4, <1>5, <1>6, <1>7, <1>8, <1>9, <1>10, <1>11, <1>12
  DEF Next, Step

(* As long as there is no breach, lock files, gate, retries, crashes and   *)
(* restarts implement LockTiers: scopes that are granted in one atomic     *)
(* step, never beside a conflicting one.                                   *)
THEOREM Refinement == Spec /\ []~breach => ImplementsTiers
<1>1. Init => ExclusionInv
  BY ExclusionInvInit
<1>2. ExclusionInv /\ [Next]_vars => ExclusionInv'
  BY ExclusionInvStep
<1>3. Init => Tiers!Init
  BY DEF Init, Tiers!Init, HasScope
<1>4. ExclusionInv /\ ExclusionInv' /\ ~breach' /\ [Next]_vars => [Tiers!Next]_held
  BY TiersStep DEF ExclusionInv
<1> QED BY <1>1, <1>2, <1>3, <1>4, PTL DEF Spec, ImplementsTiers, Tiers!Spec, held
=============================================================================
