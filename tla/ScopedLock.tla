----------------------------- MODULE ScopedLock -----------------------------
(***************************************************************************)
(* The PID lock files of chbackup (src/lock.rs): every mutating command    *)
(* runs under a lock file in one shared directory, either the lock of one  *)
(* backup or the global lock, and both are taken under a short-lived gate  *)
(* lock so that the cross-tier scan and the publication form a pair.       *)
(*                                                                         *)
(* A task is one command in flight; a process (ProcOf[t]) runs one task    *)
(* (the command line) or several (the server).  Every file-system call is  *)
(* a step of its own; a process may exit between commands, be killed       *)
(* anywhere, and come back under the same PID.                             *)
(***************************************************************************)
EXTENDS Naturals, FiniteSets

CONSTANTS
    Task,            \* commands in flight
    Proc,            \* PIDs
    ProcOf,          \* the PID each task runs under
    Name,            \* backup names
    GlobalStem,      \* the stem of the global lock file ("global")
    Gate,            \* the gate's file (chbackup.acquire.lock)
    NoName,          \* a command given no backup name
    NoFile,          \* contents of a path that does not exist
    Corrupt,         \* contents that do not parse as LockInfo
    NoScope,         \* what a task that holds no lock holds
    HasToken,        \* the platform has /proc, so lock files carry a start token
    ACQUIRE_MAX_ATTEMPTS,
    CORRUPT_LOCK_MAX_READS,
    GATE_MAX_ATTEMPTS,
    LeftOver,        \* paths that hold a corrupt file when the model starts
    MaxExits,        \* bound: normal process exits
    MaxCrashes,      \* bound: processes killed
    MaxIoFaults      \* bound: file-system calls that fail

Stems    == Name \cup {GlobalStem}
Paths    == Stems \cup {Gate}
LockInfo == [task : Task, inc : Nat]
Contents == LockInfo \cup {NoFile, Corrupt}

(* LockScope, without the scope of the commands that take no lock. *)
Backup(n) == [tier |-> "backup", stem |-> n]
Global    == [tier |-> "global", stem |-> GlobalStem]
Scopes    == {Backup(n) : n \in Name} \cup {Global}

ASSUME ConstantsAssumption ==
    /\ ProcOf \in [Task -> Proc]
    /\ Gate \notin Stems
    /\ NoFile # Corrupt
    /\ NoFile \notin LockInfo
    /\ Corrupt \notin LockInfo
    /\ NoName \notin Name
    /\ NoScope \notin Scopes
    /\ HasToken \in BOOLEAN
    /\ LeftOver \subseteq Paths
    /\ ACQUIRE_MAX_ATTEMPTS \in Nat \ {0}
    /\ CORRUPT_LOCK_MAX_READS \in Nat
    /\ GATE_MAX_ATTEMPTS \in Nat \ {0}
    /\ MaxExits \in Nat /\ MaxCrashes \in Nat /\ MaxIoFaults \in Nat

VARIABLES
    file,          \* lock directory: path -> contents
    up,            \* which PIDs are running
    inc,           \* start token of each PID's current (or last) process
    pc,            \* where a task is in acquire_scoped
    lvl,           \* which PidLock::acquire it is in: the gate's or the scope's
    scope,         \* the LockScope it wants or holds
    seen,          \* the contents its last read_to_string returned
    tries,         \* its loop counters, see Tries
    todo,          \* lock files the cross-tier check has still to read
    breach,        \* history: a live holder's lock file was deleted or overlooked
    exits, crashes, ioFaults

procs == <<up, inc, exits, crashes>>
vars  == <<file, up, inc, pc, lvl, scope, seen, tries, todo, breach,
           exits, crashes, ioFaults>>

(* attempts: publish attempts used up in this PidLock::acquire;            *)
(* corruptReads: its unparseable reads; gate: PidLock::acquire calls made  *)
(* for the gate, the current one included.                                 *)
Tries          == [attempts : Nat, corruptReads : Nat, gate : Nat]
Count(a, c, g) == [attempts |-> a, corruptReads |-> c, gate |-> g]
NoTries        == Count(0, 0, 0)

-----------------------------------------------------------------------------
(* Lock scopes *)

BackupCommands == {"create", "upload", "download", "restore", "create_remote",
                   "restore_remote", "release-deferred"}
GlobalCommands == {"clean", "clean_broken", "clean_broken_remote",
                   "clean_broken_local", "delete"}

(* The scope a locking command runs under.  The other commands (list,      *)
(* tables, watch, server...) take no lock and never reach acquire_scoped.  *)
lock_for_command(command, name) ==
    IF command \in BackupCommands /\ name \in Name THEN Backup(name) ELSE Global

lock_path_for_scope(s) == s.stem

Target(t) == IF lvl[t] = "gate" THEN Gate ELSE lock_path_for_scope(scope[t])

(* Mutant: the scan does not filter the gate's file out. *)
CrossTierUnfiltered(s) == IF s = Global THEN Paths \ {GlobalStem} ELSE {GlobalStem}

(* The paths check_cross_tier_exclusion reads for a scope. *)
CrossTier(s) == IF s = Global THEN Name \ {GlobalStem} ELSE {GlobalStem}

(* The process that wrote c is running and is still the same process. *)
SameProcess(c) ==
    LET p == ProcOf[c.task] IN up[p] /\ inc[p] = c.inc

(* The PID exists; when the file carries a token, it is the current one. *)
holder_is_live(c) ==
    LET p == ProcOf[c.task] IN up[p] /\ (HasToken => inc[p] = c.inc)

(* What the cross-tier check makes of a file: missing and malformed files  *)
(* do not block.                                                           *)
live_lock_holder(c) == c \in LockInfo /\ holder_is_live(c)

-----------------------------------------------------------------------------
Init ==
    /\ file = [p \in Paths |-> IF p \in LeftOver THEN Corrupt ELSE NoFile]
    /\ up = [p \in Proc |-> TRUE]
    /\ inc = [p \in Proc |-> 0]
    /\ pc = [t \in Task |-> "idle"]
    /\ lvl = [t \in Task |-> "gate"]
    /\ scope = [t \in Task |-> NoScope]
    /\ seen = [t \in Task |-> NoFile]
    /\ tries = [t \in Task |-> NoTries]
    /\ todo = [t \in Task |-> {}]
    /\ breach = FALSE
    /\ exits = 0 /\ crashes = 0 /\ ioFaults = 0

Goto(t, l) == pc' = [pc EXCEPT ![t] = l]

(* acquire_scoped is called for a command of scope s. *)
Begin(t, s) ==
    /\ pc[t] = "idle" /\ up[ProcOf[t]]
    /\ scope' = [scope EXCEPT ![t] = s]
    /\ tries' = [tries EXCEPT ![t] = Count(0, 0, 1)]
    /\ Goto(t, "publish")
    /\ UNCHANGED <<file, procs, lvl, seen, todo, breach, ioFaults>>

(* Mutant: the gate loop has no cap. *)
AcquireErrUncapped(t) ==
    \/ /\ lvl[t] = "gate"
       /\ tries' = [tries EXCEPT ![t] = Count(0, 0, tries[t].gate)]
       /\ Goto(t, "publish")
       /\ UNCHANGED scope
    \/ /\ lvl[t] = "scope"
       /\ tries' = [tries EXCEPT ![t] = NoTries]
       /\ Goto(t, "dropGateErr")
       /\ UNCHANGED scope

(* PidLock::acquire returns an error: the gate loop calls it again up to   *)
(* GATE_MAX_ATTEMPTS times; the scope's error drops the gate on return.    *)
AcquireErr(t) ==
    \/ /\ lvl[t] = "gate" /\ tries[t].gate < GATE_MAX_ATTEMPTS
       /\ tries' = [tries EXCEPT ![t] = Count(0, 0, tries[t].gate + 1)]
       /\ Goto(t, "publish")
       /\ UNCHANGED scope
    \/ /\ lvl[t] = "gate" /\ tries[t].gate >= GATE_MAX_ATTEMPTS
       /\ tries' = [tries EXCEPT ![t] = NoTries]
       /\ Goto(t, "idle")
       /\ scope' = [scope EXCEPT ![t] = NoScope]
    \/ /\ lvl[t] = "scope"
       /\ tries' = [tries EXCEPT ![t] = NoTries]
       /\ Goto(t, "dropGateErr")
       /\ UNCHANGED scope

(* Mutant: the count of unparseable reads starts anew every attempt. *)
NextAttemptForgetful(t, reads) ==
    \/ /\ tries[t].attempts + 1 < ACQUIRE_MAX_ATTEMPTS
       /\ tries' = [tries EXCEPT ![t] = Count(tries[t].attempts + 1, 0, tries[t].gate)]
       /\ Goto(t, "publish")
       /\ UNCHANGED scope
    \/ tries[t].attempts + 1 >= ACQUIRE_MAX_ATTEMPTS /\ AcquireErr(t)

(* The for loop of PidLock::acquire goes round, or is exhausted. *)
NextAttempt(t, reads) ==
    \/ /\ tries[t].attempts + 1 < ACQUIRE_MAX_ATTEMPTS
       /\ tries' = [tries EXCEPT ![t] = Count(tries[t].attempts + 1, reads, tries[t].gate)]
       /\ Goto(t, "publish")
       /\ UNCHANGED scope
    \/ tries[t].attempts + 1 >= ACQUIRE_MAX_ATTEMPTS /\ AcquireErr(t)

(* publish_lock_file: link(2) puts the finished file in place, or fails    *)
(* with EEXIST.  The gate's acquisition goes on to the cross-tier check,   *)
(* the scope's ends acquire_scoped.                                        *)
Publish(t) ==
    /\ pc[t] = "publish"
    /\ IF file[Target(t)] = NoFile
       THEN /\ file' = [file EXCEPT ![Target(t)] =
                            [task |-> t, inc |-> inc[ProcOf[t]]]]
            /\ tries' = [tries EXCEPT ![t] = NoTries]
            /\ \/ /\ lvl[t] = "gate"
                  /\ Goto(t, "check")
                  /\ todo' = [todo EXCEPT ![t] = CrossTier(scope[t])]
               \/ lvl[t] = "scope" /\ Goto(t, "dropGateOk") /\ UNCHANGED todo
       ELSE Goto(t, "read") /\ UNCHANGED <<file, tries, todo>>
    /\ UNCHANGED <<procs, lvl, scope, seen, breach, ioFaults>>

(* Any other I/O error while publishing ends this PidLock::acquire; a      *)
(* temporary file left by an earlier process of the PID looks like EEXIST. *)
PublishFails(t) ==
    /\ pc[t] = "publish" /\ ioFaults < MaxIoFaults
    /\ ioFaults' = ioFaults + 1
    /\ AcquireErr(t) \/ (Goto(t, "read") /\ UNCHANGED <<tries, scope>>)
    /\ UNCHANGED <<file, procs, lvl, seen, todo, breach>>

(* inspect_lock_file reads the file: a read error counts as Unreadable. *)
ReadFile(t) ==
    /\ pc[t] = "read"
    /\ \/ seen' = [seen EXCEPT ![t] = file[Target(t)]] /\ UNCHANGED ioFaults
       \/ /\ ioFaults < MaxIoFaults
          /\ ioFaults' = ioFaults + 1
          /\ seen' = [seen EXCEPT ![t] = Corrupt]
    /\ Goto(t, "judge")
    /\ UNCHANGED <<file, procs, lvl, scope, tries, todo, breach>>

(* inspect_lock_file then asks whether the process it has read about is    *)
(* running, and PidLock::acquire acts on the verdict.                      *)
Verdict(t) ==
    \/ live_lock_holder(seen[t]) /\ AcquireErr(t)
    \/ /\ seen[t] \in LockInfo /\ ~holder_is_live(seen[t])
       /\ Goto(t, "remove") /\ UNCHANGED <<tries, scope>>
    \/ seen[t] = NoFile /\ NextAttempt(t, tries[t].corruptReads)
    \/ /\ seen[t] = Corrupt /\ tries[t].corruptReads < CORRUPT_LOCK_MAX_READS
       /\ NextAttempt(t, tries[t].corruptReads + 1)
    \/ /\ seen[t] = Corrupt /\ tries[t].corruptReads >= CORRUPT_LOCK_MAX_READS
       /\ Goto(t, "remove") /\ UNCHANGED <<tries, scope>>

Judge(t) ==
    /\ pc[t] = "judge"
    /\ Verdict(t)
    /\ seen' = [seen EXCEPT ![t] = NoFile]
    /\ UNCHANGED <<file, procs, lvl, todo, breach, ioFaults>>

(* Takeover: remove_file(path) deletes whatever is at the path by now, or  *)
(* fails, which is not looked at.                                          *)
RemoveStale(t) ==
    /\ pc[t] = "remove"
    /\ \/ /\ file' = [file EXCEPT ![Target(t)] = NoFile]
          /\ breach' = (breach \/ (file[Target(t)] \in LockInfo /\ SameProcess(file[Target(t)])))
          /\ UNCHANGED ioFaults
       \/ /\ ioFaults < MaxIoFaults
          /\ ioFaults' = ioFaults + 1
          /\ UNCHANGED <<file, breach>>
    /\ NextAttempt(t, tries[t].corruptReads)
    /\ UNCHANGED <<procs, lvl, seen, todo>>

(* check_cross_tier_exclusion reads one lock file of the other tier; one   *)
(* that cannot be read does not block...                                   *)
CheckOne(t) ==
    /\ pc[t] = "check"
    /\ \E p \in todo[t] :
          \/ /\ live_lock_holder(file[p])
             /\ Goto(t, "dropGateErr")
             /\ todo' = [todo EXCEPT ![t] = {}]
             /\ UNCHANGED <<breach, ioFaults>>
          \/ /\ ~live_lock_holder(file[p])
             /\ todo' = [todo EXCEPT ![t] = @ \ {p}]
             /\ UNCHANGED <<pc, breach, ioFaults>>
          \/ /\ ioFaults < MaxIoFaults
             /\ ioFaults' = ioFaults + 1
             /\ breach' = (breach \/ live_lock_holder(file[p]))
             /\ todo' = [todo EXCEPT ![t] = @ \ {p}]
             /\ UNCHANGED pc
    /\ UNCHANGED <<file, procs, lvl, scope, seen, tries>>

(* ...or cannot list the lock directory (Global only)... *)
CheckFails(t) ==
    /\ pc[t] = "check" /\ scope[t] = Global
    /\ todo[t] = CrossTier(Global) /\ ioFaults < MaxIoFaults
    /\ ioFaults' = ioFaults + 1
    /\ todo' = [todo EXCEPT ![t] = {}]
    /\ Goto(t, "dropGateErr")
    /\ UNCHANGED <<file, procs, lvl, scope, seen, tries, breach>>

(* Mutant: the gate's guard is dropped as soon as the check is done. *)
CheckDoneDropsGate(t) ==
    /\ pc[t] = "check" /\ todo[t] = {}
    /\ file' = [file EXCEPT ![Gate] = NoFile]
    /\ lvl' = [lvl EXCEPT ![t] = "scope"]
    /\ Goto(t, "publish")
    /\ UNCHANGED <<procs, scope, seen, tries, todo, breach, ioFaults>>

(* Mutant: the check stops before it has read every file. *)
CheckDoneEarly(t) ==
    /\ pc[t] = "check"
    /\ lvl' = [lvl EXCEPT ![t] = "scope"]
    /\ Goto(t, "publish")
    /\ UNCHANGED <<file, procs, scope, seen, tries, todo, breach, ioFaults>>

(* ...and, finding no live holder, goes on to acquire the scope's file. *)
CheckDone(t) ==
    /\ pc[t] = "check" /\ todo[t] = {}
    /\ lvl' = [lvl EXCEPT ![t] = "scope"]
    /\ Goto(t, "publish")
    /\ UNCHANGED <<file, procs, scope, seen, tries, todo, breach, ioFaults>>

(* Mutant: the error return forgets the gate. *)
DropGateOkOnly(t) ==
    /\ \/ /\ pc[t] = "dropGateOk" /\ Goto(t, "held") /\ UNCHANGED scope
          /\ file' = [file EXCEPT ![Gate] = NoFile]
       \/ /\ pc[t] = "dropGateErr" /\ Goto(t, "idle") /\ UNCHANGED file
          /\ scope' = [scope EXCEPT ![t] = NoScope]
    /\ lvl' = [lvl EXCEPT ![t] = "gate"]
    /\ UNCHANGED <<procs, seen, tries, todo, breach, ioFaults>>

(* acquire_scoped returns: dropping _gate removes the gate's file, whoever *)
(* it names.                                                               *)
DropGate(t) ==
    /\ \/ pc[t] = "dropGateOk" /\ Goto(t, "held") /\ UNCHANGED scope
       \/ /\ pc[t] = "dropGateErr" /\ Goto(t, "idle")
          /\ scope' = [scope EXCEPT ![t] = NoScope]
    /\ file' = [file EXCEPT ![Gate] = NoFile]
    /\ lvl' = [lvl EXCEPT ![t] = "gate"]
    /\ UNCHANGED <<procs, seen, tries, todo, breach, ioFaults>>

(* The command ends: Drop removes the scope's file, whoever it names. *)
Release(t) ==
    /\ pc[t] = "held"
    /\ file' = [file EXCEPT ![lock_path_for_scope(scope[t])] = NoFile]
    /\ scope' = [scope EXCEPT ![t] = NoScope]
    /\ Goto(t, "idle")
    /\ UNCHANGED <<procs, lvl, seen, tries, todo, breach, ioFaults>>

(* External: a process without a command in flight ends normally. *)
Exit(p) ==
    /\ up[p] /\ exits < MaxExits
    /\ \A t \in Task : ProcOf[t] = p => pc[t] = "idle"
    /\ up' = [up EXCEPT ![p] = FALSE]
    /\ exits' = exits + 1
    /\ UNCHANGED <<file, inc, pc, lvl, scope, seen, tries, todo, breach,
                   crashes, ioFaults>>

(* External: a process is killed; its lock files stay, its tasks are gone. *)
Crash(p) ==
    LET Reset(f, v) == [t \in Task |-> IF ProcOf[t] = p THEN v ELSE f[t]] IN
    /\ up[p] /\ crashes < MaxCrashes
    /\ up' = [up EXCEPT ![p] = FALSE]
    /\ pc' = Reset(pc, "idle")
    /\ lvl' = Reset(lvl, "gate")
    /\ scope' = Reset(scope, NoScope)
    /\ seen' = Reset(seen, NoFile)
    /\ tries' = Reset(tries, NoTries)
    /\ todo' = Reset(todo, {})
    /\ crashes' = crashes + 1
    /\ UNCHANGED <<file, inc, breach, exits, ioFaults>>

(* External: a new process gets the PID, with a start token of its own. *)
Start(p) ==
    /\ ~up[p]
    /\ up' = [up EXCEPT ![p] = TRUE]
    /\ inc' = [inc EXCEPT ![p] = @ + 1]
    /\ UNCHANGED <<file, pc, lvl, scope, seen, tries, todo, breach,
                   exits, crashes, ioFaults>>

Step(t) ==
    \/ Publish(t) \/ PublishFails(t) \/ ReadFile(t) \/ Judge(t) \/ RemoveStale(t)
    \/ CheckOne(t) \/ CheckFails(t) \/ CheckDone(t)
    \/ DropGate(t)

(* The scopes the commands ask for. *)
Requests == {lock_for_command(c, n) :
                c \in BackupCommands \cup GlobalCommands, n \in Name \cup {NoName}}

Next ==
    \/ \E t \in Task :
          \/ \E s \in Requests : Begin(t, s)
          \/ Step(t)
          \/ Release(t)
    \/ \E p \in Proc : Exit(p) \/ Crash(p) \/ Start(p)

Spec == Init /\ [][Next]_vars

(* A thread inside acquire_scoped keeps running unless its process dies.   *)
(* Nothing makes a command start, end, or a process live or die.           *)
FairSpec == Spec /\ \A t \in Task : WF_vars(Step(t))

-----------------------------------------------------------------------------
(* Properties *)

Labels == {"idle", "publish", "read", "judge", "remove", "check",
           "dropGateOk", "dropGateErr", "held"}

(* Type correctness of the lock directory, the processes and the tasks. *)
TypeOK ==
    /\ file \in [Paths -> Contents]
    /\ up \in [Proc -> BOOLEAN]
    /\ inc \in [Proc -> Nat]
    /\ pc \in [Task -> Labels]
    /\ lvl \in [Task -> {"gate", "scope"}]
    /\ scope \in [Task -> Scopes \cup {NoScope}]
    /\ seen \in [Task -> Contents]
    /\ tries \in [Task -> Tries]
    /\ todo \in [Task -> SUBSET Stems]
    /\ breach \in BOOLEAN
    /\ exits \in Nat /\ crashes \in Nat /\ ioFaults \in Nat

(* The task has the guard of the gate / of its scope lock. *)
HasGate(t)  == \/ pc[t] \in {"check", "dropGateOk", "dropGateErr"}
               \/ pc[t] \in {"publish", "read", "judge", "remove"} /\ lvl[t] = "scope"
HasScope(t) == pc[t] \in {"dropGateOk", "held"}

(* Two scopes that may never be held together: the global one excludes     *)
(* every scope, and a backup's excludes itself.                            *)
Conflict(a, b) == a = Global \/ b = Global \/ a = b

(* "The two locking tiers are mutually exclusive" (LockScope): no two      *)
(* commands run under conflicting scopes.                                  *)
ScopeExclusion ==
    \A t, u \in Task :
        t # u /\ HasScope(t) /\ HasScope(u) => ~Conflict(scope[t], scope[u])

(* The gate "makes the pair atomic": one task at a time is between the     *)
(* cross-tier check and the publication of its lock (acquire_scoped).      *)
GateExclusion ==
    \A t, u \in Task : HasGate(t) /\ HasGate(u) => t = u

(* Exits, crashes, corrupt files and I/O errors break exclusion in two     *)
(* ways only: PidLock::acquire takes over a lock file whose holder is      *)
(* alive, or check_cross_tier_exclusion cannot read one.  As long as       *)
(* neither has happened, the tiers and the gate exclude.                   *)
ExclusionUnlessBreach == ~breach => ScopeExclusion /\ GateExclusion

(* Path p is the file of the gate or of the scope that the task has. *)
HasFile(t, p) ==
    \/ p = Gate /\ HasGate(t)
    \/ p # Gate /\ HasScope(t) /\ p = lock_path_for_scope(scope[t])

(* No return path of acquire_scoped and no Drop leaks a lock: a lock file  *)
(* that names a running process belongs to a task that still has it, even  *)
(* after takeovers have deleted other tasks' files.                        *)
NoLeakedLock ==
    \A p \in Paths :
        file[p] \in LockInfo /\ SameProcess(file[p]) => HasFile(file[p].task, p)

(* acquire_scoped always returns, whatever the other processes do: the     *)
(* caps on its two retry loops keep "a pathological case" from hanging.    *)
AcquireReturns ==
    \A t \in Task : pc[t] # "idle" ~> pc[t] \in {"idle", "held"}

(* "Stale locks never block": a command that finds every other task idle   *)
(* gets its lock however many stale or corrupt files lie about, unless an  *)
(* I/O call fails; the attempts suffice for the corrupt reads and the      *)
(* takeover.                                                               *)
SoloAcquires ==
    \A t \in Task :
        [](/\ pc[t] = "publish" /\ lvl[t] = "gate" /\ tries[t].attempts = 0
           /\ tries[t].gate = 1
           /\ [](\A u \in Task \ {t} : pc[u] = "idle")
           => <>(pc[t] = "held" \/ ~up[ProcOf[t]] \/ ioFaults > 0))

(* The scope lock each task holds, and the promise of src/lock.rs: lock    *)
(* files, gate and retries implement scopes granted in one atomic step,    *)
(* never beside a conflicting one.                                         *)
Tiers == INSTANCE LockTiers
    WITH holds <- [t \in Task |-> IF HasScope(t) THEN scope[t] ELSE NoScope]

ImplementsTiers == Tiers!Spec
=============================================================================
