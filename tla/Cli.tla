-------------------------------- MODULE Cli --------------------------------
(***************************************************************************)
(* The command line: processes that each run one command of chbackup, from *)
(* loading the configuration to the exit code.  A command resolves the     *)
(* shortcuts "latest" and "previous" first, then takes the lock of the     *)
(* backup it resolved to, then works.  The lock is the one ScopedLock      *)
(* implements (taken or refused at once); the work of a step is its        *)
(* beginning, which other processes can see, and its end.  The commands    *)
(* that do not end by themselves, watch and server, are WatchLoop's and    *)
(* Server's.                                                               *)
(***************************************************************************)
EXTENDS ConfigLoad

CONSTANTS Proc,      \* processes, one command each
          Names,     \* names backups can have
          Configs,   \* a sequence: what a process may find to configure itself from
          Commands,  \* the commands that may be started
          Stores     \* what is stored at the start: [local, remote, held]

NoProc == "nobody"
NoName == "none"
Bad == "../bad"             \* stands for every name validate_backup_name rejects
Shortcuts == {"latest", "previous"}
Gone == [is |-> "gone", timestamp |-> 0]
Partial == [is |-> "broken", timestamp |-> 0]
Whole(t) == [is |-> "valid", timestamp |-> t]

VARIABLES proc,     \* each process: where it is, its command, backup and exit code
          lock,     \* who holds the lock of a backup, or the global one
          store,    \* the local and the remote backups; held: local ones with a deferred freeze
          clock,    \* timestamps given out so far
          robbed    \* processes whose backup another's retention removed (a history variable)

cliVars == <<proc, lock, store, clock, robbed>>

(* The configurations a process ends up with, and what retention keeps. *)
Loads == {c \in DOMAIN Configs : load_inner(Configs[c])}
Keeps == [c \in Loads |-> [local |-> effective_retention_local(Configs[c]),
                           remote |-> effective_retention_remote(Configs[c])]]

-----------------------------------------------------------------------------
(* Commands: [op, loc, raw, del]; raw is the name as typed, NoName if none; *)
(* del is --delete-local or --delete-source.                               *)

Makes(cmd) == cmd.op \in {"create", "create_remote"}
OnBackup(cmd) == cmd.op \in {"create", "upload", "download", "restore", "create_remote",
                             "restore_remote", "release-deferred"}
Everywhere(cmd) == cmd.op \in {"clean", "clean_broken", "delete"}
TakesName(cmd) == OnBackup(cmd) \/ cmd.op = "delete"

Plan(cmd) ==
    CASE cmd.op = "create_remote" -> <<"create", "upload", "retention">>
      [] cmd.op = "upload" -> <<"upload", "retention">>
      [] cmd.op = "restore_remote" -> <<"download", "restore">>
      [] OTHER -> <<cmd.op>>

validate_backup_name(n) == n # Bad
reject_reserved_backup_name(n) == n \notin Shortcuts

(* The name argument is refused before anything else is done with it. *)
Usable(cmd) ==
    TakesName(cmd) =>
        /\ cmd.raw # NoName => validate_backup_name(cmd.raw)
        /\ IF Makes(cmd) THEN reject_reserved_backup_name(cmd.raw) ELSE cmd.raw # NoName

(* Where a shortcut is looked up; release-deferred takes its name literally. *)
Lookup(cmd) ==
    CASE cmd.op \in {"upload", "restore"} -> "local"
      [] cmd.op \in {"download", "restore_remote"} -> "remote"
      [] cmd.op = "delete" -> cmd.loc
      [] OTHER -> "nowhere"

(* The valid backups of a place, oldest first; equal timestamps in any order. *)
ValidIn(place) == {n \in Names : store[place][n].is = "valid"}
ByTime(place) == {s \in SetToSeqs(ValidIn(place)) :
                    \A i, j \in 1..Len(s) :
                        i < j => store[place][s[i]].timestamp <= store[place][s[j]].timestamp}

(* The names the command may come to mean, none when there is no such backup. *)
resolve_backup_shortcut(name, place) ==
    LET back == IF name = "latest" THEN 0 ELSE 1 IN
    {s[Len(s) - back] : s \in {t \in ByTime(place) : Len(t) > back}}
Resolved(cmd) ==
    CASE Makes(cmd) /\ cmd.raw = NoName -> Names   \* generate_backup_name, derive_incremental_name
      [] cmd.raw \in Shortcuts /\ Lookup(cmd) # "nowhere" -> resolve_backup_shortcut(cmd.raw, Lookup(cmd))
      [] OTHER -> {cmd.raw}

lock_for_command(cmd, name) ==
    CASE OnBackup(cmd) -> name
      [] Everywhere(cmd) -> "*"
      [] OTHER -> NoName
Holders(scope) ==
    {p \in Proc : lock[p] # NoName
                    /\ (lock[p] = scope \/ (lock[p] = "*" /\ scope # NoName) \/ (scope = "*"))}

-----------------------------------------------------------------------------
Idle == [pc |-> "idle", cmd |-> [op |-> "none", loc |-> "", raw |-> NoName, del |-> FALSE], config |-> 0,
         name |-> NoName, step |-> 0, code |-> -1, kind |-> "none", touched |-> FALSE]

CliInit ==
    /\ proc = [p \in Proc |-> Idle]
    /\ lock = [p \in Proc |-> NoName]
    /\ store \in Stores
    /\ clock = 2
    /\ robbed = {}

Set(p, rec) == proc' = [proc EXCEPT ![p] = rec @@ @]

(* exit_code: 4 for a lock, 3 for a backup that is not there or a partial  *)
(* restore, 1 for any other error.                                         *)
exit_code(kind) ==
    CASE kind = "ok" -> 0
      [] kind = "LockError" -> 4
      [] kind \in {"BackupNotFound", "PartialRestore"} -> 3
      [] OTHER -> 1
Leave(p, kind) ==
    /\ Set(p, [pc |-> "done", kind |-> kind, code |-> exit_code(kind)])
    /\ lock' = [lock EXCEPT ![p] = NoName]

(* run: the configuration, then the name. *)
Start(p) ==
    /\ proc[p].pc = "idle"
    /\ \E cmd \in Commands, c \in DOMAIN Configs :
         IF c \notin Loads \/ ~Usable(cmd)
         THEN Set(p, [pc |-> "done", cmd |-> cmd, kind |-> "other", code |-> exit_code("other")])
         ELSE Set(p, [pc |-> "resolve", cmd |-> cmd, config |-> c])
    /\ UNCHANGED <<lock, store, clock, robbed>>

Resolve(p) ==
    /\ proc[p].pc = "resolve"
    /\ \/ \E n \in Resolved(proc[p].cmd) : Set(p, [pc |-> "lock", name |-> n]) /\ UNCHANGED lock
       \/ Resolved(proc[p].cmd) = {} /\ Leave(p, "other")
    /\ UNCHANGED <<store, clock, robbed>>

acquire_lock(p) ==
    /\ proc[p].pc = "lock"
    /\ LET scope == lock_for_command(proc[p].cmd, proc[p].name) IN
       IF Holders(scope) # {}
       THEN Leave(p, "LockError")
       ELSE /\ lock' = [lock EXCEPT ![p] = scope]
            /\ Set(p, [pc |-> "begin", step |-> 1])
    /\ UNCHANGED <<store, clock, robbed>>

-----------------------------------------------------------------------------
(* The work. *)

Step(p) == Plan(proc[p].cmd)[proc[p].step]
Here(place, p) == store[place][proc[p].name]
Put(place, n, b) == [store EXCEPT ![place][n] = b]

(* The error a step ends in at once, or "ok". *)
Exists(p) == Step(p) = "create" /\ Here("local", p) # Gone
NoManifest(p) == Step(p) \in {"upload", "restore"} /\ Here("local", p).is # "valid"
NoSuchKey(p) == Step(p) = "download" /\ Here("remote", p).is # "valid"
NotStored(p) == Step(p) = "delete" /\ Here(proc[p].cmd.loc, p) = Gone
Frozen(p) == Step(p) = "delete" /\ proc[p].cmd.loc = "local" /\ proc[p].name \in store.held
Refusal(p) ==
    CASE Exists(p) -> "BackupError"
      [] NoManifest(p) \/ NoSuchKey(p) \/ NotStored(p) -> "BackupNotFound"
      [] Frozen(p) -> "other"
      [] OTHER -> "ok"

(* What others see once the step is under way. *)
Begun(p) ==
    CASE Step(p) \in {"create", "download"} /\ Here("local", p) = Gone -> Put("local", proc[p].name, Partial)
      [] Step(p) = "upload" /\ Here("remote", p) = Gone -> Put("remote", proc[p].name, Partial)
      [] OTHER -> store

Work(p, pc, next) ==
    /\ store' = next
    /\ Set(p, [pc |-> pc, touched |-> proc[p].touched \/ next # store])
    /\ UNCHANGED lock
Begin(p) ==
    /\ proc[p].pc = "begin"
    /\ IF Refusal(p) # "ok" THEN Leave(p, Refusal(p)) /\ UNCHANGED store
                            ELSE Work(p, "end", Begun(p))
    /\ UNCHANGED <<clock, robbed>>

(* apply_retention_after_upload: keep the newest; -1 drops the local copy.  *)
(* delete_local refuses a backup with a deferred freeze, and asks for no   *)
(* lock.                                                                   *)
Keep(p, place) == Keeps[proc[p].config][place]
Surplus(p, place) ==
    IF Keep(p, place) <= 0 THEN {{}}
    ELSE {{s[i] : i \in 1..(Len(s) - Keep(p, place))} : s \in ByTime(place)}
Retained(p) ==
    LET own == IF Keep(p, "local") = -1 THEN {proc[p].name} ELSE {} IN
    {[store EXCEPT !.local = [n \in Names |-> IF n \in (ls \cup own) \ store.held THEN Gone ELSE @[n]],
                   !.remote = [n \in Names |-> IF n \in rs THEN Gone ELSE @[n]]] :
        ls \in Surplus(p, "local"), rs \in Surplus(p, "remote")} \cup {store}

Cleaned(place, ns) == [store EXCEPT ![place] = [n \in Names |-> IF n \in ns THEN Gone ELSE @[n]]]
BrokenIn(place) == {n \in Names : store[place][n].is = "broken"}

(* An upload has published; its deferred freeze may be released or not. *)
Published(p) ==
    {[store EXCEPT !.remote[proc[p].name] = Here("local", p), !.held = h] :
        h \in {store.held, store.held \ {proc[p].name}}}

(* The store after a step that succeeds. *)
Results(p) ==
    LET cmd == proc[p].cmd
        n == proc[p].name
    IN CASE Step(p) = "create" ->
              {[store EXCEPT !.local[n] = Whole(clock + 1), !.held = h] :
                 h \in {store.held, store.held \cup {n}}}
         [] Step(p) = "upload" ->
              IF Here("local", p).is # "valid" THEN {}
              ELSE IF ~cmd.del THEN Published(p)
              ELSE {[s EXCEPT !.local[n] = Gone] : s \in {s \in Published(p) : n \notin s.held}}
         [] Step(p) = "download" ->
              IF Here("remote", p).is # "valid" THEN {} ELSE {Put("local", n, Here("remote", p))}
         [] Step(p) = "delete" -> {Put(cmd.loc, n, Gone)}
         [] Step(p) = "retention" -> Retained(p)
         [] Step(p) = "release-deferred" -> {[store EXCEPT !.held = @ \ {n}]}
         [] Step(p) = "clean_broken" -> {Cleaned(cmd.loc, BrokenIn(cmd.loc))}
         [] OTHER -> {store}
Succeed(p) ==
    /\ proc[p].pc = "end"
    /\ \E next \in Results(p) :
         IF proc[p].step < Len(Plan(proc[p].cmd))
         THEN /\ store' = next
              /\ Set(p, [pc |-> "begin", step |-> proc[p].step + 1,
                         touched |-> proc[p].touched \/ next # store])
              /\ UNCHANGED lock
         ELSE store' = next /\ Leave(p, "ok")
    /\ clock' = IF Step(p) = "create" THEN clock + 1 ELSE clock
    /\ robbed' = robbed \cup {q \in Proc \ {p} :
                     /\ proc[q].pc \in {"begin", "end"} /\ TakesName(proc[q].cmd) /\ proc[q].name \in Names
                     /\ Here("local", q) # Gone /\ store'.local[proc[q].name] = Gone}

(* The store a step that fails may leave: create removes what it made; an  *)
(* upload with --delete-local may have published before the deletion       *)
(* failed or was refused.                                                  *)
Failures(p) ==
    LET cmd == proc[p].cmd
        n == proc[p].name
    IN CASE Step(p) = "create" -> {Put("local", n, Gone), store}
         [] Step(p) = "upload" /\ cmd.del /\ Here("local", p).is = "valid" ->
              {store} \cup Published(p)
              \cup {[s EXCEPT !.local[n] = Partial] : s \in {s \in Published(p) : n \notin s.held}}
         [] Step(p) = "delete" -> {Put(cmd.loc, n, Partial), store}
         [] Step(p) = "clean_broken" -> {Cleaned(cmd.loc, ns) : ns \in SUBSET BrokenIn(cmd.loc)}
         [] OTHER -> {store}
Fail(p) ==
    /\ proc[p].pc = "end" /\ Step(p) # "retention"
    /\ store' \in Failures(p)
    /\ \E kind \in {"other"} \cup (IF Step(p) = "restore" THEN {"PartialRestore"} ELSE {}) : Leave(p, kind)
    /\ UNCHANGED <<clock, robbed>>

CliStep(p) == Start(p) \/ Resolve(p) \/ acquire_lock(p) \/ Begin(p) \/ Succeed(p) \/ Fail(p)
CliNext == \E p \in Proc : CliStep(p)

-----------------------------------------------------------------------------
(* Two commands never work on the same backup at once, whether they were   *)
(* given its name or a shortcut that meant it, and nothing works on a      *)
(* backup while delete, clean or clean_broken runs: the lock is taken on   *)
(* the resolved name (main.rs).                                            *)
Working(p) == proc[p].pc \in {"begin", "end"}
BackupExclusive ==
    \A p, q \in Proc :
        p # q /\ Working(p) /\ Working(q) =>
            /\ OnBackup(proc[p].cmd) /\ OnBackup(proc[q].cmd) => proc[p].name # proc[q].name
            /\ ~(Everywhere(proc[p].cmd) /\ (OnBackup(proc[q].cmd) \/ Everywhere(proc[q].cmd)))

(* The exit code tells the truth: 0 means the backup is now where the      *)
(* command was to put it (or gone, for delete), 4 and "not found" mean the *)
(* command changed nothing, in particular that a multi-step command never  *)
(* reports its own earlier result as missing (exit_code_from_error).  The  *)
(* one exception is named: local retention takes no lock, so the one that  *)
(* follows another command's upload may delete the backup between this     *)
(* command's two steps.                                                    *)
Promise(p) ==
    LET op == proc[p].cmd.op
        n == proc[p].name
    IN  /\ op \in {"upload", "create_remote"} => store'.remote[n].is = "valid"
        /\ op \in {"create", "download", "restore_remote"} => store'.local[n].is = "valid" \/ p \in robbed
        /\ op = "delete" => store'[proc[p].cmd.loc][n] = Gone

(* The same without the exception, as error.rs has it for exit code 3. *)
ExitStrict ==
    [][\A p \in Proc :
         proc[p].pc # "done" /\ proc'[p].pc = "done" /\ proc'[p].kind = "BackupNotFound" =>
            ~proc'[p].touched]_cliVars

(* Every command that is started ends with an exit code: acquire_lock does *)
(* not wait, so two commands cannot wait for each other.                   *)
CommandsEnd == \A p \in Proc : proc[p].pc \notin {"idle", "done"} ~> proc[p].pc = "done"

(* A shortcut means the backup it names when the command acts: "latest"    *)
(* deletes the most recent backup (docs/backup.md).                        *)
ShortcutCurrent ==
    [][\A p \in Proc :
         /\ proc[p].pc = "end" /\ Step(p) = "delete" /\ proc[p].cmd.raw \in Shortcuts
         /\ proc'[p].code = 0
         => proc[p].name \in resolve_backup_shortcut(proc[p].cmd.raw, proc[p].cmd.loc)]_cliVars

=============================================================================
