----------------------------- MODULE WatchLoop ------------------------------
(***************************************************************************)
(* The watch loop (src/watch/mod.rs) and how the server starts, stops and  *)
(* ends it (src/server/mod.rs, watch_start and watch_stop in               *)
(* src/server/routes.rs).                                                  *)
(*                                                                         *)
(* A loop is one call of run_watch_loop: the one of the server's start, or *)
(* that of a watch_start request.  Handlers release every mutex between    *)
(* two awaits, so each of their critical sections is a step.  Time passes  *)
(* while the loops sleep; a cycle takes none.                              *)
(***************************************************************************)
EXTENDS Naturals

CONSTANTS
    Boot,              \* the loop spawned by start_server
    Start,             \* watch_start requests; each may spawn a loop
    Stop,              \* watch_stop requests
    NoLoop, NoBackup,
    WatchEnabled,      \* --watch or watch.enabled
    watch_interval, full_interval, retry_interval,   \* in ticks
    Configs,           \* what the config file may say: [max, main], max being
                       \* max_consecutive_errors, main watch_is_main_process
    Faults,            \* whether lists, locks, creates and uploads may fail
    ErrorCap,          \* bound: consecutive_errors saturates here, at or above
                       \* every max_consecutive_errors
    MaxWatchReloads    \* bound: reload requests and SIGHUPs

Loop     == Start \cup {Boot}
AgeCap   == full_interval + watch_interval \* bound: as old as a backup gets
Ages     == 0..AgeCap \cup {NoBackup}

ASSUME WatchAssumption ==
    /\ Boot \notin Start /\ NoLoop \notin Loop /\ NoBackup \notin Nat
    /\ WatchEnabled \in BOOLEAN /\ Faults \in BOOLEAN
    /\ watch_interval \in Nat \ {0} /\ full_interval \in Nat \ {0}
    /\ retry_interval \in Nat
    /\ ErrorCap \in Nat \ {0}
    /\ Configs # {} /\ Configs \subseteq [max : 0..ErrorCap, main : BOOLEAN]
    /\ MaxWatchReloads \in Nat

VARIABLES
    up,        \* the server process runs
    sigterm,   \* it has received SIGINT or SIGTERM
    active,    \* watch_status.active
    tx,        \* watch_shutdown_tx and watch_reload_tx: whose channels AppState has
    stopped,   \* loop -> true has been sent on its shutdown channel
    reload,    \* loop -> a reload signal its receiver has not seen
    loop,      \* loop -> its WatchContext and place, see NewLoop
    start,     \* watch_start request -> place
    stop,      \* watch_stop request -> place
    full,      \* age of the newest full backup in the bucket
    last,      \* age of the newest backup
    config,    \* AppState's config
    reloads

watchVars == <<up, sigterm, active, tx, stopped, reload, loop, start, stop,
               full, last, config, reloads>>
handlers == <<start, stop>>

(* A loop before it is spawned; spawned with the current config. *)
Unborn        == [pc |-> "unborn", errors |-> 0, force |-> FALSE, type |-> "full",
                  lock |-> FALSE, wake |-> 0, limit |-> 0, main |-> FALSE, reason |-> "none"]
NewLoop(c)    == [Unborn EXCEPT !.pc = "top", !.limit = c.max, !.main = c.main]
Finished      == [Unborn EXCEPT !.pc = "done"]
Running(l)    == loop[l].pc \notin {"unborn", "done"}
Receives(l)   == loop[l].pc # "done"
InCycle(l)    == loop[l].pc \in {"create", "upload", "clean"}
Set(l, r)     == loop' = [loop EXCEPT ![l] = r]

-----------------------------------------------------------------------------
(* start_server: the senders are stored, then the loop is spawned; requests *)
(* are served afterwards.                                                  *)
WatchInit ==
    /\ up = TRUE /\ sigterm = FALSE
    /\ active = WatchEnabled
    /\ tx = IF WatchEnabled THEN Boot ELSE NoLoop
    /\ stopped = [l \in Loop |-> FALSE]
    /\ reload = [l \in Loop |-> FALSE]
    /\ config \in Configs
    /\ loop = [l \in Loop |-> IF l = Boot /\ WatchEnabled THEN NewLoop(config) ELSE Unborn]
    /\ start = [s \in Start |-> "new"]
    /\ stop = [s \in Stop |-> "new"]
    /\ \/ full = NoBackup /\ last = NoBackup
       \/ full \in 0..full_interval /\ last \in 0..full
    /\ reloads = 0

-----------------------------------------------------------------------------
(* run_watch_loop *)

(* The next action, from the ages list_remote reports. *)
ResumeDecision(f, a) ==
    IF f = NoBackup \/ f >= full_interval THEN "full"
    ELSE IF a >= watch_interval THEN "incr" ELSE "sleep"

(* Mutant: the age of the newest backup stands for that of the last full. *)
ResumeDecisionNewest(f, a) ==
    IF f = NoBackup \/ a >= full_interval THEN "full"
    ELSE IF a >= watch_interval THEN "incr" ELSE "sleep"

resume_state(f, a) == ResumeDecision(f, a)

(* Mutant: an error does not force a full backup. *)
HandleErrorForgets(l) ==
    Set(l, [loop[l] EXCEPT !.pc = "sleep", !.wake = retry_interval,
               !.errors = IF @ < ErrorCap THEN @ + 1 ELSE @])

(* handle_error: one more error, the next backup is full, and a sleep; the *)
(* lock, if it was taken, is kept until the loop's body ends.              *)
handle_error(l) ==
    Set(l, [loop[l] EXCEPT !.pc = "sleep", !.wake = retry_interval, !.force = TRUE,
               !.errors = IF @ < ErrorCap THEN @ + 1 ELSE @])

(* The checks at the top of the loop. *)
Top(l) ==
    LET r == loop[l]
        tooMany == r.limit > 0 /\ r.errors >= r.limit
    IN
    /\ r.pc = "top"
    /\ Set(l, IF tooMany THEN [r EXCEPT !.pc = "exit", !.reason = "errors"]
              ELSE IF stopped[l] THEN [r EXCEPT !.pc = "exit", !.reason = "shutdown"]
              ELSE [r EXCEPT !.pc = "list"])
    /\ UNCHANGED <<up, sigterm, active, tx, stopped, reload, handlers, full, last, config, reloads>>

(* The bucket is listed and the next action decided; the list may fail, or *)
(* miss the last full or the last backup.  The name may be invalid.        *)
ListAndDecide(l) ==
    LET r == loop[l] IN
    /\ r.pc = "list"
    /\ \/ \E f \in IF Faults THEN {full, NoBackup} ELSE {full},
             a \in IF Faults THEN {full, last} ELSE {last} :
             LET d == resume_state(f, a) IN
             Set(l, IF d = "sleep"
                    THEN [r EXCEPT !.pc = "sleep", !.wake = watch_interval - a]
                    ELSE [r EXCEPT !.pc = "lock", !.type = IF r.force THEN "full" ELSE d])
       \/ Faults /\ handle_error(l)
    /\ UNCHANGED <<up, sigterm, active, tx, stopped, reload, handlers, full, last, config, reloads>>

(* acquire_scoped for the new backup; a fault may be that clean or delete  *)
(* holds the global lock.                                                  *)
AcquireLock(l) ==
    /\ loop[l].pc = "lock"
    /\ \/ Set(l, [loop[l] EXCEPT !.pc = "create", !.lock = TRUE])
       \/ Faults /\ handle_error(l)
    /\ UNCHANGED <<up, sigterm, active, tx, stopped, reload, handlers, full, last, config, reloads>>

(* backup::create, cancelled by the shutdown channel. *)
Create(l) ==
    /\ loop[l].pc = "create"
    /\ \/ Set(l, [loop[l] EXCEPT !.pc = "upload"])
       \/ (stopped[l] \/ Faults) /\ handle_error(l)
    /\ UNCHANGED <<up, sigterm, active, tx, stopped, reload, handlers, full, last, config, reloads>>

(* upload::upload, cancelled likewise; it may fail after publishing. *)
Upload(l) ==
    /\ loop[l].pc = "upload"
    /\ \/ /\ last' = 0
          /\ full' = IF loop[l].type = "full" THEN 0 ELSE full
          /\ Set(l, [loop[l] EXCEPT !.pc = "clean"]) \/ (Faults /\ handle_error(l))
       \/ (stopped[l] \/ Faults) /\ handle_error(l) /\ UNCHANGED <<full, last>>
    /\ UNCHANGED <<up, sigterm, active, tx, stopped, reload, handlers, config, reloads>>

(* Local deletion and retention, best effort, which may retire a full      *)
(* backup that is no longer the newest; then the errors are forgotten.     *)
Clean(l) ==
    LET r == loop[l] IN
    /\ r.pc = "clean"
    /\ full' \in IF full # last THEN {full, NoBackup} ELSE {full}
    /\ Set(l, [r EXCEPT !.pc = "sleep", !.wake = watch_interval, !.errors = 0,
                        !.force = IF r.type = "full" THEN FALSE ELSE @])
    /\ UNCHANGED <<up, sigterm, active, tx, stopped, reload, handlers, last, config, reloads>>

(* Mutant: the lock's guard outlives the body of the loop. *)
WakeHolding(l) ==
    /\ loop[l].pc = "sleep" /\ loop[l].wake = 0
    /\ Set(l, [loop[l] EXCEPT !.pc = "top"])
    /\ UNCHANGED <<up, sigterm, active, tx, stopped, reload, handlers, full, last, config, reloads>>

(* interruptible_sleep ends, and with it the body: the lock is dropped. *)
Wake(l) ==
    /\ loop[l].pc = "sleep" /\ loop[l].wake = 0
    /\ Set(l, [loop[l] EXCEPT !.pc = "top", !.lock = FALSE, !.type = "full"])
    /\ UNCHANGED <<up, sigterm, active, tx, stopped, reload, handlers, full, last, config, reloads>>

(* ...or sees the shutdown signal... *)
SleepStopped(l) ==
    /\ loop[l].pc = "sleep" /\ stopped[l]
    /\ Set(l, [loop[l] EXCEPT !.pc = "exit", !.lock = FALSE, !.reason = "shutdown"])
    /\ UNCHANGED <<up, sigterm, active, tx, stopped, reload, handlers, full, last, config, reloads>>

(* ...or a reload signal: the config file is read, which may fail, and the *)
(* sleep goes on; whether the loop is the main process was fixed when it   *)
(* was spawned.                                                            *)
SleepReload(l) ==
    /\ loop[l].pc = "sleep" /\ reload[l]
    /\ reload' = [reload EXCEPT ![l] = FALSE]
    /\ \/ \E c \in Configs : Set(l, [loop[l] EXCEPT !.limit = c.max])
       \/ UNCHANGED loop
    /\ UNCHANGED <<up, sigterm, active, tx, stopped, handlers, full, last, config, reloads>>

(* Mutant: a loop that was stopped leaves the status active. *)
HandleWatchExitStale(l) ==
    /\ loop[l].pc = "exit"
    /\ active' = (loop[l].reason = "shutdown")
    /\ Set(l, Finished)
    /\ stopped' = [stopped EXCEPT ![l] = FALSE]
    /\ reload' = [reload EXCEPT ![l] = FALSE]
    /\ UNCHANGED <<up, sigterm, tx, handlers, full, last, config, reloads>>

(* The process ends; its tasks and its memory are gone. *)
ProcessEnds ==
    /\ up' = FALSE
    /\ active' = FALSE
    /\ tx' = NoLoop
    /\ stopped' = [l \in Loop |-> FALSE]
    /\ reload' = [l \in Loop |-> FALSE]
    /\ loop' = [l \in Loop |-> Finished]
    /\ start' = [s \in Start |-> "answered"]
    /\ stop' = [s \in Stop |-> "answered"]
    /\ UNCHANGED <<sigterm, full, last, config, reloads>>

(* handle_watch_exit: inactive; too many errors may end the process.  The  *)
(* loop's receivers are dropped, and with them what was sent.              *)
handle_watch_exit(l) ==
    /\ loop[l].pc = "exit"
    /\ IF loop[l].main /\ loop[l].reason = "errors"
       THEN ProcessEnds
       ELSE /\ active' = FALSE
            /\ Set(l, Finished)
            /\ stopped' = [stopped EXCEPT ![l] = FALSE]
            /\ reload' = [reload EXCEPT ![l] = FALSE]
            /\ UNCHANGED <<up, sigterm, tx, handlers, full, last, config, reloads>>

LoopStep(l) ==
    /\ up
    /\ \/ Top(l) \/ ListAndDecide(l) \/ AcquireLock(l) \/ Create(l) \/ Upload(l) \/ Clean(l)
       \/ Wake(l) \/ SleepStopped(l) \/ SleepReload(l) \/ handle_watch_exit(l)

-----------------------------------------------------------------------------
(* The server *)

(* Mutant: the slot is checked, but reserved only when the loop is spawned. *)
StartUnreserved(s) ==
    /\ start[s] = "new"
    /\ start' = [start EXCEPT ![s] = IF active THEN "answered" ELSE "reserved"]
    /\ UNCHANGED <<up, sigterm, active, tx, stopped, reload, loop, stop, full, last, config, reloads>>

(* watch_start checks and reserves the slot... *)
StartReserve(s) ==
    /\ start[s] = "new"
    /\ start' = [start EXCEPT ![s] = IF active THEN "answered" ELSE "reserved"]
    /\ active' = TRUE
    /\ UNCHANGED <<up, sigterm, tx, stopped, reload, loop, stop, full, last, config, reloads>>

(* ...gives it up when the intervals of the request are not valid... *)
StartInvalid(s) ==
    /\ start[s] = "reserved"
    /\ start' = [start EXCEPT ![s] = "answered"]
    /\ active' = FALSE
    /\ UNCHANGED <<up, sigterm, tx, stopped, reload, loop, stop, full, last, config, reloads>>

(* ...installs the channels after it has got the macros... *)
StartInstall(s) ==
    /\ start[s] = "reserved"
    /\ start' = [start EXCEPT ![s] = "installed"]
    /\ tx' = s
    /\ UNCHANGED <<up, sigterm, active, stopped, reload, loop, stop, full, last, config, reloads>>

(* ...and spawns the loop, with the server's current config. *)
StartSpawn(s) ==
    /\ start[s] = "installed"
    /\ start' = [start EXCEPT ![s] = "answered"]
    /\ active' = TRUE
    /\ Set(s, NewLoop(config))
    /\ UNCHANGED <<up, sigterm, tx, stopped, reload, stop, full, last, config, reloads>>

(* watch_stop looks at the status... *)
StopCheck(s) ==
    /\ stop[s] = "new"
    /\ stop' = [stop EXCEPT ![s] = IF active THEN "send" ELSE "answered"]
    /\ UNCHANGED <<up, sigterm, active, tx, stopped, reload, loop, start, full, last, config, reloads>>

(* ...and then sends on whatever channel is installed. *)
StopSend(s) ==
    /\ stop[s] = "send"
    /\ stop' = [stop EXCEPT ![s] = "stopping"]
    /\ stopped' = [l \in Loop |-> stopped[l] \/ (l = tx /\ Receives(l))]
    /\ UNCHANGED <<up, sigterm, active, tx, reload, loop, start, full, last, config, reloads>>

(* reload and restart swap the config and signal the installed channel;    *)
(* SIGHUP signals that of the first loop.                                  *)
WatchReload ==
    /\ reloads < MaxWatchReloads
    /\ reloads' = reloads + 1
    /\ \/ /\ config' \in Configs
          /\ reload' = [l \in Loop |-> reload[l] \/ (l = tx /\ Receives(l))]
       \/ /\ WatchEnabled
          /\ reload' = [reload EXCEPT ![Boot] = Receives(Boot)]
          /\ UNCHANGED config
    /\ UNCHANGED <<up, sigterm, active, tx, stopped, loop, handlers, full, last>>

(* SIGINT or SIGTERM: the sender start_server has kept is used... *)
ShutdownSignal ==
    /\ ~sigterm
    /\ sigterm' = TRUE
    /\ stopped' = [stopped EXCEPT ![Boot] = WatchEnabled /\ Receives(Boot)]
    /\ UNCHANGED <<up, active, tx, reload, loop, handlers, full, last, config, reloads>>

(* ...and start_server returns, which ends the process and all its loops. *)
ServerExit ==
    /\ sigterm
    /\ ProcessEnds

Older(a) == IF a = NoBackup \/ a = AgeCap THEN a ELSE a + 1

(* External: time passes when all loops are asleep. *)
Tick ==
    /\ \A l \in Loop : Running(l) => loop[l].pc = "sleep" /\ loop[l].wake > 0
    /\ loop' = [l \in Loop |-> IF Running(l) THEN [loop[l] EXCEPT !.wake = @ - 1] ELSE loop[l]]
    /\ full' = Older(full) /\ last' = Older(last)
    /\ UNCHANGED <<up, sigterm, active, tx, stopped, reload, handlers, config, reloads>>

StartStep(s) == up /\ (StartInvalid(s) \/ StartInstall(s) \/ StartSpawn(s))

WatchNext ==
    \/ \E l \in Loop : LoopStep(l)
    \/ \E s \in Start : (up /\ StartReserve(s)) \/ StartStep(s)
    \/ \E s \in Stop : up /\ (StopCheck(s) \/ StopSend(s))
    \/ up /\ (WatchReload \/ ShutdownSignal \/ ServerExit \/ Tick)

WatchSpec == WatchInit /\ [][WatchNext]_watchVars

(* The runtime polls every ready task and time passes; nobody has to send  *)
(* requests or signals.                                                    *)
WatchFairSpec ==
    /\ WatchSpec
    /\ \A l \in Loop : WF_watchVars(LoopStep(l))
    /\ \A s \in Start : WF_watchVars(StartStep(s))
    /\ \A s \in Stop : WF_watchVars(up /\ StopSend(s))
    /\ WF_watchVars(up /\ Tick)

-----------------------------------------------------------------------------
(* Properties *)

LoopState ==
    [pc : {"unborn", "top", "list", "lock", "create", "upload", "clean", "sleep",
           "exit", "done"},
     errors : 0..ErrorCap, force : BOOLEAN, type : {"full", "incr"}, lock : BOOLEAN,
     wake : (0..watch_interval) \cup (0..retry_interval), limit : 0..ErrorCap,
     main : BOOLEAN, reason : {"none", "shutdown", "errors"}]

(* Type correctness of the server's watch state and of the loops. *)
WatchTypeOK ==
    /\ up \in BOOLEAN /\ sigterm \in BOOLEAN /\ active \in BOOLEAN
    /\ tx \in Loop \cup {NoLoop}
    /\ stopped \in [Loop -> BOOLEAN] /\ reload \in [Loop -> BOOLEAN]
    /\ loop \in [Loop -> LoopState]
    /\ start \in [Start -> {"new", "reserved", "installed", "answered"}]
    /\ stop \in [Stop -> {"new", "send", "answered", "stopping"}]
    /\ full \in Ages /\ last \in Ages
    /\ config \in Configs /\ reloads \in 0..MaxWatchReloads

(* However start and stop requests interleave, no two watch loops run at   *)
(* once, and while one runs the status says so and AppState has its        *)
(* channel ("prevent two concurrent requests from both passing").          *)
OneLoop ==
    \A l \in Loop : Running(l) =>
        active /\ tx = l /\ \A k \in Loop \ {l} : ~Running(k)

(* After an error no incremental backup is made before a full one has      *)
(* succeeded: an incremental never builds on what a failed cycle left.     *)
ErrorsForceFull ==
    \A l \in Loop : loop[l].errors > 0 /\ InCycle(l) => loop[l].type = "full"

(* "Time between full backups": a loop that sleeps between two successful  *)
(* cycles has no last full backup older than full_interval and one         *)
(* watch_interval.                                                         *)
FullCadence ==
    \A l \in Loop :
        loop[l].pc = "sleep" /\ loop[l].errors = 0 /\ full # NoBackup =>
            full < full_interval + watch_interval

(* A cycle never runs with as many consecutive errors as the limit, as it  *)
(* stood at the last reload ("abort after N consecutive failures").        *)
ErrorLimit ==
    \A l \in Loop : InCycle(l) /\ loop[l].limit > 0 => loop[l].errors < loop[l].limit

(* A stop signal that has reached a loop's channel ends the loop, wherever *)
(* it is in its cycle or its sleeps, and the watch can be started again.   *)
StopEnds ==
    \A l \in Loop : stopped[l] /\ Running(l) ~> loop[l].pc = "done" /\ ~active

(* The lock of a cycle is given back: clean and delete are not shut out    *)
(* for good by a watch loop, even by one that fails in every cycle.        *)
LockReturns ==
    \A l \in Loop : loop[l].lock ~> ~loop[l].lock

(* "Sends a shutdown signal to the watch loop" (watch_stop): once a stop   *)
(* has found the watch active, the watch becomes inactive.                 *)
StopHeeded ==
    \A s \in Stop : stop[s] = "send" ~> ~active \/ sigterm

(* "The current cycle completes before stopping" (docs/api.md): without a  *)
(* fault and without a signal, a watch_stop makes no cycle fail.           *)
CycleCompletes ==
    [][\A l \in Loop : InCycle(l) /\ ~sigterm => loop'[l].errors <= loop[l].errors]_watchVars

(* "On shutdown ... the watch loop is signaled to stop" (start_server):    *)
(* the signal reaches the loop that runs, whoever has started it.          *)
ShutdownReachesLoop ==
    [][\A l \in Loop : ~sigterm /\ sigterm' /\ Running(l) => stopped'[l]]_watchVars
=============================================================================
