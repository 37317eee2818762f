----------------------------- MODULE OpManager ------------------------------
(***************************************************************************)
(* The operation registry of the chbackup server (src/server/state.rs,     *)
(* src/server/actions.rs): how API requests are admitted, queued, run,     *)
(* finished and killed, and how a config reload replaces the semaphore.    *)
(*                                                                         *)
(* A request is one command of an API call.  The registry's state is under *)
(* three guards that are never held together -- the semaphore, the action  *)
(* log's mutex and running_ops' mutex -- so every critical section is a    *)
(* step of its own.                                                        *)
(***************************************************************************)
EXTENDS Naturals, Sequences, FiniteSets

CONSTANTS
    Req,           \* requests ever made
    Name,          \* backup names
    NoName,        \* a request without a conflict_backup_name
    Namings,       \* workload: the conflict_backup_name of each request
    Capacity,      \* entries the action log keeps (100)
    Modes,         \* values of api.allow_parallel at start
    QueueReqs,     \* requests made through /backup/actions (they queue)
    MaxKills,      \* bound: kill requests
    MaxReloads     \* bound: reloads that change allow_parallel

ASSUME OpAssumption ==
    /\ IsFiniteSet(Req)
    /\ Capacity \in Nat \ {0}
    /\ Modes \subseteq BOOLEAN
    /\ QueueReqs \subseteq Req
    /\ MaxKills \in Nat /\ MaxReloads \in Nat
    /\ NoName \notin Name
    /\ Namings \subseteq [Req -> Name \cup {NoName}]

VARIABLES
    pc,        \* where a request is
    name,      \* its conflict_backup_name
    ring,      \* ActionLog.entries: the requests, oldest first
    status,    \* ActionEntry.status, kept here after eviction too
    ops,       \* running_ops: the requests it holds
    permit,    \* the semaphore a request has a permit of, 0 for none
    token,     \* its CancellationToken is cancelled
    sem,       \* op_semaphore: the number of the current instance
    par,       \* instance -> whether it was built for allow_parallel
    waiters,   \* instance -> the requests in acquire_owned, in order
    killing,   \* entries a kill_op call has taken out of running_ops
    kills

vars == <<pc, name, ring, status, ops, permit, token, sem, par, waiters,
          killing, kills>>

Sems     == 1..(MaxReloads + 1)
Terminal == {"completed", "failed", "killed"}

Init ==
    /\ pc = [r \in Req |-> "new"]
    /\ name \in Namings
    /\ ring = <<>>
    /\ status = [r \in Req |-> "none"]
    /\ ops = {}
    /\ permit = [r \in Req |-> 0]
    /\ token = [r \in Req |-> FALSE]
    /\ sem = 1
    /\ \E p \in Modes : par = [s \in Sems |-> p]
    /\ waiters = [s \in Sems |-> <<>>]
    /\ killing = {}
    /\ kills = 0

Goto(r, l) == pc' = [pc EXCEPT ![r] = l]

InRing(r) == \E i \in 1..Len(ring) : ring[i] = r

(* Mutant: the two modes are swapped. *)
semaphore_permits_swapped(s) == IF par[s] THEN 1 ELSE Cardinality(Req)

(* Permits of instance s: one, or as many as there may be. *)
semaphore_permits(s) == IF par[s] THEN Cardinality(Req) ELSE 1
Free(s) == semaphore_permits(s) - Cardinality({r \in Req : permit[r] = s})

(* ActionLog: start evicts the oldest entry of a full log; finish and fail *)
(* leave a Killed entry alone; kill does not look at the status.           *)
LogStart(r) ==
    /\ ring' = Append(IF Len(ring) >= Capacity THEN Tail(ring) ELSE ring, r)
    /\ status' = [status EXCEPT ![r] = "running"]

LogEnd(r, s) ==
    /\ status' = IF InRing(r) /\ status[r] # "killed"
                 THEN [status EXCEPT ![r] = s] ELSE status
    /\ UNCHANGED ring

LogKill(R) ==
    /\ status' = [r \in Req |-> IF r \in R /\ InRing(r) THEN "killed" ELSE status[r]]
    /\ UNCHANGED ring

(* A queue without its i-th entry. *)
Without(q, i) == SubSeq(q, 1, i - 1) \o SubSeq(q, i + 1, Len(q))

(* Another entry of running_ops is for the same backup. *)
Conflict(r) == name[r] # NoName /\ \E q \in ops \ {r} : name[q] = name[r]

-----------------------------------------------------------------------------
(* try_start_op *)

TryPermit(r) ==
    /\ pc[r] = "new" /\ r \notin QueueReqs
    /\ \/ /\ Free(sem) > 0 /\ waiters[sem] = <<>>
          /\ permit' = [permit EXCEPT ![r] = sem] /\ Goto(r, "try_log")
       \/ (Free(sem) = 0 \/ waiters[sem] # <<>>) /\ Goto(r, "end") /\ UNCHANGED permit
    /\ UNCHANGED <<name, ring, status, ops, token, sem, par, waiters, killing, kills>>

TryLog(r) ==
    /\ pc[r] = "try_log"
    /\ LogStart(r)
    /\ Goto(r, "try_insert")
    /\ UNCHANGED <<name, ops, permit, token, sem, par, waiters, killing, kills>>

(* Mutant: the insertion does not check for a conflict. *)
TryInsertUnchecked(r) ==
    /\ pc[r] = "try_insert"
    /\ ops' = ops \cup {r} /\ Goto(r, "run")
    /\ UNCHANGED <<name, ring, status, permit, token, sem, par, waiters, killing, kills>>

(* Check and insert under one lock. *)
TryInsert(r) ==
    /\ pc[r] = "try_insert"
    /\ \/ ~Conflict(r) /\ ops' = ops \cup {r} /\ Goto(r, "run")
       \/ Conflict(r) /\ Goto(r, "reject") /\ UNCHANGED ops
    /\ UNCHANGED <<name, ring, status, permit, token, sem, par, waiters, killing, kills>>

(* The rejection is logged; returning drops the permit. *)
LogReject(r) ==
    /\ pc[r] = "reject"
    /\ LogEnd(r, "failed")
    /\ permit' = [permit EXCEPT ![r] = 0]
    /\ Goto(r, "end")
    /\ UNCHANGED <<name, ops, token, sem, par, waiters, killing, kills>>

-----------------------------------------------------------------------------
(* queue_start_op *)

QueueLog(r) ==
    /\ pc[r] = "new" /\ r \in QueueReqs
    /\ LogStart(r)
    /\ Goto(r, "q_insert")
    /\ UNCHANGED <<name, ops, permit, token, sem, par, waiters, killing, kills>>

(* Insert without a permit, then wait on the current semaphore. *)
QueueInsert(r) ==
    /\ pc[r] = "q_insert"
    /\ ops' = ops \cup {r}
    /\ Goto(r, "q_wait")
    /\ UNCHANGED <<name, ring, status, permit, token, sem, par, waiters, killing, kills>>

QueueWait(r) ==
    /\ pc[r] = "q_wait"
    /\ waiters' = [waiters EXCEPT ![sem] = Append(@, r)]
    /\ Goto(r, "q_waiting")
    /\ UNCHANGED <<name, ring, status, ops, permit, token, sem, par, killing, kills>>

(* The semaphore hands a free permit to its first waiter. *)
Grant(s) ==
    /\ waiters[s] # <<>> /\ Free(s) > 0
    /\ LET r == Head(waiters[s]) IN
          /\ permit' = [permit EXCEPT ![r] = s]
          /\ Goto(r, "q_check")
    /\ waiters' = [waiters EXCEPT ![s] = Tail(@)]
    /\ UNCHANGED <<name, ring, status, ops, token, sem, par, killing, kills>>

(* The cancelled arm of the select: no longer a waiter, entry removed. *)
QueueKilled(r) ==
    /\ pc[r] = "q_waiting" /\ token[r]
    /\ \E s \in Sems : \E i \in 1..Len(waiters[s]) :
          waiters[s][i] = r /\ waiters' = [waiters EXCEPT ![s] = Without(@, i)]
    /\ ops' = ops \ {r}
    /\ Goto(r, "end")
    /\ UNCHANGED <<name, ring, status, permit, token, sem, par, killing, kills>>

(* Mutant: a request killed between its grant and this check keeps its permit. *)
QueueCheckLeaks(r) ==
    /\ pc[r] = "q_check"
    /\ \/ /\ r \notin ops \/ token[r]
          /\ ops' = ops \ {r} /\ UNCHANGED permit /\ Goto(r, "end")
       \/ /\ r \in ops /\ ~token[r] /\ Conflict(r)
          /\ ops' = ops \ {r} /\ Goto(r, "reject") /\ UNCHANGED permit
       \/ /\ r \in ops /\ ~token[r] /\ ~Conflict(r)
          /\ Goto(r, "run") /\ UNCHANGED <<ops, permit>>
    /\ UNCHANGED <<name, ring, status, token, sem, par, waiters, killing, kills>>

(* With the permit: gone or cancelled in the meantime, in conflict with    *)
(* any other entry of the name, or ready to run.                           *)
QueueCheck(r) ==
    /\ pc[r] = "q_check"
    /\ \/ /\ r \notin ops \/ token[r]
          /\ ops' = ops \ {r} /\ permit' = [permit EXCEPT ![r] = 0] /\ Goto(r, "end")
       \/ /\ r \in ops /\ ~token[r] /\ Conflict(r)
          /\ ops' = ops \ {r} /\ Goto(r, "reject") /\ UNCHANGED permit
       \/ /\ r \in ops /\ ~token[r] /\ ~Conflict(r)
          /\ Goto(r, "run") /\ UNCHANGED <<ops, permit>>
    /\ UNCHANGED <<name, ring, status, token, sem, par, waiters, killing, kills>>

-----------------------------------------------------------------------------
(* run_operation and the loops of post_actions and go_post_actions *)

(* The command returns: finish_op or fail_op logs it first... *)
LogDone(r) ==
    /\ pc[r] = "run"
    /\ \E s \in {"completed", "failed"} : LogEnd(r, s)
    /\ Goto(r, "remove")
    /\ UNCHANGED <<name, ops, permit, token, sem, par, waiters, killing, kills>>

(* Mutant: a finished operation stays in running_ops, permit included. *)
RemoveOpLeaks(r) ==
    /\ pc[r] = "remove"
    /\ Goto(r, "end")
    /\ UNCHANGED <<name, ring, status, ops, permit, token, sem, par, waiters, killing, kills>>

(* ...and then removes it from running_ops, which drops its permit (unless *)
(* a kill has taken the entry, and the permit with it).                    *)
RemoveOp(r) ==
    /\ pc[r] = "remove"
    /\ ops' = ops \ {r}
    /\ permit' = IF r \in ops THEN [permit EXCEPT ![r] = 0] ELSE permit
    /\ Goto(r, "end")
    /\ UNCHANGED <<name, ring, status, token, sem, par, waiters, killing, kills>>

(* The cancelled arm of the select drops the command where it stands. *)
Cancelled(r) ==
    /\ pc[r] \in {"run", "remove"} /\ token[r]
    /\ Goto(r, "end")
    /\ UNCHANGED <<name, ring, status, ops, permit, token, sem, par, waiters, killing, kills>>

-----------------------------------------------------------------------------
(* kill_op: entries are taken out under the lock of running_ops... *)
KillTake(R) ==
    /\ killing = {} /\ kills < MaxKills
    /\ R # {} /\ R \subseteq ops /\ (Cardinality(R) = 1 \/ R = ops)
    /\ kills' = kills + 1
    /\ ops' = ops \ R
    /\ killing' = R
    /\ UNCHANGED <<pc, name, ring, status, permit, token, sem, par, waiters>>

(* ...their tokens are cancelled one by one, with no lock held... *)
KillCancel(r) ==
    /\ r \in killing /\ ~token[r]
    /\ token' = [token EXCEPT ![r] = TRUE]
    /\ UNCHANGED <<pc, name, ring, status, ops, permit, sem, par, waiters, killing, kills>>

(* ...then logged as killed; returning drops the entries and their permits. *)
(* A request that has yet to store its permit keeps it until QueueCheck.   *)
KillLog ==
    /\ killing # {} /\ \A r \in killing : token[r]
    /\ LogKill(killing)
    /\ permit' = [r \in Req |-> IF r \in killing /\ pc[r] # "q_check" THEN 0 ELSE permit[r]]
    /\ killing' = {}
    /\ UNCHANGED <<pc, name, ops, token, sem, par, waiters, kills>>

(* maybe_rebuild_semaphore: allow_parallel changed, a fresh semaphore. *)
Reload ==
    /\ sem < MaxReloads + 1
    /\ sem' = sem + 1
    /\ par' = [par EXCEPT ![sem + 1] = ~par[sem]]
    /\ UNCHANGED <<pc, name, ring, status, ops, permit, token, waiters, killing, kills>>

KillTask == KillLog \/ \E r \in Req : KillCancel(r)

Step(r) ==
    \/ TryLog(r) \/ TryInsert(r) \/ LogReject(r)
    \/ QueueInsert(r) \/ QueueWait(r) \/ QueueKilled(r) \/ QueueCheck(r)
    \/ LogDone(r) \/ RemoveOp(r) \/ Cancelled(r)

Next ==
    \/ \E r \in Req : TryPermit(r) \/ QueueLog(r) \/ Step(r)
    \/ \E s \in Sems : Grant(s)
    \/ \E R \in SUBSET ops : KillTake(R)
    \/ KillTask
    \/ Reload

Spec == Init /\ [][Next]_vars

(* The runtime polls every ready task, commands return, and the semaphore  *)
(* serves its waiters; nobody has to send requests, kills or reloads.      *)
FairSpec ==
    /\ Spec
    /\ \A r \in Req : WF_vars(Step(r))
    /\ \A s \in Sems : WF_vars(Grant(s))
    /\ WF_vars(KillTask)

-----------------------------------------------------------------------------
(* Properties *)

Labels == {"new", "try_log", "try_insert", "reject", "q_insert", "q_wait",
           "q_waiting", "q_check", "run", "remove", "end"}

(* Type correctness of the registry. *)
TypeOK ==
    /\ pc \in [Req -> Labels]
    /\ name \in [Req -> Name \cup {NoName}]
    /\ ring \in Seq(Req) /\ Len(ring) <= Capacity
    /\ status \in [Req -> Terminal \cup {"none", "running"}]
    /\ ops \subseteq Req
    /\ permit \in [Req -> Sems \cup {0}]
    /\ token \in [Req -> BOOLEAN]
    /\ sem \in Sems
    /\ par \in [Sems -> BOOLEAN]
    /\ waiters \in [Sems -> Seq(Req)]
    /\ killing \subseteq Req
    /\ kills \in 0..MaxKills

(* "1 permit -- operations are serialized" (AppState::new): in serial mode *)
(* no two operations run side by side, however requests queue, are refused *)
(* or killed; a killed one may still be winding down.                      *)
Serialized ==
    ~par[sem] => \A q, r \in Req :
        pc[q] = "run" /\ pc[r] = "run" /\ ~token[q] /\ ~token[r] => q = r

(* "only one backup operation can run at a time" (docs/api.md): the same,  *)
(* with the operations that have been killed and have not stopped yet.     *)
SerializedToTheEnd ==
    ~par[sem] => \A q, r \in Req : pc[q] = "run" /\ pc[r] = "run" => q = r

(* No two operations on one backup run side by side, in any mode and       *)
(* across kills and reloads; one that a kill has taken out of running_ops  *)
(* may still be winding down, its token not even cancelled yet.            *)
NameExclusion ==
    \A q, r \in Req :
        /\ pc[q] = "run" /\ pc[r] = "run" /\ ~token[q] /\ ~token[r]
        /\ q \notin killing /\ r \notin killing
        /\ name[q] = name[r] /\ name[q] # NoName
        => q = r

(* Every way an operation can end gives back its permit and its entry in   *)
(* running_ops; a leak would refuse all later operations.                  *)
NothingLeaks ==
    (\A r \in Req : pc[r] \in {"new", "end"}) /\ killing = {} =>
        ops = {} /\ \A r \in Req : permit[r] = 0

(* A killed operation stays killed: finish and fail, called by tasks that  *)
(* ignore their token, "cannot overwrite a Killed status" (ActionLog).     *)
KilledIsFinal ==
    [][\A r \in Req : status[r] = "killed" => status'[r] = "killed"]_vars

(* "Running -> Completed | Failed | Killed": the lifecycle of an entry     *)
(* ends with its first terminal status (src/server/actions.rs).            *)
TerminalIsFinal ==
    [][\A r \in Req : status[r] \in Terminal => status'[r] = status[r]]_vars

(* Every operation that was admitted or queued ends, and its entry in the  *)
(* action log does not stay "running" (unless the log has evicted it).     *)
EveryOpEnds ==
    \A r \in Req :
        status[r] = "running" ~> pc[r] = "end" /\ (status[r] \in Terminal \/ ~InRing(r))

(* "In serial mode the previous op has already finished": a queued command *)
(* is never rejected for another command on its backup (queue_start_op).   *)
QueuedIsNotRejected ==
    ~par[sem] => \A r \in QueueReqs : pc[r] # "reject"
=============================================================================
