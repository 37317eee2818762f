--------------------------- MODULE OpsWatchProofs ---------------------------
(***************************************************************************)
(* TLAPS proofs about what the server's requests share: the operation      *)
(* registry (OpManager), for any requests, names, log capacity and modes   *)
(* and any number of kills and reloads; and, below, the watch loop         *)
(* (WatchLoop), for any number of start and stop requests and reloads, any *)
(* intervals and any configurations.                                       *)
(***************************************************************************)
EXTENDS OpManager, WatchLoop, FiniteSetTheorems, SequenceTheorems, TLAPS

(* Where a request can be while running_ops has it, and after a kill has   *)
(* taken it out.                                                           *)
Registered == {"q_wait", "q_waiting", "q_check", "run", "remove"}

ControlInv ==
    \A r \in Req :
        /\ r \in ops => pc[r] \in Registered /\ ~token[r] /\ r \notin killing
        /\ token[r] \/ r \in killing => pc[r] \in Registered \cup {"end"}
        /\ pc[r] \in {"run", "remove"} => r \in ops \/ token[r] \/ r \in killing

(* The ways a permit is held: by a call that has yet to store or drop it,  *)
(* by an entry of running_ops, or by an entry kill_op has taken.           *)
Holds(r) ==
    \/ pc[r] \in {"try_log", "try_insert", "reject", "q_check"}
    \/ pc[r] \in {"run", "remove"} /\ r \in ops
    \/ pc[r] \in {"run", "remove", "end"} /\ r \in killing

PermitInv ==
    \A r \in Req :
        /\ permit[r] # 0 => Holds(r)
        /\ pc[r] \in {"try_log", "try_insert", "q_check"} => permit[r] # 0
        /\ pc[r] = "run" /\ (r \in ops \/ r \in killing) => permit[r] # 0

(* The queues hold each waiting request once. *)
QueueInv ==
    /\ \A s \in Sems : \A i \in 1..Len(waiters[s]) : pc[waiters[s][i]] = "q_waiting"
    /\ \A s, u \in Sems : \A i \in 1..Len(waiters[s]), j \in 1..Len(waiters[u]) :
           waiters[s][i] = waiters[u][j] => s = u /\ i = j

(* Nobody has met a semaphore that a reload has yet to create, and a       *)
(* semaphore of serial mode has given its permit to one request at most.   *)
SemaphoreInv ==
    /\ \A r \in Req : permit[r] <= sem
    /\ \A s \in Sems : waiters[s] # <<>> => s <= sem
    /\ \A s \in Sems : ~par[s] =>
           \A q, r \in Req : permit[q] = s /\ permit[r] = s => q = r

(* Only what a kill has cancelled is logged as killed. *)
KilledInv == \A r \in Req : status[r] = "killed" => token[r]

OpInv == TypeOK /\ ControlInv /\ PermitInv /\ QueueInv /\ SemaphoreInv /\ KilledInv

-----------------------------------------------------------------------------
(* Helpers of the model *)

(* Removing one entry of a queue keeps the others, in their order. *)
LEMMA WithoutProperties ==
    ASSUME NEW S, NEW q \in Seq(S), NEW i \in 1..Len(q)
    PROVE  /\ Without(q, i) \in Seq(S)
           /\ Len(Without(q, i)) = Len(q) - 1
           /\ \A j \in 1..(Len(q) - 1) : Without(q, i)[j] = IF j < i THEN q[j] ELSE q[j + 1]
<1> DEFINE a == SubSeq(q, 1, i - 1)
           b == SubSeq(q, i + 1, Len(q))
<1>1. a \in Seq(S) /\ Len(a) = i - 1 /\ \A j \in 1..(i - 1) : a[j] = q[j]
  BY SubSeqProperties
<1>2. b \in Seq(S) /\ Len(b) = Len(q) - i /\ \A j \in 1..(Len(q) - i) : b[j] = q[i + j]
  BY SubSeqProperties
<1> HIDE DEF a, b
<1>3. Without(q, i) = a \o b
  BY DEF Without, a, b
<1>4. /\ a \o b \in Seq(S)
      /\ Len(a \o b) = Len(a) + Len(b)
      /\ \A j \in 1..(Len(a) + Len(b)) : (a \o b)[j] = IF j <= Len(a) THEN a[j] ELSE b[j - Len(a)]
  BY <1>1, <1>2, ConcatProperties
<1>5. ASSUME NEW j \in 1..(Len(q) - 1)
      PROVE  (a \o b)[j] = IF j < i THEN q[j] ELSE q[j + 1]
  <2>1. j \in 1..(Len(a) + Len(b)) /\ Len(q) \in Nat
    BY <1>1, <1>2
  <2>2. CASE j < i
    BY <1>1, <1>2, <1>4, <2>1, <2>2
  <2>3. CASE j >= i
    <3>1. (a \o b)[j] = b[j - (i - 1)] /\ j - (i - 1) \in 1..(Len(q) - i)
      BY <1>1, <1>2, <1>4, <2>1, <2>3
    <3> QED BY <1>2, <3>1, <2>1, <2>3
  <2> QED BY <2>1, <2>2, <2>3
<1> QED BY <1>1, <1>2, <1>3, <1>4, <1>5

(* A semaphore of serial mode with a free permit has given none away. *)
LEMMA FreeMeansUnheld ==
    ASSUME TypeOK, NEW s \in Sems, ~par[s], Free(s) > 0
    PROVE  \A r \in Req : permit[r] # s
<1> DEFINE held == {r \in Req : permit[r] = s}
<1>1. IsFiniteSet(held) /\ Cardinality(held) \in Nat
  BY OpAssumption, FS_Subset, FS_CardinalityType
<1>2. Cardinality(held) = 0
  BY <1>1 DEF Free, semaphore_permits
<1>3. held = {}
  BY <1>1, <1>2, FS_EmptySet
<1> QED BY <1>3

(* The action log keeps its type and its capacity. *)
LEMMA LogStartType ==
    ASSUME TypeOK, NEW r \in Req, LogStart(r)
    PROVE  /\ ring' \in Seq(Req) /\ Len(ring') <= Capacity
           /\ status' \in [Req -> Terminal \cup {"none", "running"}]
<1>1. CASE Len(ring) >= Capacity
  <2>1. ring # <<>> /\ Len(ring) = Capacity /\ Capacity \in Nat
    BY <1>1, OpAssumption DEF TypeOK
  <2>2. Tail(ring) \in Seq(Req) /\ Len(Tail(ring)) = Capacity - 1
    BY <2>1, HeadTailProperties DEF TypeOK
  <2>3. ring' = Append(Tail(ring), r)
    BY <1>1 DEF LogStart
  <2>4. ring' \in Seq(Req) /\ Len(ring') = Capacity
    BY <2>1, <2>2, <2>3, AppendProperties
  <2> QED BY <2>1, <2>4 DEF LogStart, TypeOK, Terminal
<1>2. CASE ~(Len(ring) >= Capacity)
  <2>1. Len(ring) < Capacity /\ Len(ring) \in Nat /\ Capacity \in Nat
    BY <1>2, OpAssumption DEF TypeOK
  <2>2. ring' = Append(ring, r)
    BY <1>2 DEF LogStart
  <2>3. ring' \in Seq(Req) /\ Len(ring') = Len(ring) + 1
    BY <2>2, AppendProperties DEF TypeOK
  <2> QED BY <2>1, <2>3 DEF LogStart, TypeOK, Terminal
<1> QED BY <1>1, <1>2

LEMMA LogEndType ==
    ASSUME TypeOK, NEW r \in Req, NEW s \in {"completed", "failed"}, LogEnd(r, s)
    PROVE  /\ UNCHANGED ring
           /\ status' \in [Req -> Terminal \cup {"none", "running"}]
           /\ \A q \in Req : status'[q] = "killed" => status[q] = "killed"
  BY DEF LogEnd, TypeOK, Terminal

(* Giving permits back disturbs no semaphore. *)
LEMMA PermitsReturned ==
    ASSUME OpInv, UNCHANGED <<sem, par, waiters>>,
           \A r \in Req : permit'[r] = permit[r] \/ permit'[r] = 0
    PROVE  SemaphoreInv'
<1>1. sem \in Nat /\ sem' = sem /\ par' = par /\ \A s \in Sems : s # 0
  BY OpAssumption DEF OpInv, TypeOK, Sems
<1> QED BY <1>1 DEF OpInv, SemaphoreInv

-----------------------------------------------------------------------------
(* Each action keeps the invariant *)

(* A request's own steps outside the queue. *)
LEMMA TryPermitStep ==
    ASSUME OpInv, NEW r \in Req, TryPermit(r)
    PROVE  OpInv'
<1> USE DEF OpInv
<1>0. /\ pc[r] = "new"
      /\ UNCHANGED <<name, ring, status, ops, token, sem, par, waiters, killing, kills>>
      /\ \/ /\ Free(sem) > 0 /\ permit' = [permit EXCEPT ![r] = sem]
            /\ pc' = [pc EXCEPT ![r] = "try_log"]
         \/ permit' = permit /\ pc' = [pc EXCEPT ![r] = "end"]
  BY DEF TryPermit, Goto
<1>1. TypeOK'
  BY <1>0 DEF TypeOK, Labels
<1>2. ControlInv'
  BY <1>0 DEF TypeOK, ControlInv, Registered
<1>3. PermitInv'
  <2>1. permit[r] = 0
    BY <1>0 DEF PermitInv, Holds, TypeOK, ControlInv
  <2>2. sem # 0
    BY OpAssumption DEF TypeOK, Sems
  <2> QED BY <1>0, <2>1, <2>2 DEF TypeOK, PermitInv, Holds
<1>4. QueueInv'
  BY <1>0 DEF TypeOK, QueueInv
<1>5. SemaphoreInv'
  <2>1. sem \in Nat /\ 0 <= sem
    BY OpAssumption DEF TypeOK, Sems
  <2>2. \A q \in Req : permit'[q] <= sem'
    BY <1>0, <2>1 DEF TypeOK, SemaphoreInv
  <2>3. CASE permit' = permit
    BY <1>0, <2>2, <2>3 DEF SemaphoreInv
  <2>4. CASE Free(sem) > 0 /\ permit' = [permit EXCEPT ![r] = sem]
    <3>1. ~par[sem] => \A q \in Req : permit[q] # sem
      BY <2>4, FreeMeansUnheld DEF TypeOK
    <3>2. sem \in Sems /\ permit \in [Req -> Sems \cup {0}]
      BY DEF TypeOK
    <3> QED BY <1>0, <2>2, <2>4, <3>1, <3>2 DEF SemaphoreInv
  <2> QED BY <1>0, <2>3, <2>4
<1>6. KilledInv'
  BY <1>0 DEF TypeOK, KilledInv
<1> QED BY <1>1, <1>2, <1>3, <1>4, <1>5, <1>6

LEMMA TryLogStep ==
    ASSUME OpInv, NEW r \in Req, TryLog(r)
    PROVE  OpInv'
<1> USE DEF OpInv
<1>1. TypeOK'
  BY LogStartType DEF TryLog, Goto, TypeOK, Labels
<1>2. ControlInv'
  BY <1>1 DEF TryLog, Goto, TypeOK, ControlInv, Registered
<1>3. PermitInv'
  BY <1>1 DEF TryLog, Goto, TypeOK, ControlInv, Registered, PermitInv, Holds
<1>4. QueueInv'
  BY <1>1 DEF TryLog, Goto, TypeOK, QueueInv
<1>5. SemaphoreInv'
  BY <1>1 DEF TryLog, Goto, TypeOK, SemaphoreInv
<1>6. KilledInv'
  BY <1>1 DEF TryLog, Goto, LogStart, TypeOK, ControlInv, Registered, KilledInv
<1> QED BY <1>1, <1>2, <1>3, <1>4, <1>5, <1>6

LEMMA TryInsertStep ==
    ASSUME OpInv, NEW r \in Req, TryInsert(r)
    PROVE  OpInv'
<1> USE DEF OpInv
<1>1. TypeOK'
  BY DEF TryInsert, Goto, TypeOK, Labels
<1>2. ControlInv'
  <2>1. ~token[r] /\ pc[r] = "try_insert" /\ pc'[r] \in {"run", "reject"}
    BY DEF TryInsert, Goto, TypeOK, ControlInv, Registered
  <2>2. \A q \in Req \ {r} : pc'[q] = pc[q] /\ (q \in ops' <=> q \in ops)
    BY DEF TryInsert, Goto, TypeOK
  <2>3. UNCHANGED <<token, killing>> /\ (r \in ops' <=> pc'[r] = "run")
    BY <2>1 DEF TryInsert, Goto, TypeOK, ControlInv, Registered
  <2> QED BY <2>1, <2>2, <2>3 DEF ControlInv, Registered
<1>3. PermitInv'
  BY <1>1 DEF TryInsert, Goto, TypeOK, ControlInv, Registered, PermitInv, Holds
<1>4. QueueInv'
  BY <1>1 DEF TryInsert, Goto, TypeOK, QueueInv
<1>5. SemaphoreInv'
  BY <1>1 DEF TryInsert, Goto, TypeOK, SemaphoreInv
<1>6. KilledInv'
  BY <1>1 DEF TryInsert, Goto, TypeOK, ControlInv, Registered, KilledInv
<1> QED BY <1>1, <1>2, <1>3, <1>4, <1>5, <1>6

LEMMA LogRejectStep ==
    ASSUME OpInv, NEW r \in Req, LogReject(r)
    PROVE  OpInv'
<1> USE DEF OpInv
<1>1. TypeOK'
  BY LogEndType DEF LogReject, Goto, TypeOK, Labels
<1>2. ControlInv'
  BY <1>1 DEF LogReject, Goto, TypeOK, ControlInv, Registered
<1>3. PermitInv'
  BY <1>1 DEF LogReject, Goto, TypeOK, ControlInv, Registered, PermitInv, Holds
<1>4. QueueInv'
  BY <1>1 DEF LogReject, Goto, TypeOK, QueueInv
<1>5. SemaphoreInv'
  BY PermitsReturned DEF LogReject, TypeOK
<1>6. KilledInv'
  BY <1>1, LogEndType DEF LogReject, Goto, TypeOK, ControlInv, Registered, KilledInv
<1> QED BY <1>1, <1>2, <1>3, <1>4, <1>5, <1>6

LEMMA QueueLogStep ==
    ASSUME OpInv, NEW r \in Req, QueueLog(r)
    PROVE  OpInv'
<1> USE DEF OpInv
<1>1. TypeOK'
  BY LogStartType DEF QueueLog, Goto, TypeOK, Labels
<1>2. ControlInv'
  BY <1>1 DEF QueueLog, Goto, TypeOK, ControlInv, Registered
<1>3. PermitInv'
  BY <1>1 DEF QueueLog, Goto, TypeOK, ControlInv, Registered, PermitInv, Holds
<1>4. QueueInv'
  BY <1>1 DEF QueueLog, Goto, TypeOK, QueueInv
<1>5. SemaphoreInv'
  BY <1>1 DEF QueueLog, Goto, TypeOK, SemaphoreInv
<1>6. KilledInv'
  BY <1>1 DEF QueueLog, Goto, LogStart, TypeOK, ControlInv, Registered, KilledInv
<1> QED BY <1>1, <1>2, <1>3, <1>4, <1>5, <1>6

LEMMA QueueInsertStep ==
    ASSUME OpInv, NEW r \in Req, QueueInsert(r)
    PROVE  OpInv'
<1> USE DEF OpInv
<1>1. TypeOK'
  BY DEF QueueInsert, Goto, TypeOK, Labels
<1>2. ControlInv'
  BY <1>1 DEF QueueInsert, Goto, TypeOK, ControlInv, Registered
<1>3. PermitInv'
  BY <1>1 DEF QueueInsert, Goto, TypeOK, ControlInv, Registered, PermitInv, Holds
<1>4. QueueInv'
  BY <1>1 DEF QueueInsert, Goto, TypeOK, QueueInv
<1>5. SemaphoreInv'
  BY <1>1 DEF QueueInsert, Goto, TypeOK, SemaphoreInv
<1>6. KilledInv'
  BY <1>1 DEF QueueInsert, Goto, TypeOK, ControlInv, Registered, KilledInv
<1> QED BY <1>1, <1>2, <1>3, <1>4, <1>5, <1>6

LEMMA QueueCheckStep ==
    ASSUME OpInv, NEW r \in Req, QueueCheck(r)
    PROVE  OpInv'
<1> USE DEF OpInv
<1>1. TypeOK'
  BY DEF QueueCheck, Goto, TypeOK, Labels
<1>2. ControlInv'
  BY <1>1 DEF QueueCheck, Goto, TypeOK, ControlInv, Registered
<1>3. PermitInv'
  BY <1>1 DEF QueueCheck, Goto, TypeOK, ControlInv, Registered, PermitInv, Holds
<1>4. QueueInv'
  BY <1>1 DEF QueueCheck, Goto, TypeOK, QueueInv
<1>5. SemaphoreInv'
  BY PermitsReturned DEF QueueCheck, TypeOK
<1>6. KilledInv'
  BY <1>1 DEF QueueCheck, Goto, TypeOK, ControlInv, Registered, KilledInv
<1> QED BY <1>1, <1>2, <1>3, <1>4, <1>5, <1>6

LEMMA LogDoneStep ==
    ASSUME OpInv, NEW r \in Req, LogDone(r)
    PROVE  OpInv'
<1> USE DEF OpInv
<1>1. TypeOK'
  BY LogEndType DEF LogDone, Goto, TypeOK, Labels
<1>2. ControlInv'
  BY <1>1 DEF LogDone, Goto, TypeOK, ControlInv, Registered
<1>3. PermitInv'
  BY <1>1 DEF LogDone, Goto, TypeOK, ControlInv, Registered, PermitInv, Holds
<1>4. QueueInv'
  BY <1>1 DEF LogDone, Goto, TypeOK, QueueInv
<1>5. SemaphoreInv'
  BY <1>1 DEF LogDone, Goto, TypeOK, SemaphoreInv
<1>6. KilledInv'
  BY <1>1, LogEndType DEF LogDone, Goto, TypeOK, ControlInv, Registered, KilledInv
<1> QED BY <1>1, <1>2, <1>3, <1>4, <1>5, <1>6

LEMMA RemoveOpStep ==
    ASSUME OpInv, NEW r \in Req, RemoveOp(r)
    PROVE  OpInv'
<1> USE DEF OpInv
<1>1. TypeOK'
  BY DEF RemoveOp, Goto, TypeOK, Labels
<1>2. ControlInv'
  BY <1>1 DEF RemoveOp, Goto, TypeOK, ControlInv, Registered
<1>3. PermitInv'
  BY <1>1 DEF RemoveOp, Goto, TypeOK, ControlInv, Registered, PermitInv, Holds
<1>4. QueueInv'
  BY <1>1 DEF RemoveOp, Goto, TypeOK, QueueInv
<1>5. SemaphoreInv'
  BY PermitsReturned DEF RemoveOp, TypeOK
<1>6. KilledInv'
  BY <1>1 DEF RemoveOp, Goto, TypeOK, ControlInv, Registered, KilledInv
<1> QED BY <1>1, <1>2, <1>3, <1>4, <1>5, <1>6

LEMMA CancelledStep ==
    ASSUME OpInv, NEW r \in Req, Cancelled(r)
    PROVE  OpInv'
<1> USE DEF OpInv
<1>1. TypeOK'
  BY DEF Cancelled, Goto, TypeOK, Labels
<1>2. ControlInv'
  BY <1>1 DEF Cancelled, Goto, TypeOK, ControlInv, Registered
<1>3. PermitInv'
  BY <1>1 DEF Cancelled, Goto, TypeOK, ControlInv, Registered, PermitInv, Holds
<1>4. QueueInv'
  BY <1>1 DEF Cancelled, Goto, TypeOK, QueueInv
<1>5. SemaphoreInv'
  BY <1>1 DEF Cancelled, Goto, TypeOK, SemaphoreInv
<1>6. KilledInv'
  BY <1>1 DEF Cancelled, Goto, TypeOK, ControlInv, Registered, KilledInv
<1> QED BY <1>1, <1>2, <1>3, <1>4, <1>5, <1>6

(* The queue of a semaphore: a request joins at the end... *)
LEMMA QueueWaitStep ==
    ASSUME OpInv, NEW r \in Req, QueueWait(r)
    PROVE  OpInv'
<1> USE DEF OpInv
<1> DEFINE q == Append(waiters[sem], r)
<1>0. /\ waiters[sem] \in Seq(Req) /\ sem \in Sems
      /\ waiters' = [waiters EXCEPT ![sem] = q]
  BY DEF QueueWait, TypeOK
<1>q. /\ q \in Seq(Req) /\ Len(waiters[sem]) \in Nat
      /\ Len(q) = Len(waiters[sem]) + 1
      /\ \A i \in 1..Len(waiters[sem]) : q[i] = waiters[sem][i]
      /\ q[Len(q)] = r
  BY <1>0, AppendProperties
<1> HIDE DEF q
<1>1. TypeOK'
  BY <1>0, <1>q DEF QueueWait, Goto, TypeOK, Labels
<1>2. ControlInv'
  BY DEF QueueWait, Goto, TypeOK, ControlInv, Registered
<1>3. PermitInv'
  BY DEF QueueWait, Goto, TypeOK, ControlInv, Registered, PermitInv, Holds
<1>4. QueueInv'
  <2>1. /\ pc[r] = "q_wait" /\ pc'[r] = "q_waiting"
        /\ \A x \in Req \ {r} : pc'[x] = pc[x]
        /\ \A s \in Sems \ {sem} : waiters'[s] = waiters[s]
        /\ waiters'[sem] = q
    BY <1>0 DEF QueueWait, Goto, TypeOK
  <2>2. \A s \in Sems : \A i \in 1..Len(waiters[s]) : waiters[s][i] \in Req \ {r}
    BY <2>1 DEF QueueInv, TypeOK
  <2>3. \A s \in Sems : \A i \in 1..Len(waiters'[s]) :
           \/ waiters'[s][i] = r /\ s = sem /\ i = Len(q)
           \/ i \in 1..Len(waiters[s]) /\ waiters'[s][i] = waiters[s][i]
    BY <1>q, <2>1
  <2>4. \A s \in Sems : \A i \in 1..Len(waiters'[s]) : pc'[waiters'[s][i]] = "q_waiting"
    BY <2>1, <2>2, <2>3 DEF QueueInv
  <2>5. ASSUME NEW s \in Sems, NEW u \in Sems, NEW i \in 1..Len(waiters'[s]),
               NEW j \in 1..Len(waiters'[u]), waiters'[s][i] = waiters'[u][j]
        PROVE  s = u /\ i = j
    BY <2>2, <2>3, <2>5 DEF QueueInv
  <2> QED BY <2>4, <2>5 DEF QueueInv
<1>5. SemaphoreInv'
  <2>1. \A s \in Sems : waiters'[s] # <<>> => s <= sem
    BY <1>0 DEF TypeOK, SemaphoreInv, Sems
  <2> QED BY <2>1 DEF QueueWait, SemaphoreInv
<1>6. KilledInv'
  BY DEF QueueWait, KilledInv
<1> QED BY <1>1, <1>2, <1>3, <1>4, <1>5, <1>6

(* ...its head is handed a permit... *)
LEMMA GrantStep ==
    ASSUME OpInv, NEW s \in Sems, Grant(s)
    PROVE  OpInv'
<1> USE DEF OpInv
<1> DEFINE q == waiters[s]
           r == Head(q)
<1>0. /\ q \in Seq(Req) /\ q # <<>> /\ Free(s) > 0
      /\ permit' = [permit EXCEPT ![r] = s]
      /\ pc' = [pc EXCEPT ![r] = "q_check"]
      /\ waiters' = [waiters EXCEPT ![s] = Tail(q)]
      /\ UNCHANGED <<name, ring, status, ops, token, sem, par, killing, kills>>
  BY DEF Grant, Goto, TypeOK
<1>q. /\ r \in Req /\ r = q[1] /\ Len(q) \in Nat \ {0}
      /\ Tail(q) \in Seq(Req) /\ Len(Tail(q)) = Len(q) - 1
      /\ \A i \in 1..(Len(q) - 1) : Tail(q)[i] = q[i + 1]
  <2>1. Len(q) \in Nat /\ Len(q) # 0
    BY <1>0, EmptySeq
  <2> QED BY <1>0, <2>1, HeadTailProperties
<1> DEFINE t == Tail(q)
<1> HIDE DEF q, r, t
<1>p. pc[r] = "q_waiting" /\ permit[r] = 0
  <2>1. pc[r] = "q_waiting"
    BY <1>q DEF QueueInv, q
  <2> QED BY <2>1, <1>q DEF PermitInv, Holds, TypeOK
<1>s. \A u \in Sems : u # 0 /\ u \in Nat
  BY OpAssumption DEF Sems
<1>1. TypeOK'
  BY <1>0, <1>q DEF TypeOK, Labels
<1>2. ControlInv'
  BY <1>0, <1>q, <1>p DEF TypeOK, ControlInv, Registered
<1>3. PermitInv'
  BY <1>0, <1>q, <1>p, <1>s DEF TypeOK, ControlInv, Registered, PermitInv, Holds
<1>4. QueueInv'
  <2>1. /\ \A x \in Req \ {r} : pc'[x] = pc[x]
        /\ \A u \in Sems \ {s} : waiters'[u] = waiters[u]
        /\ waiters'[s] = t
    BY <1>0, <1>q DEF TypeOK, t
  <2>2. \A u \in Sems : \A i \in 1..Len(waiters'[u]) :
           \E j \in 1..Len(waiters[u]) :
              /\ waiters'[u][i] = waiters[u][j]
              /\ j = (IF u = s THEN i + 1 ELSE i)
    <3> SUFFICES ASSUME NEW u \in Sems, NEW i \in 1..Len(waiters'[u])
                 PROVE  \E j \in 1..Len(waiters[u]) :
                           /\ waiters'[u][i] = waiters[u][j]
                           /\ j = (IF u = s THEN i + 1 ELSE i)
      OBVIOUS
    <3>1. CASE u # s
      BY <2>1, <3>1
    <3>2. CASE u = s
      <4>1. i \in 1..Len(t) /\ waiters'[u][i] = t[i] /\ waiters[u] = q
        BY <2>1, <3>2 DEF q
      <4>2. i \in 1..(Len(q) - 1) /\ t[i] = q[i + 1]
        BY <4>1, <1>q DEF t
      <4>3. i + 1 \in 1..Len(q)
        BY <4>2, <1>q
      <4> QED BY <4>1, <4>2, <4>3, <3>2
    <3> QED BY <3>1, <3>2
  <2>3. \A u \in Sems : \A j \in 1..Len(waiters[u]) :
           /\ waiters[u][j] \in Req /\ pc[waiters[u][j]] = "q_waiting"
           /\ waiters[u][j] = r => u = s /\ j = 1
    <3>1. q = waiters[s] /\ 1 \in 1..Len(waiters[s]) /\ waiters[s][1] = r
      BY <1>q DEF q
    <3> QED BY <3>1 DEF QueueInv, TypeOK
  <2>4. \A u \in Sems : \A i \in 1..Len(waiters'[u]) : pc'[waiters'[u][i]] = "q_waiting"
    <3> SUFFICES ASSUME NEW u \in Sems, NEW i \in 1..Len(waiters'[u])
                 PROVE  pc'[waiters'[u][i]] = "q_waiting"
      OBVIOUS
    <3>1. PICK j \in 1..Len(waiters[u]) :
              waiters'[u][i] = waiters[u][j] /\ j = (IF u = s THEN i + 1 ELSE i)
      BY <2>2
    <3>2. waiters[u][j] # r
      BY <3>1, <2>3
    <3> QED BY <2>1, <2>3, <3>1, <3>2
  <2>5. ASSUME NEW u \in Sems, NEW v \in Sems, NEW i \in 1..Len(waiters'[u]),
               NEW j \in 1..Len(waiters'[v]), waiters'[u][i] = waiters'[v][j]
        PROVE  u = v /\ i = j
    <3>1. PICK k \in 1..Len(waiters[u]) :
              waiters'[u][i] = waiters[u][k] /\ k = (IF u = s THEN i + 1 ELSE i)
      BY <2>2
    <3>2. PICK l \in 1..Len(waiters[v]) :
              waiters'[v][j] = waiters[v][l] /\ l = (IF v = s THEN j + 1 ELSE j)
      BY <2>2
    <3>3. u = v /\ k = l
      BY <3>1, <3>2, <2>5 DEF QueueInv
    <3> QED BY <3>1, <3>2, <3>3
  <2> QED BY <2>4, <2>5 DEF QueueInv
<1>5. SemaphoreInv'
  <2>1. ~par[s] => \A x \in Req : permit[x] # s
    BY <1>0, FreeMeansUnheld
  <2>2. s <= sem /\ \A u \in Sems : waiters'[u] # <<>> => u <= sem
    BY <1>0 DEF SemaphoreInv, TypeOK, q
  <2>3. \A x \in Req : permit'[x] = IF x = r THEN s ELSE permit[x]
    BY <1>0 DEF TypeOK
  <2>4. ASSUME NEW u \in Sems, ~par[u], NEW x \in Req, NEW y \in Req,
               permit'[x] = u, permit'[y] = u
        PROVE  x = y
    BY <2>1, <2>3, <2>4 DEF SemaphoreInv
  <2> QED BY <1>0, <2>2, <2>3, <2>4 DEF SemaphoreInv
<1>6. KilledInv'
  BY <1>0 DEF KilledInv
<1> QED BY <1>1, <1>2, <1>3, <1>4, <1>5, <1>6

(* ...and a cancelled one leaves from wherever it stands. *)
LEMMA QueueKilledStep ==
    ASSUME OpInv, NEW r \in Req, QueueKilled(r)
    PROVE  OpInv'
<1> USE DEF OpInv
<1>s. PICK s \in Sems : \E i \in 1..Len(waiters[s]) :
          /\ waiters[s][i] = r
          /\ waiters' = [waiters EXCEPT ![s] = Without(waiters[s], i)]
  BY DEF QueueKilled
<1>0. PICK i \in 1..Len(waiters[s]) :
          /\ waiters[s][i] = r
          /\ waiters' = [waiters EXCEPT ![s] = Without(waiters[s], i)]
  BY <1>s
<1> DEFINE q == waiters[s]
           t == Without(q, i)
<1>q. /\ q \in Seq(Req) /\ Len(q) \in Nat
      /\ t \in Seq(Req) /\ Len(t) = Len(q) - 1
      /\ \A j \in 1..(Len(q) - 1) : t[j] = IF j < i THEN q[j] ELSE q[j + 1]
  <2>1. q \in Seq(Req) /\ Len(q) \in Nat
    BY DEF TypeOK
  <2> QED BY <2>1, WithoutProperties
<1>a. /\ pc[r] = "q_waiting" /\ token[r]
      /\ ops' = ops \ {r} /\ pc' = [pc EXCEPT ![r] = "end"]
      /\ waiters' = [waiters EXCEPT ![s] = t]
      /\ UNCHANGED <<name, ring, status, permit, token, sem, par, killing, kills>>
  BY <1>0 DEF QueueKilled, Goto
<1> HIDE DEF q, t
<1>p. permit[r] = 0
  BY <1>a DEF PermitInv, Holds
<1>1. TypeOK'
  BY <1>a, <1>q DEF TypeOK, Labels
<1>2. ControlInv'
  BY <1>a DEF TypeOK, ControlInv, Registered
<1>3. PermitInv'
  BY <1>a, <1>p DEF TypeOK, PermitInv, Holds
<1>4. QueueInv'
  <2>1. /\ \A x \in Req \ {r} : pc'[x] = pc[x]
        /\ \A u \in Sems \ {s} : waiters'[u] = waiters[u]
        /\ waiters'[s] = t
    BY <1>a DEF TypeOK
  <2> DEFINE old(u, k) == IF u = s /\ k >= i THEN k + 1 ELSE k
  <2>2. \A u \in Sems : \A k \in 1..Len(waiters'[u]) :
           /\ old(u, k) \in 1..Len(waiters[u])
           /\ waiters'[u][k] = waiters[u][old(u, k)]
           /\ ~(u = s /\ old(u, k) = i)
    <3> SUFFICES ASSUME NEW u \in Sems, NEW k \in 1..Len(waiters'[u])
                 PROVE  /\ old(u, k) \in 1..Len(waiters[u])
                        /\ waiters'[u][k] = waiters[u][old(u, k)]
                        /\ ~(u = s /\ old(u, k) = i)
      OBVIOUS
    <3>1. CASE u # s
      BY <2>1, <3>1
    <3>2. CASE u = s
      <4>1. k \in 1..Len(t) /\ waiters'[u] = t /\ waiters[u] = q
        BY <2>1, <3>2 DEF q
      <4>2. k \in 1..(Len(q) - 1) /\ t[k] = IF k < i THEN q[k] ELSE q[k + 1]
        BY <4>1, <1>q
      <4> QED BY <4>1, <4>2, <1>q, <3>2
    <3> QED BY <3>1, <3>2
  <2>3. \A u \in Sems : \A j \in 1..Len(waiters[u]) :
           /\ waiters[u][j] \in Req /\ pc[waiters[u][j]] = "q_waiting"
           /\ waiters[u][j] = r => u = s /\ j = i
    BY <1>0 DEF QueueInv, TypeOK
  <2>4. ASSUME NEW u \in Sems, NEW k \in 1..Len(waiters'[u])
        PROVE  pc'[waiters'[u][k]] = "q_waiting"
    <3> HIDE DEF old
    <3>1. old(u, k) \in 1..Len(waiters[u]) /\ waiters'[u][k] = waiters[u][old(u, k)]
      BY <2>2
    <3>2. waiters[u][old(u, k)] # r
      BY <2>2, <2>3
    <3> QED BY <2>1, <2>3, <3>1, <3>2
  <2>5. ASSUME NEW u \in Sems, NEW v \in Sems, NEW k \in 1..Len(waiters'[u]),
               NEW l \in 1..Len(waiters'[v]), waiters'[u][k] = waiters'[v][l]
        PROVE  u = v /\ k = l
    <3>1. u = v /\ old(u, k) = old(v, l)
      <4> HIDE DEF old
      <4>1. waiters[u][old(u, k)] = waiters[v][old(v, l)]
        BY <2>2, <2>5
      <4> QED BY <4>1, <2>2 DEF QueueInv
    <3> QED BY <3>1, <1>q, <2>1
  <2> QED BY <2>4, <2>5 DEF QueueInv
<1>5. SemaphoreInv'
  <2>1. \A u \in Sems : waiters'[u] # <<>> => u <= sem
    <3>1. s <= sem
      BY <1>0 DEF SemaphoreInv, TypeOK
    <3> QED BY <1>a, <3>1 DEF SemaphoreInv, TypeOK
  <2> QED BY <1>a, <2>1 DEF SemaphoreInv
<1>6. KilledInv'
  BY <1>a DEF KilledInv
<1> QED BY <1>1, <1>2, <1>3, <1>4, <1>5, <1>6

(* A kill takes its entries with their permits, and drops both when the    *)
(* action log has been told.                                               *)
LEMMA KillTakeStep ==
    ASSUME OpInv, NEW R \in SUBSET ops, KillTake(R)
    PROVE  OpInv'
<1> USE DEF OpInv
<1>1. TypeOK'
  <2>1. kills' \in 0..MaxKills
    BY OpAssumption DEF KillTake, TypeOK
  <2> QED BY <2>1 DEF KillTake, TypeOK
<1>2. ControlInv'
  <2>1. UNCHANGED <<pc, token>> /\ killing' = R /\ ops' = ops \ R /\ killing = {}
    BY DEF KillTake
  <2> QED BY <2>1 DEF ControlInv, Registered
<1>3. PermitInv'
  <2>1. UNCHANGED <<pc, permit>> /\ killing' = R /\ ops' = ops \ R /\ killing = {}
    BY DEF KillTake
  <2> QED BY <2>1 DEF PermitInv, Holds
<1>4. QueueInv'
  BY DEF KillTake, QueueInv
<1>5. SemaphoreInv'
  BY DEF KillTake, SemaphoreInv
<1>6. KilledInv'
  BY DEF KillTake, KilledInv
<1> QED BY <1>1, <1>2, <1>3, <1>4, <1>5, <1>6

LEMMA KillCancelStep ==
    ASSUME OpInv, NEW r \in Req, KillCancel(r)
    PROVE  OpInv'
<1> USE DEF OpInv
<1>1. TypeOK'
  BY DEF KillCancel, TypeOK
<1>2. ControlInv'
  BY DEF KillCancel, TypeOK, ControlInv, Registered
<1>3. PermitInv'
  BY DEF KillCancel, PermitInv, Holds
<1>4. QueueInv'
  BY DEF KillCancel, QueueInv
<1>5. SemaphoreInv'
  BY DEF KillCancel, SemaphoreInv
<1>6. KilledInv'
  BY DEF KillCancel, TypeOK, KilledInv
<1> QED BY <1>1, <1>2, <1>3, <1>4, <1>5, <1>6

LEMMA KillLogStep ==
    ASSUME OpInv, KillLog
    PROVE  OpInv'
<1> USE DEF OpInv
<1>a. /\ UNCHANGED <<pc, name, ring, ops, token, sem, par, waiters, kills>>
      /\ killing' = {}
  BY DEF KillLog, LogKill
<1>p. \A r \in Req : permit'[r] = IF r \in killing /\ pc[r] # "q_check" THEN 0 ELSE permit[r]
  BY DEF KillLog
<1>k. \A r \in Req : status'[r] = "killed" => status[r] = "killed" \/ r \in killing
  BY DEF KillLog, LogKill
<1>t. \A r \in killing : token[r]
  BY DEF KillLog
<1>1. TypeOK'
  <2>1. status' \in [Req -> Terminal \cup {"none", "running"}]
    BY DEF KillLog, LogKill, Terminal, TypeOK
  <2>2. permit' \in [Req -> Sems \cup {0}]
    BY DEF KillLog, TypeOK
  <2> QED BY <1>a, <2>1, <2>2 DEF TypeOK
<1>2. ControlInv'
  BY <1>a, <1>t DEF ControlInv
<1>3. PermitInv'
  <2> SUFFICES ASSUME NEW r \in Req
               PROVE  /\ permit'[r] # 0 => Holds(r)'
                      /\ pc'[r] \in {"try_log", "try_insert", "q_check"} => permit'[r] # 0
                      /\ pc'[r] = "run" /\ (r \in ops' \/ r \in killing') => permit'[r] # 0
    BY DEF PermitInv
  <2>1. CASE r \in killing
    <3>1. r \notin ops /\ pc[r] \in Registered \cup {"end"}
      BY <2>1 DEF ControlInv
    <3> QED BY <1>a, <1>p, <2>1, <3>1 DEF PermitInv, Holds, Registered
  <2>2. CASE r \notin killing
    BY <1>a, <1>p, <2>2 DEF PermitInv, Holds
  <2> QED BY <2>1, <2>2
<1>4. QueueInv'
  BY <1>a DEF QueueInv
<1>5. SemaphoreInv'
  BY <1>a, <1>p, PermitsReturned
<1>6. KilledInv'
  BY <1>a, <1>k, <1>t DEF KilledInv
<1> QED BY <1>1, <1>2, <1>3, <1>4, <1>5, <1>6

(* A reload hands out a semaphore nobody holds or waits for. *)
LEMMA ReloadStep ==
    ASSUME OpInv, Reload
    PROVE  OpInv'
<1> USE DEF OpInv
<1>a. /\ UNCHANGED <<pc, name, ring, status, ops, permit, token, waiters, killing, kills>>
      /\ sem' = sem + 1 /\ par' = [par EXCEPT ![sem + 1] = ~par[sem]]
  BY DEF Reload
<1>s. sem \in Nat /\ sem' \in Sems /\ \A s \in Sems : s \in Nat \ {0}
  BY <1>a, OpAssumption DEF Reload, Sems, TypeOK
<1>1. TypeOK'
  BY <1>a, <1>s DEF TypeOK
<1>2. ControlInv'
  BY <1>a DEF ControlInv
<1>3. PermitInv'
  BY <1>a DEF PermitInv, Holds
<1>4. QueueInv'
  BY <1>a DEF QueueInv
<1>5. SemaphoreInv'
  <2>1. \A r \in Req : permit[r] \in Nat /\ permit[r] <= sem
    <3>1. \A r \in Req : permit[r] \in Sems \/ permit[r] = 0
      BY DEF TypeOK
    <3> QED BY <1>s, <3>1 DEF SemaphoreInv
  <2>2. \A s \in Sems : s # sem + 1 => par'[s] = par[s]
    BY <1>a DEF TypeOK
  <2>3. \A r \in Req : permit'[r] # sem + 1 /\ permit'[r] <= sem'
    BY <1>a, <1>s, <2>1
  <2>4. \A s \in Sems : waiters'[s] # <<>> => s <= sem'
    BY <1>a, <1>s DEF SemaphoreInv
  <2> QED BY <1>a, <2>2, <2>3, <2>4 DEF SemaphoreInv
<1>6. KilledInv'
  BY <1>a DEF KilledInv
<1> QED BY <1>1, <1>2, <1>3, <1>4, <1>5, <1>6

-----------------------------------------------------------------------------
(* The invariant, and what follows from it *)

LEMMA OpInvInit == Init => OpInv
<1> SUFFICES ASSUME Init PROVE OpInv
  OBVIOUS
<1>s. 1 \in Sems /\ \A s \in Sems : s # 0
  BY OpAssumption DEF Sems
<1>1. TypeOK
  <2>1. par \in [Sems -> BOOLEAN]
    BY OpAssumption DEF Init
  <2>2. <<>> \in Seq(Req) /\ Len(<<>>) = 0
    OBVIOUS
  <2>3. ring \in Seq(Req) /\ Len(ring) <= Capacity /\ waiters \in [Sems -> Seq(Req)]
    BY <2>2, OpAssumption DEF Init
  <2>4. kills \in 0..MaxKills
    BY OpAssumption DEF Init
  <2>5. name \in [Req -> Name \cup {NoName}]
    BY OpAssumption DEF Init
  <2> QED BY <1>s, <2>1, <2>3, <2>4, <2>5 DEF Init, TypeOK, Labels
<1>2. ControlInv /\ PermitInv /\ KilledInv
  BY DEF Init, ControlInv, PermitInv, KilledInv, Registered
<1>3. QueueInv
  <2>1. \A s \in Sems : waiters[s] = <<>> /\ Len(waiters[s]) = 0
    BY DEF Init
  <2> QED BY <2>1 DEF QueueInv
<1>4. SemaphoreInv
  BY <1>s DEF Init, SemaphoreInv
<1> QED BY <1>1, <1>2, <1>3, <1>4 DEF OpInv

LEMMA OpInvStep == OpInv /\ [Next]_vars => OpInv'
<1> SUFFICES ASSUME OpInv, [Next]_vars PROVE OpInv'
  OBVIOUS
<1>1. CASE \E r \in Req : TryPermit(r) \/ QueueLog(r) \/ Step(r)
  <2>1. PICK r \in Req : TryPermit(r) \/ QueueLog(r) \/ Step(r)
    BY <1>1
  <2>2. CASE TryPermit(r) \/ QueueLog(r)
    BY <2>2, TryPermitStep, QueueLogStep
  <2>3. CASE Step(r)
    BY <2>3, TryLogStep, TryInsertStep, LogRejectStep, QueueInsertStep, QueueWaitStep,
       QueueKilledStep, QueueCheckStep, LogDoneStep, RemoveOpStep, CancelledStep DEF Step
  <2> QED BY <2>1, <2>2, <2>3
<1>2. CASE \E s \in Sems : Grant(s)
  BY <1>2, GrantStep
<1>3. CASE \E R \in SUBSET ops : KillTake(R)
  BY <1>3, KillTakeStep
<1>7. CASE \E r \in Req : KillCancel(r)
  BY <1>7, KillCancelStep
<1>4. CASE KillLog
  BY <1>4, KillLogStep
<1>5. CASE Reload
  BY <1>5, ReloadStep
<1>6. CASE UNCHANGED vars
  BY <1>6 DEF vars, OpInv, TypeOK, ControlInv, PermitInv, Holds, QueueInv, SemaphoreInv, KilledInv
<1> QED BY <1>1, <1>2, <1>3, <1>4, <1>5, <1>6, <1>7 DEF Next, KillTask

LEMMA OpInvHolds == Spec => []OpInv
  BY OpInvInit, OpInvStep, PTL DEF Spec

(* Type correctness: the action log never outgrows its capacity, whatever  *)
(* order requests, kills and reloads come in.                              *)
THEOREM TypeCorrect == Spec => []TypeOK
<1>1. OpInv => TypeOK
  BY DEF OpInv
<1> QED BY <1>1, OpInvHolds, PTL

(* No way of ending -- rejected, finished, cancelled in the queue or while *)
(* running, killed between its grant and its check -- leaves a permit or   *)
(* an entry of running_ops behind.                                         *)
THEOREM NoLeak == Spec => []NothingLeaks
<1>1. OpInv => NothingLeaks
  <2> SUFFICES ASSUME OpInv, \A r \in Req : pc[r] \in {"new", "end"}, killing = {}
               PROVE  ops = {} /\ \A r \in Req : permit[r] = 0
    BY DEF NothingLeaks
  <2>1. \A r \in Req : r \notin ops
    BY DEF OpInv, ControlInv, Registered
  <2>2. \A r \in Req : permit[r] = 0
    BY DEF OpInv, PermitInv, Holds
  <2> QED BY <2>1, <2>2 DEF OpInv, TypeOK
<1> QED BY <1>1, OpInvHolds, PTL

(* In serial mode operations run one at a time from the moment the permits *)
(* of replaced semaphores have come back -- always, when no reload has     *)
(* replaced one -- however requests queue, are refused or killed.          *)
THEOREM Serial == Spec => []((\A r \in Req : permit[r] \in {0, sem}) => Serialized)
<1>1. OpInv => ((\A r \in Req : permit[r] \in {0, sem}) => Serialized)
  <2> SUFFICES ASSUME OpInv, \A r \in Req : permit[r] \in {0, sem}, ~par[sem],
                      NEW q \in Req, NEW r \in Req,
                      pc[q] = "run", pc[r] = "run", ~token[q], ~token[r]
               PROVE  q = r
    BY DEF Serialized
  <2>1. permit[q] = sem /\ permit[r] = sem
    BY DEF OpInv, ControlInv, PermitInv
  <2> QED BY <2>1 DEF OpInv, TypeOK, SemaphoreInv
<1> QED BY <1>1, OpInvHolds, PTL

(* Before the first reload that is every state. *)
THEOREM SerialBeforeReload == Spec => [](sem = 1 => Serialized)
<1>1. OpInv /\ sem = 1 => \A r \in Req : permit[r] \in {0, sem}
  <2> SUFFICES ASSUME OpInv, sem = 1, NEW r \in Req PROVE permit[r] \in {0, sem}
    OBVIOUS
  <2>1. permit[r] \in Nat
    BY OpAssumption DEF OpInv, TypeOK, Sems
  <2>2. permit[r] <= 1
    BY DEF OpInv, SemaphoreInv
  <2> QED BY <2>1, <2>2
<1> QED BY <1>1, OpInvHolds, Serial, PTL

(* No two operations on one backup run side by side, in any mode and       *)
(* across kills and reloads: the check for a conflict and the step into    *)
(* "running" are one critical section of running_ops' mutex.               *)
THEOREM OneOpPerName == Spec => []NameExclusion
<1>1. Init => NameExclusion
  BY DEF Init, NameExclusion
<1>2. ASSUME OpInv, NameExclusion, [Next]_vars
      PROVE  NameExclusion'
  <2>1. \A r \in Req : pc[r] = "run" /\ ~token[r] /\ r \notin killing => r \in ops
    BY <1>2 DEF OpInv, ControlInv
  <2>2. UNCHANGED name /\ \A r \in Req : token[r] \/ r \in killing => token'[r] \/ r \in killing'
    BY <1>2 DEF OpInv, TypeOK, Next, vars, Step, TryPermit, QueueLog, TryLog, TryInsert, LogReject,
       QueueInsert, QueueWait, QueueKilled, QueueCheck, LogDone, RemoveOp, Cancelled, Grant, KillTake, KillCancel,
       KillLog, KillTask, Reload
  <2>3. CASE \A r \in Req : pc'[r] = "run" => pc[r] = "run"
    BY <1>2, <2>2, <2>3 DEF NameExclusion
  <2>4. CASE \E r \in Req : TryInsert(r) \/ QueueCheck(r)
    <3>1. PICK r \in Req : TryInsert(r) \/ QueueCheck(r)
      BY <2>4
    <3>2. \A q \in Req \ {r} : pc'[q] = pc[q]
      BY <1>2, <3>1 DEF TryInsert, QueueCheck, Goto, OpInv, TypeOK
    <3>3. pc'[r] = "run" => ~Conflict(r)
      BY <1>2, <3>1 DEF TryInsert, QueueCheck, Goto, OpInv, TypeOK
    <3>4. pc'[r] = "run" => \A q \in Req \ {r} :
              pc[q] = "run" /\ ~token[q] /\ q \notin killing /\ name[q] = name[r] => name[r] = NoName
      BY <2>1, <3>3 DEF Conflict
    <3> QED BY <1>2, <2>2, <3>2, <3>4 DEF NameExclusion
  <2>5. CASE \E r \in Req : \/ TryPermit(r) \/ QueueLog(r) \/ TryLog(r) \/ LogReject(r)
                            \/ QueueInsert(r) \/ QueueWait(r) \/ QueueKilled(r)
                            \/ LogDone(r) \/ RemoveOp(r) \/ Cancelled(r)
    <3>1. PICK r \in Req, l \in Labels \ {"run"} : pc' = [pc EXCEPT ![r] = l]
      BY <2>5 DEF TryPermit, QueueLog, TryLog, LogReject, QueueInsert, QueueWait, QueueKilled,
         LogDone, RemoveOp, Cancelled, Goto, Labels
    <3>2. \A q \in Req : pc'[q] = "run" => pc[q] = "run"
      BY <1>2, <3>1 DEF OpInv, TypeOK
    <3> QED BY <2>3, <3>2
  <2>6. CASE \E s \in Sems : Grant(s)
    <3>1. PICK r : pc' = [pc EXCEPT ![r] = "q_check"]
      BY <2>6 DEF Grant, Goto
    <3>2. \A q \in Req : pc'[q] = "run" => pc[q] = "run"
      BY <1>2, <3>1 DEF OpInv, TypeOK
    <3> QED BY <2>3, <3>2
  <2>7. CASE UNCHANGED pc
    BY <2>3, <2>7
  <2> QED BY <1>2, <2>4, <2>5, <2>6, <2>7 DEF Next, Step, KillTake, KillCancel, KillLog, KillTask,
          Reload, vars
<1> QED BY <1>1, <1>2, OpInvHolds, PTL DEF Spec

(* "cannot overwrite a Killed status" (ActionLog): the tasks that ignore   *)
(* their token and finish or fail later do not bring an entry back, nor    *)
(* does a start, since a killed request was registered before it was       *)
(* killed and is not registered twice.                                     *)
THEOREM KilledStays == Spec => KilledIsFinal
<1>1. ASSUME OpInv, [Next]_vars, NEW r \in Req, status[r] = "killed"
      PROVE  status'[r] = "killed"
  <2>1. token[r] /\ pc[r] \in Registered \cup {"end"}
    BY <1>1 DEF OpInv, KilledInv, ControlInv
  <2>2. CASE \E q \in Req : TryLog(q) \/ QueueLog(q)
    <3>1. PICK q \in Req : TryLog(q) \/ QueueLog(q)
      BY <2>2
    <3>2. q # r
      BY <2>1, <3>1 DEF TryLog, QueueLog, Registered
    <3> QED BY <1>1, <3>1, <3>2 DEF TryLog, QueueLog, LogStart, OpInv, TypeOK
  <2>3. CASE \E q \in Req : LogReject(q) \/ LogDone(q)
    BY <1>1, <2>3 DEF LogReject, LogDone, LogEnd, OpInv, TypeOK
  <2>4. CASE KillLog
    BY <1>1, <2>4 DEF KillLog, LogKill
  <2>5. CASE UNCHANGED status
    BY <1>1, <2>5
  <2> QED BY <1>1, <2>2, <2>3, <2>4, <2>5 DEF Next, Step, vars, TryPermit, TryInsert, QueueInsert,
          QueueWait, QueueKilled, QueueCheck, RemoveOp, Cancelled, Grant, KillTake, KillCancel, KillTask, Reload
<1>2. OpInv /\ [Next]_vars =>
         [\A r \in Req : status[r] = "killed" => status'[r] = "killed"]_vars
  BY <1>1
<1> QED BY <1>2, OpInvHolds, PTL DEF KilledIsFinal, Spec

-----------------------------------------------------------------------------
(* The watch loop *)

(* What holds of each loop, given the age f of the newest full backup: a   *)
(* loop with errors will make a full backup next; one that is past the     *)
(* check of the limit is below it; one that is to make an incremental has  *)
(* a recent full backup; and one that sleeps without errors wakes up       *)
(* before that backup is too old.                                          *)
LoopOK(r, f) ==
    /\ r \in LoopState
    /\ r.errors > 0 => r.force
    /\ r.pc \in {"lock", "create", "upload", "clean"} /\ r.force => r.type = "full"
    /\ r.pc \in {"list", "lock", "create", "upload", "clean"} /\ r.limit > 0 => r.errors < r.limit
    /\ r.pc = "clean" \/ (r.pc \in {"lock", "create", "upload"} /\ r.type = "incr") =>
           f = NoBackup \/ f < full_interval
    /\ r.pc = "sleep" /\ r.errors = 0 =>
           /\ r.wake <= watch_interval
           /\ f # NoBackup => f + r.wake < full_interval + watch_interval

LoopsInv == \A l \in Loop : LoopOK(loop[l], full)

BackupsInv == full # NoBackup => last # NoBackup

(* The slot is held by one loop or by one watch_start, never by two. *)
Starting(s) == start[s] \in {"reserved", "installed"}

SlotInv ==
    /\ \A l \in Loop : Running(l) => active /\ tx = l
    /\ \A s \in Start : Starting(s) => active
    /\ \A s \in Start : start[s] = "installed" => tx = s
    /\ \A l \in Loop, s \in Start : ~(Running(l) /\ Starting(s))
    /\ \A s, u \in Start : Starting(s) /\ Starting(u) => s = u

WatchInv == WatchTypeOK /\ LoopsInv /\ BackupsInv /\ SlotInv

-----------------------------------------------------------------------------
(* Steps of one loop *)

(* The record of a loop after handle_error. *)
Failed(r) == [r EXCEPT !.pc = "sleep", !.wake = retry_interval, !.force = TRUE,
                       !.errors = IF @ < ErrorCap THEN @ + 1 ELSE @]

LEMMA FailedOK ==
    ASSUME NEW f, NEW r, LoopOK(r, f)
    PROVE  LoopOK(Failed(r), f) /\ Failed(r).pc = "sleep"
<1> DEFINE W == (0..watch_interval) \cup (0..retry_interval)
           e == IF r.errors < ErrorCap THEN r.errors + 1 ELSE r.errors
<1>1. retry_interval \in W /\ r \in LoopState
  BY WatchAssumption DEF LoopOK
<1>2. e \in 0..ErrorCap /\ e > 0
  BY <1>1, WatchAssumption DEF LoopState
<1>3. Failed(r) = [r EXCEPT !.pc = "sleep", !.wake = retry_interval, !.force = TRUE, !.errors = e]
  BY DEF Failed
<1>4. /\ Failed(r) \in LoopState /\ Failed(r).pc = "sleep" /\ Failed(r).force = TRUE
      /\ Failed(r).errors = e
  <2> HIDE DEF e
  <2> QED BY <1>1, <1>2, <1>3 DEF LoopState
<1> QED BY <1>2, <1>4 DEF LoopOK

(* A newer full backup, or none in the bucket, suits every loop. *)
LEMMA RenewedOK ==
    ASSUME NEW f \in Ages, NEW g \in {f, 0, NoBackup}, NEW r, LoopOK(r, f)
    PROVE  LoopOK(r, g)
<1>1. CASE g = f
  BY <1>1
<1>2. CASE g = NoBackup
  BY <1>2 DEF LoopOK
<1>3. CASE g = 0
  <2>1. r.wake \in Nat
    BY WatchAssumption DEF LoopOK, LoopState
  <2> QED BY <1>3, <2>1, WatchAssumption DEF LoopOK
<1> QED BY <1>1, <1>2, <1>3

(* A step of the loop's body: the loop goes on running, in good order. *)
Goes(l, f) ==
    \E r \in LoopState : Set(l, r) /\ LoopOK(r, f) /\ r.pc \notin {"unborn", "done"}

LEMMA HandleErrorGoes ==
    ASSUME WatchInv, NEW l \in Loop, handle_error(l), full' \in {full, 0, NoBackup}
    PROVE  Goes(l, full')
<1>1. LoopOK(loop[l], full) /\ full \in Ages
  BY DEF WatchInv, LoopsInv, WatchTypeOK
<1>2. LoopOK(loop[l], full')
  BY <1>1, RenewedOK
<1>3. LoopOK(Failed(loop[l]), full') /\ Failed(loop[l]).pc = "sleep"
  BY <1>2, FailedOK
<1>4. Set(l, Failed(loop[l]))
  BY DEF handle_error, Failed
<1>5. Failed(loop[l]) \in LoopState
  BY <1>3 DEF LoopOK
<1> QED BY <1>3, <1>4, <1>5 DEF Goes

LEMMA TopGoes ==
    ASSUME WatchInv, NEW l \in Loop, Top(l)
    PROVE  Goes(l, full')
<1> DEFINE r == loop[l]
<1>1. LoopOK(r, full) /\ r.pc = "top" /\ full' = full
  BY DEF WatchInv, LoopsInv, Top
<1>2. ASSUME NEW x \in {"errors", "shutdown"}, Set(l, [r EXCEPT !.pc = "exit", !.reason = x])
      PROVE  Goes(l, full')
  <2> DEFINE n == [r EXCEPT !.pc = "exit", !.reason = x]
  <2>1. /\ n \in LoopState /\ n.pc = "exit" /\ n.errors = r.errors
        /\ n.force = r.force
    BY <1>1 DEF LoopOK, LoopState
  <2>2. LoopOK(n, full')
    <3> HIDE DEF n
    <3> QED BY <1>1, <2>1 DEF LoopOK
  <2> QED BY <1>2, <2>1, <2>2 DEF Goes
<1>4. CASE ~(r.limit > 0 /\ r.errors >= r.limit) /\ Set(l, [r EXCEPT !.pc = "list"])
  <2> DEFINE n == [r EXCEPT !.pc = "list"]
  <2>1. /\ n \in LoopState /\ n.pc = "list" /\ n.errors = r.errors /\ n.limit = r.limit
        /\ n.force = r.force
    BY <1>1 DEF LoopOK, LoopState
  <2>2. r.errors \in 0..ErrorCap /\ r.limit \in 0..ErrorCap
    BY <1>1 DEF LoopOK, LoopState
  <2>3. LoopOK(n, full')
    <3> HIDE DEF n
    <3> QED BY <1>1, <1>4, <2>1, <2>2, WatchAssumption DEF LoopOK
  <2> QED BY <1>4, <2>1, <2>3 DEF Goes
<1> QED BY <1>2, <1>4 DEF Top

LEMMA ListGoes ==
    ASSUME WatchInv, NEW l \in Loop, ListAndDecide(l)
    PROVE  Goes(l, full')
<1> DEFINE r == loop[l]
<1>1. LoopOK(r, full) /\ r.pc = "list" /\ full' = full /\ full \in Ages /\ last \in Ages
  BY DEF WatchInv, LoopsInv, ListAndDecide, WatchTypeOK
<1>2. CASE handle_error(l)
  BY <1>1, <1>2, HandleErrorGoes
<1>3. ASSUME NEW f \in {full, NoBackup}, NEW a \in {full, last},
             Set(l, IF resume_state(f, a) = "sleep"
                    THEN [r EXCEPT !.pc = "sleep", !.wake = watch_interval - a]
                    ELSE [r EXCEPT !.pc = "lock",
                                   !.type = IF r.force THEN "full" ELSE resume_state(f, a)])
      PROVE  Goes(l, full')
  <2>1. CASE resume_state(f, a) = "full"
    <3>1. Set(l, [r EXCEPT !.pc = "lock", !.type = "full"])
      BY <1>3, <2>1
    <3> DEFINE n == [r EXCEPT !.pc = "lock", !.type = "full"]
    <3>2. /\ n \in LoopState /\ n.pc = "lock" /\ n.type = "full"
          /\ n.errors = r.errors /\ n.limit = r.limit /\ n.force = r.force
      BY <1>1 DEF LoopOK, LoopState
    <3>3. LoopOK(n, full')
      <4> HIDE DEF n
      <4> QED BY <1>1, <3>2 DEF LoopOK
    <3> QED BY <3>1, <3>2, <3>3 DEF Goes
  <2>2. CASE resume_state(f, a) # "full"
    <3>1. /\ full = f /\ f # NoBackup /\ f \in Nat /\ f < full_interval
          /\ a # NoBackup /\ a \in Nat
      BY <1>1, <2>2, WatchAssumption
         DEF resume_state, ResumeDecision, WatchInv, BackupsInv, Ages, AgeCap
    <3>2. CASE resume_state(f, a) = "sleep"
      <4>1. a < watch_interval
        BY <3>1, <3>2, WatchAssumption DEF resume_state, ResumeDecision
      <4>2. Set(l, [r EXCEPT !.pc = "sleep", !.wake = watch_interval - a])
        BY <1>3, <3>2
      <4>3. watch_interval - a \in 0..watch_interval
        BY <3>1, <4>1, WatchAssumption
      <4> DEFINE n == [r EXCEPT !.pc = "sleep", !.wake = watch_interval - a]
      <4>4. /\ n \in LoopState /\ n.pc = "sleep" /\ n.wake = watch_interval - a
            /\ n.errors = r.errors /\ n.force = r.force
        BY <1>1, <4>3 DEF LoopOK, LoopState
      <4>5. LoopOK(n, full')
        <5> HIDE DEF n
        <5> QED BY <1>1, <3>1, <4>1, <4>4, WatchAssumption DEF LoopOK
      <4> QED BY <4>2, <4>4, <4>5 DEF Goes
    <3>3. CASE resume_state(f, a) = "incr"
      <4>1. Set(l, [r EXCEPT !.pc = "lock", !.type = IF r.force THEN "full" ELSE "incr"])
        BY <1>3, <3>3
      <4> DEFINE n == [r EXCEPT !.pc = "lock", !.type = IF r.force THEN "full" ELSE "incr"]
      <4>2. /\ n \in LoopState /\ n.pc = "lock" /\ (r.force => n.type = "full")
            /\ n.errors = r.errors /\ n.limit = r.limit /\ n.force = r.force
        BY <1>1 DEF LoopOK, LoopState
      <4>3. LoopOK(n, full')
        <5> HIDE DEF n
        <5> QED BY <1>1, <3>1, <4>2 DEF LoopOK
      <4> QED BY <4>1, <4>2, <4>3 DEF Goes
    <3> QED BY <2>2, <3>2, <3>3 DEF resume_state, ResumeDecision
  <2> QED BY <2>1, <2>2
<1> QED BY <1>2, <1>3 DEF ListAndDecide

LEMMA AcquireGoes ==
    ASSUME WatchInv, NEW l \in Loop, AcquireLock(l)
    PROVE  Goes(l, full')
<1>1. LoopOK(loop[l], full) /\ loop[l].pc = "lock" /\ full' = full
  BY DEF WatchInv, LoopsInv, AcquireLock
<1>2. CASE Set(l, [loop[l] EXCEPT !.pc = "create", !.lock = TRUE])
  <2> DEFINE n == [loop[l] EXCEPT !.pc = "create", !.lock = TRUE]
  <2>1. /\ n \in LoopState /\ n.pc = "create" /\ n.errors = loop[l].errors
        /\ n.limit = loop[l].limit /\ n.force = loop[l].force /\ n.type = loop[l].type
    BY <1>1 DEF LoopOK, LoopState
  <2>2. LoopOK(n, full')
    <3> HIDE DEF n
    <3> QED BY <1>1, <2>1 DEF LoopOK
  <2> QED BY <1>2, <2>1, <2>2 DEF Goes
<1> QED BY <1>1, <1>2, HandleErrorGoes DEF AcquireLock

LEMMA CreateGoes ==
    ASSUME WatchInv, NEW l \in Loop, Create(l)
    PROVE  Goes(l, full')
<1>1. LoopOK(loop[l], full) /\ loop[l].pc = "create" /\ full' = full
  BY DEF WatchInv, LoopsInv, Create
<1>2. CASE Set(l, [loop[l] EXCEPT !.pc = "upload"])
  BY <1>1, <1>2 DEF LoopOK, LoopState, Goes
<1> QED BY <1>1, <1>2, HandleErrorGoes DEF Create

LEMMA UploadGoes ==
    ASSUME WatchInv, NEW l \in Loop, Upload(l)
    PROVE  Goes(l, full') /\ full' \in {full, 0, NoBackup}
<1>1. /\ LoopOK(loop[l], full) /\ loop[l].pc = "upload" /\ full \in Ages
      /\ full' \in {full, 0, NoBackup}
  BY DEF WatchInv, LoopsInv, Upload, WatchTypeOK
<1>2. CASE /\ full' = IF loop[l].type = "full" THEN 0 ELSE full
           /\ Set(l, [loop[l] EXCEPT !.pc = "clean"])
  <2>1. LoopOK(loop[l], full')
    BY <1>1, RenewedOK
  <2>2. full' = NoBackup \/ full' < full_interval
    BY <1>1, <1>2, WatchAssumption DEF LoopOK, LoopState
  <2> DEFINE n == [loop[l] EXCEPT !.pc = "clean"]
  <2>3. /\ n \in LoopState /\ n.pc = "clean" /\ n.errors = loop[l].errors
        /\ n.limit = loop[l].limit /\ n.force = loop[l].force /\ n.type = loop[l].type
    BY <1>1 DEF LoopOK, LoopState
  <2>4. LoopOK(n, full')
    <3> HIDE DEF n
    <3> QED BY <1>1, <2>1, <2>2, <2>3 DEF LoopOK
  <2> QED BY <1>1, <1>2, <2>3, <2>4 DEF Goes
<1> QED BY <1>1, <1>2, HandleErrorGoes DEF Upload

LEMMA CleanGoes ==
    ASSUME WatchInv, NEW l \in Loop, Clean(l)
    PROVE  Goes(l, full') /\ full' \in {full, 0, NoBackup}
<1> DEFINE r == loop[l]
           n == [r EXCEPT !.pc = "sleep", !.wake = watch_interval, !.errors = 0,
                          !.force = IF r.type = "full" THEN FALSE ELSE r.force]
<1>1. /\ LoopOK(r, full) /\ r.pc = "clean" /\ full \in Ages
      /\ full' \in {full, NoBackup} /\ Set(l, n)
  BY DEF WatchInv, LoopsInv, Clean, WatchTypeOK
<1>a. /\ 0 \in 0..ErrorCap
      /\ watch_interval \in (0..watch_interval) \cup (0..retry_interval)
  BY WatchAssumption
<1>b. (IF r.type = "full" THEN FALSE ELSE r.force) \in BOOLEAN
  BY <1>1 DEF LoopOK, LoopState
<1>2. n \in LoopState /\ n.pc = "sleep" /\ n.errors = 0 /\ n.wake = watch_interval
  BY <1>1, <1>a, <1>b DEF LoopOK, LoopState
<1>3. full' # NoBackup => full' \in Nat /\ full' < full_interval
  BY <1>1 DEF LoopOK, Ages
<1>4. LoopOK(n, full')
  <2> HIDE DEF n
  <2> QED BY <1>2, <1>3, WatchAssumption DEF LoopOK
<1> QED BY <1>1, <1>2, <1>4 DEF Goes

LEMMA SleepGoes ==
    ASSUME WatchInv, NEW l \in Loop, Wake(l) \/ SleepStopped(l) \/ SleepReload(l)
    PROVE  Goes(l, full')
<1> DEFINE r == loop[l]
<1>1. LoopOK(r, full) /\ r.pc = "sleep" /\ full' = full /\ r \in LoopState
  BY DEF WatchInv, LoopsInv, Wake, SleepStopped, SleepReload, LoopOK
<1>2. CASE Wake(l)
  <2>1. Set(l, [r EXCEPT !.pc = "top", !.lock = FALSE, !.type = "full"])
    BY <1>2 DEF Wake
  <2> DEFINE n == [r EXCEPT !.pc = "top", !.lock = FALSE, !.type = "full"]
  <2>2. n \in LoopState /\ n.pc = "top" /\ n.errors = r.errors /\ n.force = r.force
    BY <1>1 DEF LoopState
  <2>3. LoopOK(n, full')
    <3> HIDE DEF n
    <3> QED BY <1>1, <2>2 DEF LoopOK
  <2> QED BY <2>1, <2>2, <2>3 DEF Goes
<1>3. CASE SleepStopped(l)
  <2>1. Set(l, [r EXCEPT !.pc = "exit", !.lock = FALSE, !.reason = "shutdown"])
    BY <1>3 DEF SleepStopped
  <2> DEFINE n == [r EXCEPT !.pc = "exit", !.lock = FALSE, !.reason = "shutdown"]
  <2>2. n \in LoopState /\ n.pc = "exit" /\ n.errors = r.errors /\ n.force = r.force
    BY <1>1 DEF LoopState
  <2>3. LoopOK(n, full')
    <3> HIDE DEF n
    <3> QED BY <1>1, <2>2 DEF LoopOK
  <2> QED BY <2>1, <2>2, <2>3 DEF Goes
<1>4. CASE SleepReload(l)
  <2>1. CASE UNCHANGED loop
    <3>1. Set(l, r)
      BY <2>1 DEF Set, WatchInv, WatchTypeOK
    <3> QED BY <1>1, <3>1 DEF Goes
  <2>2. ASSUME NEW c \in Configs, Set(l, [r EXCEPT !.limit = c.max])
        PROVE  Goes(l, full')
    <3>1. c.max \in 0..ErrorCap
      BY WatchAssumption
    <3> QED BY <1>1, <2>2, <3>1 DEF LoopOK, LoopState, Goes
  <2> QED BY <1>4, <2>1, <2>2 DEF SleepReload
<1> QED BY <1>2, <1>3, <1>4

-----------------------------------------------------------------------------
(* Every step keeps the invariant *)

(* The part of run_watch_loop before the exit. *)
Body(l) ==
    \/ Top(l) \/ ListAndDecide(l) \/ AcquireLock(l) \/ Create(l) \/ Upload(l) \/ Clean(l)
    \/ Wake(l) \/ SleepStopped(l) \/ SleepReload(l)

LEMMA BodyStep ==
    ASSUME WatchInv, NEW l \in Loop, Body(l)
    PROVE  WatchInv'
<1>1. /\ UNCHANGED <<up, sigterm, active, tx, stopped, start, stop, config, reloads>>
      /\ reload' \in [Loop -> BOOLEAN]
  BY DEF Body, Top, ListAndDecide, AcquireLock, Create, Upload, Clean, Wake, SleepStopped,
     SleepReload, handlers, WatchInv, WatchTypeOK
<1>2. /\ full' \in {full, 0, NoBackup} /\ last' \in {last, 0}
      /\ full' # NoBackup => full # NoBackup \/ last' = 0
  BY DEF Body, Top, ListAndDecide, AcquireLock, Create, Upload, Clean, Wake, SleepStopped,
     SleepReload
<1>3. Goes(l, full')
  BY TopGoes, ListGoes, AcquireGoes, CreateGoes, UploadGoes, CleanGoes, SleepGoes DEF Body
<1>4. PICK r \in LoopState : Set(l, r) /\ LoopOK(r, full') /\ r.pc \notin {"unborn", "done"}
  BY <1>3 DEF Goes
<1>5. loop' = [loop EXCEPT ![l] = r] /\ loop' \in [Loop -> LoopState]
  BY <1>4 DEF Set, WatchInv, WatchTypeOK
<1>6. 0 # NoBackup /\ 0 \in Ages /\ full' \in Ages /\ last' \in Ages
  BY <1>2, WatchAssumption DEF Ages, AgeCap, WatchInv, WatchTypeOK
<1>7. WatchTypeOK'
  BY <1>1, <1>5, <1>6 DEF WatchInv, WatchTypeOK
<1>8. LoopsInv'
  <2> SUFFICES ASSUME NEW k \in Loop PROVE LoopOK(loop'[k], full')
    BY DEF LoopsInv, LoopOK
  <2>1. CASE k = l
    BY <1>4, <1>5, <2>1 DEF WatchInv, WatchTypeOK
  <2>2. CASE k # l
    <3>1. loop'[k] = loop[k] /\ LoopOK(loop[k], full) /\ full \in Ages
      BY <1>5, <2>2 DEF WatchInv, WatchTypeOK, LoopsInv
    <3> QED BY <1>2, <3>1, RenewedOK
  <2> QED BY <2>1, <2>2
<1>9. BackupsInv'
  BY <1>2, <1>6 DEF WatchInv, BackupsInv
<1>10. SlotInv'
  <2>1. Running(l)
    BY DEF Running, Body, Top, ListAndDecide, AcquireLock, Create, Upload, Clean, Wake,
       SleepStopped, SleepReload
  <2>2. \A k \in Loop : loop'[k].pc \notin {"unborn", "done"} => Running(k)
    BY <1>5, <2>1 DEF Running, WatchInv, WatchTypeOK
  <2> QED BY <1>1, <2>2 DEF WatchInv, SlotInv, Running, Starting
<1> QED BY <1>7, <1>8, <1>9, <1>10 DEF WatchInv

(* A loop that is not running satisfies what is asked of one. *)
LEMMA AsideOK ==
    ASSUME NEW f
    PROVE  /\ LoopOK(Unborn, f) /\ LoopOK(Finished, f)
           /\ \A c \in Configs : LoopOK(NewLoop(c), f)
           /\ Finished.pc = "done"
<1>1. 0 \in 0..ErrorCap /\ 0 \in (0..watch_interval) \cup (0..retry_interval)
  BY WatchAssumption
<1>2. LoopOK(Unborn, f)
  <2>1. Unborn \in LoopState /\ Unborn.pc = "unborn" /\ Unborn.errors = 0
    BY <1>1 DEF Unborn, LoopState
  <2> QED BY <2>1 DEF LoopOK
<1>3. LoopOK(Finished, f) /\ Finished.pc = "done"
  <2>1. Finished \in LoopState /\ Finished.pc = "done" /\ Finished.errors = 0
    BY <1>1 DEF Unborn, Finished, LoopState
  <2> QED BY <2>1 DEF LoopOK
<1>4. ASSUME NEW c \in Configs PROVE LoopOK(NewLoop(c), f)
  <2>1. c.max \in 0..ErrorCap /\ c.main \in BOOLEAN
    BY WatchAssumption
  <2>2. NewLoop(c) \in LoopState /\ NewLoop(c).pc = "top" /\ NewLoop(c).errors = 0
    BY <1>1, <2>1 DEF Unborn, NewLoop, LoopState
  <2> QED BY <2>2 DEF LoopOK
<1> QED BY <1>2, <1>3, <1>4

LEMMA EndStep ==
    ASSUME WatchInv, ProcessEnds
    PROVE  WatchInv'
<1>1. \A l \in Loop : loop'[l] = Finished
  BY DEF ProcessEnds
<1>2. WatchTypeOK'
  <2>1. Finished \in LoopState
    BY AsideOK DEF LoopOK
  <2> QED BY <2>1 DEF WatchInv, WatchTypeOK, ProcessEnds
<1>3. LoopsInv'
  BY <1>1, AsideOK DEF LoopsInv, LoopOK
<1>4. BackupsInv'
  BY DEF WatchInv, BackupsInv, ProcessEnds
<1>5. SlotInv'
  <2>1. \A l \in Loop : ~Running(l)'
    BY <1>1, AsideOK DEF Running
  <2>2. \A s \in Start : ~Starting(s)' /\ start'[s] # "installed"
    BY DEF ProcessEnds, Starting
  <2> QED BY <2>1, <2>2 DEF SlotInv
<1> QED BY <1>2, <1>3, <1>4, <1>5 DEF WatchInv

LEMMA ExitStep ==
    ASSUME WatchInv, NEW l \in Loop, handle_watch_exit(l)
    PROVE  WatchInv'
<1>1. CASE ProcessEnds
  BY <1>1, EndStep
<1>2. CASE /\ active' = FALSE /\ Set(l, Finished)
           /\ stopped' = [stopped EXCEPT ![l] = FALSE] /\ reload' = [reload EXCEPT ![l] = FALSE]
           /\ UNCHANGED <<up, sigterm, tx, handlers, full, last, config, reloads>>
  <2>1. /\ Finished \in LoopState /\ loop' = [loop EXCEPT ![l] = Finished]
        /\ Finished.pc = "done"
    BY <1>2, AsideOK DEF LoopOK, Set
  <2>2. WatchTypeOK'
    BY <1>2, <2>1 DEF WatchInv, WatchTypeOK, handlers
  <2>3. LoopsInv'
    <3> SUFFICES ASSUME NEW k \in Loop PROVE LoopOK(loop'[k], full)
      BY <1>2 DEF LoopsInv, LoopOK
    <3> QED BY <2>1, AsideOK DEF WatchInv, LoopsInv, WatchTypeOK
  <2>4. BackupsInv'
    BY <1>2 DEF WatchInv, BackupsInv
  <2>5. SlotInv'
    <3>1. Running(l)
      BY DEF handle_watch_exit, Running
    <3>2. \A k \in Loop : ~Running(k)'
      <4>1. \A k \in Loop : Running(k) => k = l
        BY <3>1 DEF WatchInv, SlotInv
      <4> QED BY <2>1, <4>1 DEF Running, WatchInv, WatchTypeOK
    <3>3. \A s \in Start : ~Starting(s) /\ start'[s] = start[s]
      BY <1>2, <3>1 DEF WatchInv, SlotInv, handlers
    <3> QED BY <3>2, <3>3 DEF SlotInv, Starting
  <2> QED BY <2>2, <2>3, <2>4, <2>5 DEF WatchInv
<1> QED BY <1>1, <1>2 DEF handle_watch_exit

(* The requests that start a loop. *)
LEMMA StartStepKeeps ==
    ASSUME WatchInv, NEW s \in Start, StartReserve(s) \/ StartStep(s)
    PROVE  WatchInv'
<1>1. /\ UNCHANGED <<up, sigterm, stopped, reload, stop, full, last, config, reloads>>
      /\ active' \in BOOLEAN
  BY DEF StartReserve, StartStep, StartInvalid, StartInstall, StartSpawn, WatchInv, WatchTypeOK
<1>2. BackupsInv'
  BY <1>1 DEF WatchInv, BackupsInv
<1>3. CASE StartReserve(s) \/ StartInvalid(s) \/ StartInstall(s)
  <2>1. UNCHANGED loop /\ LoopsInv'
    BY <1>1, <1>3 DEF StartReserve, StartInvalid, StartInstall, WatchInv, LoopsInv, LoopOK
  <2>2. WatchTypeOK'
    BY <1>1, <1>3, <2>1 DEF StartReserve, StartInvalid, StartInstall, WatchInv, WatchTypeOK, Loop
  <2>3. CASE StartReserve(s)
    <3>1. CASE active
      <4>1. UNCHANGED <<loop, active, tx>> /\ start' = [start EXCEPT ![s] = "answered"]
        BY <2>3, <3>1 DEF StartReserve, WatchInv, WatchTypeOK
      <4>2. SlotInv'
        BY <4>1 DEF WatchInv, SlotInv, Starting, Running, WatchTypeOK
      <4> QED BY <1>2, <2>1, <2>2, <4>2 DEF WatchInv
    <3>2. CASE ~active
      <4>1. /\ UNCHANGED <<loop, tx>> /\ active' = TRUE
            /\ start' = [start EXCEPT ![s] = "reserved"]
        BY <2>3, <3>2 DEF StartReserve
      <4>2. /\ \A l \in Loop : ~Running(l) /\ ~Running(l)'
            /\ \A u \in Start : ~Starting(u)
        BY <3>2, <4>1 DEF WatchInv, SlotInv, Running
      <4>3. \A u \in Start : start'[u] = IF u = s THEN "reserved" ELSE start[u]
        BY <4>1 DEF WatchInv, WatchTypeOK
      <4>4. SlotInv'
        BY <4>1, <4>2, <4>3 DEF SlotInv, Starting
      <4> QED BY <1>2, <2>1, <2>2, <4>4 DEF WatchInv
    <3> QED BY <3>1, <3>2
  <2>4. CASE StartInvalid(s) \/ StartInstall(s)
    <3>1. Starting(s) /\ active
      BY <2>4 DEF StartInvalid, StartInstall, Starting, WatchInv, SlotInv
    <3>2. \A l \in Loop : ~Running(l) /\ ~Running(l)'
      BY <2>1, <3>1 DEF WatchInv, SlotInv, Running
    <3>3. \A u \in Start \ {s} : ~Starting(u) /\ start'[u] = start[u]
      BY <2>4, <3>1 DEF WatchInv, SlotInv, StartInvalid, StartInstall, WatchTypeOK
    <3>4. \/ start'[s] = "answered"
          \/ start'[s] = "installed" /\ tx' = s /\ active'
      BY <2>4, <3>1 DEF StartInvalid, StartInstall, WatchInv, WatchTypeOK
    <3>5. SlotInv'
      BY <3>2, <3>3, <3>4 DEF SlotInv, Starting
    <3> QED BY <1>2, <2>1, <2>2, <3>5 DEF WatchInv
  <2> QED BY <1>3, <2>3, <2>4
<1>4. CASE StartSpawn(s)
  <2>1. /\ start[s] = "installed" /\ start' = [start EXCEPT ![s] = "answered"]
        /\ active' = TRUE /\ UNCHANGED tx
        /\ loop' = [loop EXCEPT ![s] = NewLoop(config)]
    BY <1>4 DEF StartSpawn, Set
  <2>2. s \in Loop /\ config \in Configs /\ NewLoop(config) \in LoopState
    BY AsideOK DEF Loop, WatchInv, WatchTypeOK, LoopOK
  <2>3. WatchTypeOK'
    BY <1>1, <2>1, <2>2 DEF WatchInv, WatchTypeOK
  <2>4. LoopsInv'
    <3> SUFFICES ASSUME NEW k \in Loop PROVE LoopOK(loop'[k], full)
      BY <1>1 DEF LoopsInv, LoopOK
    <3> QED BY <2>1, <2>2, AsideOK DEF WatchInv, LoopsInv, WatchTypeOK
  <2>5. SlotInv'
    <3>1. tx = s /\ Starting(s)
      BY <2>1 DEF WatchInv, SlotInv, Starting
    <3>2. \A l \in Loop : Running(l)' => l = s
      BY <2>1, <3>1 DEF WatchInv, SlotInv, Running, WatchTypeOK
    <3>3. \A u \in Start : ~Starting(u)' /\ start'[u] # "installed"
      BY <2>1, <3>1 DEF WatchInv, SlotInv, Starting, WatchTypeOK
    <3> QED BY <2>1, <3>1, <3>2, <3>3 DEF SlotInv
  <2> QED BY <1>2, <2>3, <2>4, <2>5 DEF WatchInv
<1> QED BY <1>3, <1>4 DEF StartStep

(* Requests and signals that touch the channels only. *)
LEMMA SignalStep ==
    ASSUME WatchInv, (\E s \in Stop : StopCheck(s) \/ StopSend(s)) \/ WatchReload \/ ShutdownSignal
    PROVE  WatchInv'
<1>1. UNCHANGED <<up, active, tx, loop, start, full, last>>
  BY DEF StopCheck, StopSend, WatchReload, ShutdownSignal, handlers
<1>2. WatchTypeOK'
  <2>1. CASE \E s \in Stop : StopCheck(s) \/ StopSend(s)
    BY <1>1, <2>1 DEF StopCheck, StopSend, WatchInv, WatchTypeOK
  <2>2. CASE WatchReload
    <3>1. reloads' \in 0..MaxWatchReloads
      BY <2>2, WatchAssumption DEF WatchReload, WatchInv, WatchTypeOK
    <3>2. reload' \in [Loop -> BOOLEAN] /\ config' \in Configs
      BY <2>2 DEF WatchReload, Receives, WatchInv, WatchTypeOK
    <3> QED BY <1>1, <2>2, <3>1, <3>2 DEF WatchReload, handlers, WatchInv, WatchTypeOK
  <2>3. CASE ShutdownSignal
    <3>1. stopped' \in [Loop -> BOOLEAN]
      BY <2>3, WatchAssumption DEF ShutdownSignal, Receives, WatchInv, WatchTypeOK
    <3> QED BY <1>1, <2>3, <3>1 DEF ShutdownSignal, handlers, WatchInv, WatchTypeOK
  <2> QED BY <2>1, <2>2, <2>3
<1>3. LoopsInv' /\ BackupsInv' /\ SlotInv'
  BY <1>1 DEF WatchInv, LoopsInv, LoopOK, BackupsInv, SlotInv, Running, Starting
<1> QED BY <1>2, <1>3 DEF WatchInv

(* Time ages the backups and the sleeps alike. *)
LEMMA TickStep ==
    ASSUME WatchInv, Tick
    PROVE  WatchInv'
<1>1. UNCHANGED <<up, sigterm, active, tx, stopped, reload, start, stop, config, reloads>>
  BY DEF Tick, handlers
<1>2. /\ full' = Older(full) /\ last' = Older(last)
      /\ \A l \in Loop : Running(l) => loop[l].pc = "sleep" /\ loop[l].wake > 0
      /\ loop' = [l \in Loop |-> IF Running(l) THEN [loop[l] EXCEPT !.wake = @ - 1] ELSE loop[l]]
  BY DEF Tick
<1>a. AgeCap \in Nat /\ NoBackup \notin Nat
  BY WatchAssumption DEF AgeCap
<1>3. /\ full' \in Ages /\ last' \in Ages
      /\ (full' = NoBackup <=> full = NoBackup) /\ (last' = NoBackup <=> last = NoBackup)
      /\ full # NoBackup => full \in Nat /\ full' \in Nat /\ full' <= full + 1
  <2> SUFFICES ASSUME NEW a \in Ages
               PROVE  /\ Older(a) \in Ages /\ (Older(a) = NoBackup <=> a = NoBackup)
                      /\ a # NoBackup => a \in Nat /\ Older(a) \in Nat /\ Older(a) <= a + 1
    BY <1>2 DEF WatchInv, WatchTypeOK
  <2> QED BY <1>a DEF Older, Ages
<1>4. ASSUME NEW l \in Loop
      PROVE  /\ LoopOK(loop'[l], full') /\ loop'[l].pc = loop[l].pc
  <2> DEFINE r == loop[l]
             n == [r EXCEPT !.wake = r.wake - 1]
  <2>0. LoopOK(r, full) /\ r \in LoopState
    BY DEF WatchInv, LoopsInv, LoopOK
  <2>1. CASE Running(l)
    <3>1. loop'[l] = n /\ r.pc = "sleep" /\ r.wake > 0
      BY <1>2, <2>1
    <3>2. /\ r.wake - 1 \in (0..watch_interval) \cup (0..retry_interval)
          /\ r.wake \in Nat
      BY <2>0, <3>1, WatchAssumption DEF LoopState
    <3>3. /\ n \in LoopState /\ n.pc = "sleep" /\ n.wake = r.wake - 1
          /\ n.errors = r.errors /\ n.force = r.force
      BY <2>0, <3>1, <3>2 DEF LoopState
    <3>4. LoopOK(n, full')
      <4> HIDE DEF n
      <4> QED BY <1>3, <2>0, <3>1, <3>2, <3>3, WatchAssumption DEF LoopOK
    <3> QED BY <3>1, <3>3, <3>4
  <2>2. CASE ~Running(l)
    <3>1. loop'[l] = r /\ r.pc \in {"unborn", "done"}
      BY <1>2, <2>2 DEF Running
    <3> QED BY <2>0, <3>1 DEF LoopOK
  <2> QED BY <2>1, <2>2
<1>5. LoopsInv'
  BY <1>4 DEF LoopsInv, LoopOK
<1>6. WatchTypeOK'
  <2>1. loop' \in [Loop -> LoopState]
    <3>1. \A l \in Loop : loop'[l] \in LoopState
      BY <1>4 DEF LoopOK
    <3>2. DOMAIN loop' = Loop /\ loop' = [l \in Loop |-> loop'[l]]
      BY <1>2
    <3> QED BY <3>1, <3>2
  <2> QED BY <1>1, <1>3, <2>1 DEF WatchInv, WatchTypeOK
<1>7. BackupsInv'
  BY <1>3 DEF WatchInv, BackupsInv
<1>8. SlotInv'
  BY <1>1, <1>4 DEF WatchInv, SlotInv, Running, Starting
<1> QED BY <1>5, <1>6, <1>7, <1>8 DEF WatchInv

LEMMA WatchInvStep == WatchInv /\ [WatchNext]_watchVars => WatchInv'
<1> SUFFICES ASSUME WatchInv, [WatchNext]_watchVars PROVE WatchInv'
  OBVIOUS
<1>1. CASE \E l \in Loop : LoopStep(l)
  BY <1>1, BodyStep, ExitStep DEF LoopStep, Body
<1>2. CASE \E s \in Start : (up /\ StartReserve(s)) \/ StartStep(s)
  BY <1>2, StartStepKeeps
<1>3. CASE \/ \E s \in Stop : up /\ (StopCheck(s) \/ StopSend(s))
           \/ up /\ (WatchReload \/ ShutdownSignal)
  BY <1>3, SignalStep
<1>4. CASE ServerExit
  BY <1>4, EndStep DEF ServerExit
<1>5. CASE Tick
  BY <1>5, TickStep
<1>6. CASE UNCHANGED watchVars
  BY <1>6 DEF watchVars, WatchInv, WatchTypeOK, LoopsInv, LoopOK, BackupsInv, SlotInv, Running, Starting
<1> QED BY <1>1, <1>2, <1>3, <1>4, <1>5, <1>6 DEF WatchNext

LEMMA WatchInvInit == WatchInit => WatchInv
<1> SUFFICES ASSUME WatchInit PROVE WatchInv
  OBVIOUS
<1>1. /\ config \in Configs
      /\ loop = [l \in Loop |-> IF l = Boot /\ WatchEnabled THEN NewLoop(config) ELSE Unborn]
  BY DEF WatchInit
<1>2. LoopsInv /\ loop \in [Loop -> LoopState]
  <2>1. \A l \in Loop : LoopOK(loop[l], full)
    BY <1>1, AsideOK
  <2>2. \A l \in Loop : loop[l] \in LoopState
    BY <2>1 DEF LoopOK
  <2> QED BY <1>1, <2>1, <2>2 DEF LoopsInv
<1>3. full \in Ages /\ last \in Ages /\ BackupsInv
  BY WatchAssumption DEF WatchInit, Ages, AgeCap, BackupsInv
<1>4. WatchTypeOK
  <2>1. reloads \in 0..MaxWatchReloads /\ Boot \in Loop
    BY WatchAssumption DEF WatchInit, Loop
  <2>2. tx \in Loop \cup {NoLoop} /\ active \in BOOLEAN
    BY <2>1, WatchAssumption DEF WatchInit
  <2>3. stopped \in [Loop -> BOOLEAN] /\ reload \in [Loop -> BOOLEAN]
    BY DEF WatchInit
  <2> QED BY <1>1, <1>2, <1>3, <2>1, <2>2, <2>3 DEF WatchInit, WatchTypeOK
<1>5. SlotInv
  <2>1. \A s \in Start : ~Starting(s) /\ start[s] # "installed"
    BY DEF WatchInit, Starting
  <2>2. \A l \in Loop : Running(l) => l = Boot /\ WatchEnabled
    BY <1>1 DEF Running, Unborn
  <2> QED BY <2>1, <2>2 DEF WatchInit, SlotInv
<1> QED BY <1>2, <1>3, <1>4, <1>5 DEF WatchInv

LEMMA WatchInvHolds == WatchSpec => []WatchInv
  BY WatchInvInit, WatchInvStep, PTL DEF WatchSpec

-----------------------------------------------------------------------------
(* What follows *)

(* Type correctness of the server's watch state and of the loops. *)
THEOREM WatchTypeCorrect == WatchSpec => []WatchTypeOK
<1>1. WatchInv => WatchTypeOK
  BY DEF WatchInv
<1> QED BY <1>1, WatchInvHolds, PTL

(* However many watch_start and watch_stop requests interleave with loops  *)
(* that end by themselves, at most one loop runs; while it runs the status *)
(* is active and AppState's senders are its own.                           *)
THEOREM SingleLoop == WatchSpec => []OneLoop
<1>1. WatchInv => OneLoop
  BY DEF WatchInv, SlotInv, OneLoop
<1> QED BY <1>1, WatchInvHolds, PTL

(* After an error no incremental backup is made before a full one has      *)
(* succeeded, whatever the bucket's listing says meanwhile.                *)
THEOREM FullAfterErrors == WatchSpec => []ErrorsForceFull
<1>1. WatchInv => ErrorsForceFull
  BY DEF WatchInv, LoopsInv, LoopOK, ErrorsForceFull, InCycle
<1> QED BY <1>1, WatchInvHolds, PTL

(* For any two intervals: a loop that sleeps between two successful cycles *)
(* has no last full backup as old as their sum.                            *)
THEOREM Cadence == WatchSpec => []FullCadence
<1>1. WatchInv => FullCadence
  <2> SUFFICES ASSUME WatchInv, NEW l \in Loop, loop[l].pc = "sleep", loop[l].errors = 0,
                      full # NoBackup
               PROVE  full < full_interval + watch_interval
    BY DEF FullCadence
  <2>1. full + loop[l].wake < full_interval + watch_interval
    BY DEF WatchInv, LoopsInv, LoopOK
  <2>2. full \in Nat /\ loop[l].wake \in Nat
    BY WatchAssumption DEF WatchInv, WatchTypeOK, LoopState, Ages, AgeCap
  <2> QED BY <2>1, <2>2, WatchAssumption
<1> QED BY <1>1, WatchInvHolds, PTL

(* "abort after N consecutive failures": no cycle runs with as many errors *)
(* as the limit of the config the loop has last read.                      *)
THEOREM LimitHonoured == WatchSpec => []ErrorLimit
<1>1. WatchInv => ErrorLimit
  BY DEF WatchInv, LoopsInv, LoopOK, ErrorLimit, InCycle
<1> QED BY <1>1, WatchInvHolds, PTL

=============================================================================
