------------------------ MODULE DeferredFreezeProofs ------------------------
(***************************************************************************)
(* Proofs about DeferredFreeze, for any backups, tables, processes and     *)
(* operations and any number of operations, faults and crashes: the live   *)
(* owner of a record is a running operation, every freeze is tracked, what *)
(* an upload copies stays frozen and so does what is recorded, all of them *)
(* over failing writes of the record, kills and crashes.                   *)
(***************************************************************************)
EXTENDS DeferredFreeze, FiniteSetTheorems, TLAPS

Labels == {"idle", "begin", "reap", "reread", "unfreeze", "write", "freeze", "orphan", "split",
           "undo", "rest", "tail", "failed", "copy", "cleanup", "broken"}
TaskStates == {"wait", "sent", "frozen", "done", "skip", "fail"}
OpState ==
    [kind : AllKinds \cup {"idle"}, b : Backup \cup {Global}, pc : Labels,
     task : [Table -> TaskStates], reg : SUBSET Table, claimed : SUBSET Table,
     rel : Backup \cup {Global}, held : SUBSET Table, failed : SUBSET Table,
     cancelled : BOOLEAN, ok : BOOLEAN, todo : SUBSET Backup]
Record == [retained : SUBSET Table, owner : Proc \cup {Nobody}, expired : BOOLEAN, some : BOOLEAN]

(* Where a create is between making its directory and the end of its tail, *)
(* and who is releasing a recorded freeze.                                 *)
Creating  == {"freeze", "split", "undo", "rest", "tail"}
Releases  == {"unfreeze", "write"}

(* What an operation does fits its place. *)
Shape(r) ==
    /\ r.kind \in {"create", "upload", "release", "delete"} => r.b \in Backup
    /\ r.pc \in Creating \cup {"reap", "reread", "orphan"} => r.kind = "create"
    /\ r.pc \in {"copy", "cleanup"} => r.kind = "upload"
    /\ r.pc = "broken" => r.kind = "clean_broken"
    /\ r.pc \in Releases => r.kind \in {"create", "upload", "release", "clean_broken"}
    /\ r.pc \in Releases \cup {"reread"} => r.rel \in Backup
    /\ r.pc \notin Releases \cup {"reread"} => r.rel = Global
    /\ r.pc \in Releases /\ r.kind \in {"upload", "release"} => r.rel = r.b
    /\ r.kind = "clean_broken" => r.b = Global
    /\ r.kind = "clean" /\ r.b = Global => UnnamedClean
    /\ r.reg # {} => r.pc \in {"freeze", "split", "undo", "rest"}
    /\ r.cancelled => r.pc \in {"orphan", "copy", "cleanup"} \cup Releases
    /\ r.cancelled /\ r.pc # "orphan" => r.kind = "upload"
    /\ r.pc = "idle" <=> r.kind = "idle"
    /\ r.failed \subseteq r.held
    /\ r.pc # "write" => r.failed = {}

StoreType ==
    /\ shadow \in [Backup -> SUBSET Table]
    /\ dir \in [Backup -> {"none", "partial", "complete"}]
    /\ record \in [Backup -> Record]
    /\ \A b \in Backup : record[b].some <=> record[b].retained # {}
    /\ leaked \in [Causes -> SUBSET (Backup \X Table)]
    /\ gone \in SUBSET (Backup \X Table)

OpsType ==
    /\ lock \in [Backup \cup {Global} -> Op \cup {NoOp}]
    /\ up \subseteq Proc
    /\ op \in [Op -> OpState]
    /\ \A o \in Op : Shape(op[o]) /\ (op[o].pc # "idle" => ProcOf[o] \in up)
    /\ copied \subseteq Op /\ waived \subseteq Op

BoundsType == opsLeft \in Nat /\ faultsLeft \in Nat /\ crashesLeft \in Nat

TypeInv == StoreType /\ OpsType /\ BoundsType

(* An operation that was not killed holds its lock, and that of the backup *)
(* whose freeze it releases; the global lock excludes all others.          *)
LockInv ==
    /\ \A o \in Op : op[o].pc # "idle" /\ ~op[o].cancelled => lock[Scope(op[o].kind, op[o].b)] = o
    /\ \A o \in Op : op[o].pc \in Releases \cup {"reread"} /\ ~op[o].cancelled
                       /\ op[o].kind # "clean_broken" => lock[op[o].rel] = o
    /\ lock[Global] # NoOp => \A b \in Backup : lock[b] = NoOp

(* The operation on account of which the owner of b's record is its owner. *)
Owns(o, b) ==
    /\ op[o].b = b
    /\ \/ op[o].kind = "create" /\ op[o].pc \in {"rest", "tail"} /\ op[o].claimed # {}
       \/ op[o].kind = "upload" /\ op[o].pc = "copy"
       \/ op[o].pc \in Releases /\ op[o].rel = b

OwnerInv ==
    \A b \in Backup : record[b].some /\ owner_is_live(record[b]) =>
        \/ \E o \in Op : ProcOf[o] = record[b].owner /\ Owns(o, b)
        \/ \E t \in Table : <<b, t>> \in leaked["owner"]

-----------------------------------------------------------------------------
(* A freeze that a create has in its registry or that is known to be lost. *)
Tracked(b, t) ==
    \/ \E o \in Op : op[o].kind = "create" /\ op[o].b = b /\ t \in op[o].reg
    \/ \E c \in Causes : <<b, t>> \in leaked[c]

Late(b, t) == <<b, t>> \in leaked["late"]

(* The record of b lists ts, but for what a killed upload wrote late. *)
Lists(b, ts) == \A t \in Table : (t \in ts <=> t \in record[b].retained) \/ Late(b, t)

(* A record describes the backup in its directory; while it is released,   *)
(* what is still frozen is tracked without it.                             *)
CreateOK(r) ==
    /\ r.pc \in {"freeze", "split", "undo"} => \A t \in record[r.b].retained : Late(r.b, t)
    /\ r.pc = "rest" => \A t \in r.reg \cap record[r.b].retained : Late(r.b, t)
    /\ r.pc \in {"rest", "tail"} => Lists(r.b, r.claimed)

ReleaseOK(r) ==
    r.pc \in Releases /\ ~r.cancelled =>
        /\ Lists(r.rel, r.held)
        /\ r.pc = "write" => \A t \in shadow[r.rel] : t \in r.failed \/ Tracked(r.rel, t)

TrackInv ==
    /\ \A b \in Backup : dir[b] = "none" => record[b].retained = {}
    /\ \A o \in Op : CreateOK(op[o]) /\ ReleaseOK(op[o])
    /\ \A b \in Backup : \A t \in shadow[b] : t \in record[b].retained \/ Tracked(b, t)

-----------------------------------------------------------------------------
(* An upload that copies what it found pinned, and nobody has let go of it *)
(* since: the record is there and nobody releases or replaces it.          *)
Copying(o) ==
    /\ At(o, "upload", "copy") /\ o \notin copied /\ op[o].claimed # {}
    /\ op[o].cancelled => o \notin waived

PinOK(o) == Copying(o) =>
    /\ op[o].claimed \subseteq record[op[o].b].retained \cap shadow[op[o].b]
    /\ o \notin waived => record[op[o].b].owner = ProcOf[o]
    /\ \A q \in Op : op[q].pc \in Releases => op[q].rel # op[o].b
    /\ \A q \in Op : op[q].pc \in Creating => op[q].b # op[o].b

PinInv == \A o \in Op : PinOK(o)

-----------------------------------------------------------------------------
(* What is recorded or about to be is frozen, or gone for a known reason.  *)
Pins(b, t) == t \in shadow[b] \/ <<b, t>> \in gone

FrozenInv ==
    /\ \A o \in Op : \A t \in op[o].reg : Pins(op[o].b, t)
    /\ \A b \in Backup : \A t \in record[b].retained : Pins(b, t) \/ Late(b, t)

-----------------------------------------------------------------------------
(* Records of operations *)

(* A step of o that leaves the other operations alone. *)
Moves(o, n) ==
    /\ n \in OpState
    /\ op' \in [Op -> OpState] /\ op'[o] = n /\ \A q \in Op : q # o => op'[q] = op[q]

LEMMA MovesIt ==
    ASSUME TypeInv, NEW o \in Op, NEW n \in OpState, op' = [op EXCEPT ![o] = n]
    PROVE  Moves(o, n)
BY DEF TypeInv, OpsType, Moves

LEMMA IdleType == Idle \in OpState /\ Shape(Idle)
BY DEF Idle, OpState, Shape, Labels, TaskStates, Creating, Releases

LEMMA EndsMoves ==
    ASSUME TypeInv, NEW o \in Op, op' = [op EXCEPT ![o] = Idle]
    PROVE  Moves(o, Idle)
BY MovesIt, IdleType

LEMMA StartMoves ==
    ASSUME TypeInv, NEW o \in Op, NEW kind \in Kinds, NEW b \in Backup \cup {Global},
           Start(o, kind, b)
    PROVE  Moves(o, [Idle EXCEPT !.kind = kind, !.b = b, !.pc = "begin",
                                 !.todo = IF kind = "create" THEN Backup ELSE {}])
<1> DEFINE td == IF kind = "create" THEN Backup ELSE {}
           n == [Idle EXCEPT !.kind = kind, !.b = b, !.pc = "begin", !.todo = td]
<1>1. td \subseteq Backup /\ kind \in AllKinds
    BY FreezeAssumption
<1> HIDE DEF td
<1>2. n \in OpState
    BY <1>1, IdleType DEF OpState, Labels
<1> QED
    BY <1>2, MovesIt DEF Start, td

LEMMA GotoMoves ==
    ASSUME TypeInv, NEW o \in Op, NEW l \in Labels, op' = [op EXCEPT ![o].pc = l]
    PROVE  Moves(o, [op[o] EXCEPT !.pc = l])
<1> DEFINE n == [op[o] EXCEPT !.pc = l]
<1>1. op[o] \in OpState
    BY DEF TypeInv, OpsType
<1>2. n \in OpState /\ op' = [op EXCEPT ![o] = n]
    BY <1>1 DEF OpState, TypeInv, OpsType
<1> QED
    BY <1>2, MovesIt

LEMMA TaskMoves ==
    ASSUME TypeInv, NEW o \in Op, NEW t \in Table, NEW s \in TaskStates,
           op' = [op EXCEPT ![o].task[t] = s]
    PROVE  Moves(o, [op[o] EXCEPT !.task = [op[o].task EXCEPT ![t] = s]])
<1> DEFINE tk == [op[o].task EXCEPT ![t] = s]
           n == [op[o] EXCEPT !.task = tk]
<1>1. op[o] \in OpState /\ op \in [Op -> OpState]
    BY DEF TypeInv, OpsType
<1>2. tk \in [Table -> TaskStates]
    BY <1>1 DEF OpState
<1>3. op' = [op EXCEPT ![o] = n]
    BY <1>1
<1> HIDE DEF tk
<1>4. n \in OpState
    BY <1>1, <1>2 DEF OpState
<1> QED
    BY <1>3, <1>4, MovesIt DEF tk

LEMMA FrozenMoves ==
    ASSUME TypeInv, NEW o \in Op, NEW t \in Table, TaskFrozen(o, t)
    PROVE  Moves(o, [op[o] EXCEPT !.task = [op[o].task EXCEPT ![t] = "frozen"],
                                  !.reg = IF op[o].pc = "freeze" THEN op[o].reg \cup {t} ELSE op[o].reg])
<1> DEFINE tk == [op[o].task EXCEPT ![t] = "frozen"]
           rg == IF op[o].pc = "freeze" THEN op[o].reg \cup {t} ELSE op[o].reg
           n == [op[o] EXCEPT !.task = tk, !.reg = rg]
<1>1. op[o] \in OpState /\ op \in [Op -> OpState]
    BY DEF TypeInv, OpsType
<1>2. tk \in [Table -> TaskStates] /\ rg \subseteq Table
    BY <1>1 DEF OpState, TaskStates
<1>3. op' = [op EXCEPT ![o] = n]
    BY <1>1 DEF TaskFrozen, record_freeze
<1> HIDE DEF tk, rg
<1>4. n \in OpState
    BY <1>1, <1>2 DEF OpState
<1> QED
    BY <1>3, <1>4, MovesIt DEF tk, rg

LEMMA LostMoves ==
    ASSUME TypeInv, NEW o \in Op, NEW t \in Table, TaskLost(o, t)
    PROVE  Moves(o, [op[o] EXCEPT !.task = [op[o].task EXCEPT ![t] = "fail"]])
BY TaskMoves DEF TaskLost, TaskStates

LEMMA ReleasingMoves ==
    ASSUME TypeInv, NEW o \in Op, NEW b \in Backup, op' = [op EXCEPT ![o] = Releasing(o, b, "unfreeze")]
    PROVE  Moves(o, [op[o] EXCEPT !.pc = "unfreeze", !.rel = b, !.held = record[b].retained])
<1>1. op[o] \in OpState /\ record[b].retained \subseteq Table
    BY DEF TypeInv, OpsType, StoreType, Record
<1>2. Releasing(o, b, "unfreeze") \in OpState
    BY <1>1 DEF OpState, Labels, Releasing
<1> QED
    BY <1>2, MovesIt DEF Releasing

LEMMA UnfreezeMoves ==
    ASSUME TypeInv, NEW o \in Op, NEW failed \in SUBSET op[o].held,
           op' = [op EXCEPT ![o].pc = "write", ![o].failed = failed]
    PROVE  Moves(o, [op[o] EXCEPT !.pc = "write", !.failed = failed])
<1> DEFINE n == [op[o] EXCEPT !.pc = "write", !.failed = failed]
<1>1. op[o] \in OpState /\ failed \subseteq Table
    BY DEF TypeInv, OpsType, OpState
<1>2. n \in OpState /\ op' = [op EXCEPT ![o] = n]
    BY <1>1 DEF OpState, TypeInv, OpsType, Labels
<1> QED
    BY <1>2, MovesIt

LEMMA OnwardLabel ==
    ASSUME NEW r \in OpState
    PROVE  /\ r.kind = "create" => Onward(r) \in {"reap", "failed"}
           /\ r.kind = "upload" => Onward(r) = "cleanup"
           /\ r.kind = "clean_broken" => Onward(r) = "broken"
           /\ r.kind \notin {"create", "upload", "clean_broken"} => Onward(r) = "failed"
           /\ Onward(r) \in Labels
BY DEF Onward, Labels

LEMMA WriteMoves ==
    ASSUME TypeInv, NEW o \in Op, WriteRecord(o) \/ WriteFails(o)
    PROVE  \E td \in SUBSET Backup :
             Moves(o, [op[o] EXCEPT !.pc = Onward(op[o]), !.rel = Global, !.held = {}, !.failed = {},
                                    !.todo = td])
<1>1. op[o] \in OpState /\ op \in [Op -> OpState]
    BY DEF TypeInv, OpsType
<1>2. \E td \in SUBSET Backup : GoesOn(o, td)
  <2>1. op[o].todo \subseteq Backup
    BY <1>1 DEF OpState
  <2> QED
    BY <2>1 DEF WriteRecord, WriteFails
<1>3. PICK td \in SUBSET Backup : GoesOn(o, td)
    BY <1>2
<1> DEFINE l == Onward(op[o])
           n == [op[o] EXCEPT !.pc = l, !.rel = Global, !.held = {}, !.failed = {}, !.todo = td]
<1>4. op' = [op EXCEPT ![o] = n] /\ l \in Labels
    BY <1>1, <1>3, OnwardLabel DEF GoesOn
<1> HIDE DEF l
<1>5. n \in OpState
    BY <1>1, <1>4 DEF OpState
<1> QED
    BY <1>4, <1>5, MovesIt DEF l

LEMMA ReapMoves ==
    ASSUME TypeInv, NEW o \in Op, NEW l \in Labels, NEW c \in Backup \cup {Global},
           NEW d \in Backup,
           op' = [op EXCEPT ![o].todo = @ \ {d}, ![o].rel = c, ![o].pc = l]
    PROVE  Moves(o, [op[o] EXCEPT !.pc = l, !.rel = c, !.todo = op[o].todo \ {d}])
<1> DEFINE td == op[o].todo \ {d}
           n == [op[o] EXCEPT !.pc = l, !.rel = c, !.todo = td]
<1>1. op[o] \in OpState /\ op \in [Op -> OpState]
    BY DEF TypeInv, OpsType
<1>2. td \subseteq Backup
    BY <1>1 DEF OpState
<1>3. op' = [op EXCEPT ![o] = n]
    BY <1>1
<1> HIDE DEF td
<1>4. n \in OpState
    BY <1>1, <1>2 DEF OpState
<1> QED
    BY <1>3, <1>4, MovesIt DEF td

LEMMA RereadMoves ==
    ASSUME TypeInv, NEW o \in Op, op' = [op EXCEPT ![o] = [op[o] EXCEPT !.pc = "reap", !.rel = Global]]
    PROVE  Moves(o, [op[o] EXCEPT !.pc = "reap", !.rel = Global])
<1>0. op[o] \in OpState
    BY DEF TypeInv, OpsType
<1>1. [op[o] EXCEPT !.pc = "reap", !.rel = Global] \in OpState
    BY <1>0 DEF OpState, Labels
<1> QED
    BY <1>1, MovesIt

LEMMA JoinedMoves ==
    ASSUME TypeInv, NEW o \in Op, NEW l \in Labels, NEW ok \in BOOLEAN,
           op' = [op EXCEPT ![o].pc = l, ![o].ok = ok]
    PROVE  Moves(o, [op[o] EXCEPT !.pc = l, !.ok = ok])
<1> DEFINE n == [op[o] EXCEPT !.pc = l, !.ok = ok]
<1>1. op[o] \in OpState
    BY DEF TypeInv, OpsType
<1>2. n \in OpState /\ op' = [op EXCEPT ![o] = n]
    BY <1>1 DEF OpState, TypeInv, OpsType
<1> QED
    BY <1>2, MovesIt

LEMMA RegMoves ==
    ASSUME TypeInv, NEW o \in Op, NEW l \in Labels, NEW rg \in SUBSET Table, NEW td \in SUBSET Backup,
           op' = [op EXCEPT ![o].pc = l, ![o].reg = rg, ![o].todo = td]
    PROVE  Moves(o, [op[o] EXCEPT !.pc = l, !.reg = rg, !.todo = td])
<1> DEFINE n == [op[o] EXCEPT !.pc = l, !.reg = rg, !.todo = td]
<1>1. op[o] \in OpState
    BY DEF TypeInv, OpsType
<1>2. n \in OpState /\ op' = [op EXCEPT ![o] = n]
    BY <1>1 DEF OpState, TypeInv, OpsType
<1> QED
    BY <1>2, MovesIt

LEMMA RestMoves ==
    ASSUME TypeInv, NEW o \in Op, NEW l \in Labels, NEW rg \in SUBSET Table,
           op' = [op EXCEPT ![o].pc = l, ![o].reg = rg]
    PROVE  Moves(o, [op[o] EXCEPT !.pc = l, !.reg = rg])
<1> DEFINE n == [op[o] EXCEPT !.pc = l, !.reg = rg]
<1>1. op[o] \in OpState
    BY DEF TypeInv, OpsType
<1>2. n \in OpState /\ op' = [op EXCEPT ![o] = n]
    BY <1>1 DEF OpState, TypeInv, OpsType
<1> QED
    BY <1>2, MovesIt

LEMMA SplitMoves ==
    ASSUME TypeInv, NEW o \in Op, NEW l \in Labels, NEW rg \in SUBSET Table, NEW cl \in SUBSET Table,
           op' = [op EXCEPT ![o].pc = l, ![o].reg = rg, ![o].claimed = cl]
    PROVE  Moves(o, [op[o] EXCEPT !.pc = l, !.reg = rg, !.claimed = cl])
<1> DEFINE n == [op[o] EXCEPT !.pc = l, !.reg = rg, !.claimed = cl]
<1>1. op[o] \in OpState
    BY DEF TypeInv, OpsType
<1>2. n \in OpState /\ op' = [op EXCEPT ![o] = n]
    BY <1>1 DEF OpState, TypeInv, OpsType
<1> QED
    BY <1>2, MovesIt

LEMMA TailFailsMoves ==
    ASSUME TypeInv, NEW o \in Op, NEW b \in Backup,
           op' = [op EXCEPT ![o] = [Releasing(o, b, "unfreeze") EXCEPT
                                      !.ok = FALSE, !.held = op[o].claimed]]
    PROVE  Moves(o, [op[o] EXCEPT !.pc = "unfreeze", !.rel = b, !.held = op[o].claimed, !.ok = FALSE])
<1> DEFINE n == [op[o] EXCEPT !.pc = "unfreeze", !.rel = b, !.held = op[o].claimed, !.ok = FALSE]
<1>1. op[o] \in OpState
    BY DEF TypeInv, OpsType
<1>2. n \in OpState /\ n = [Releasing(o, b, "unfreeze") EXCEPT !.ok = FALSE, !.held = op[o].claimed]
    BY <1>1 DEF OpState, Labels, Releasing
<1> QED
    BY <1>2, MovesIt

LEMMA PanicMoves ==
    ASSUME TypeInv, NEW o \in Op, NEW t \in Table,
           op' = [op EXCEPT ![o] = [@ EXCEPT !.pc = "orphan", !.reg = {}, !.task[t] = "fail",
                                              !.cancelled = TRUE]]
    PROVE  \E tk \in [Table -> TaskStates] :
             Moves(o, [op[o] EXCEPT !.pc = "orphan", !.reg = {}, !.task = tk, !.cancelled = TRUE])
<1> DEFINE tk == [op[o].task EXCEPT ![t] = "fail"]
           n == [op[o] EXCEPT !.pc = "orphan", !.reg = {}, !.task = tk, !.cancelled = TRUE]
<1>1. op[o] \in OpState /\ op \in [Op -> OpState]
    BY DEF TypeInv, OpsType
<1>2. tk \in [Table -> TaskStates]
    BY <1>1 DEF OpState, TaskStates
<1>3. op' = [op EXCEPT ![o] = n]
    BY <1>1
<1> HIDE DEF tk
<1>4. n \in OpState
    BY <1>1, <1>2 DEF OpState, Labels
<1> QED
    BY <1>2, <1>3, <1>4, MovesIt

LEMMA OrphanMoves ==
    ASSUME TypeInv, NEW o \in Op,
           op' = [op EXCEPT ![o] = [op[o] EXCEPT !.pc = "orphan", !.reg = {}, !.cancelled = TRUE]]
    PROVE  Moves(o, [op[o] EXCEPT !.pc = "orphan", !.reg = {}, !.cancelled = TRUE])
<1>0. op[o] \in OpState
    BY DEF TypeInv, OpsType
<1>1. [op[o] EXCEPT !.pc = "orphan", !.reg = {}, !.cancelled = TRUE] \in OpState
    BY <1>0 DEF OpState, Labels
<1> QED
    BY <1>1, MovesIt

LEMMA ClaimMoves ==
    ASSUME TypeInv, NEW o \in Op, NEW c \in SUBSET Table,
           op' = [op EXCEPT ![o].pc = "copy", ![o].claimed = c]
    PROVE  Moves(o, [op[o] EXCEPT !.pc = "copy", !.claimed = c])
<1> DEFINE n == [op[o] EXCEPT !.pc = "copy", !.claimed = c]
<1>1. op[o] \in OpState
    BY DEF TypeInv, OpsType
<1>2. n \in OpState /\ op' = [op EXCEPT ![o] = n]
    BY <1>1 DEF OpState, TypeInv, OpsType, Labels
<1> QED
    BY <1>2, MovesIt

LEMMA KillMoves ==
    ASSUME TypeInv, NEW o \in Op, op' = [op EXCEPT ![o].cancelled = TRUE]
    PROVE  Moves(o, [op[o] EXCEPT !.cancelled = TRUE])
<1> DEFINE n == [op[o] EXCEPT !.cancelled = TRUE]
<1>1. op[o] \in OpState
    BY DEF TypeInv, OpsType
<1>2. n \in OpState /\ op' = [op EXCEPT ![o] = n]
    BY <1>1 DEF OpState, TypeInv, OpsType
<1> QED
    BY <1>2, MovesIt

LEMMA TodoMoves ==
    ASSUME TypeInv, NEW o \in Op, NEW l \in Labels, NEW td \in SUBSET Backup,
           op' = [op EXCEPT ![o].pc = l, ![o].todo = td]
    PROVE  Moves(o, [op[o] EXCEPT !.pc = l, !.todo = td])
<1> DEFINE n == [op[o] EXCEPT !.pc = l, !.todo = td]
<1>1. op[o] \in OpState
    BY DEF TypeInv, OpsType
<1>2. n \in OpState /\ op' = [op EXCEPT ![o] = n]
    BY <1>1 DEF OpState, TypeInv, OpsType
<1> QED
    BY <1>2, MovesIt

-----------------------------------------------------------------------------
(* Types *)

LEMMA FreezesFinite ==
    ASSUME NEW S, S \subseteq Table
    PROVE  IsFiniteSet(S) /\ Cardinality(S) \in Nat
BY FreezeAssumption, FS_Subset, FS_CardinalityType

(* What is left of the faults, and that none was used if none is missing.  *)
LEMMA FaultCount ==
    ASSUME TypeInv, NEW S, IsFiniteSet(S), Fault(S)
    PROVE  /\ faultsLeft' \in Nat /\ faultsLeft' <= faultsLeft
           /\ faultsLeft' = faultsLeft => S = {}
<1>1. Cardinality(S) \in Nat
    BY FS_CardinalityType
<1>2. Cardinality(S) = 0 <=> S = {}
    BY <1>1, FS_EmptySet
<1> QED
    BY <1>1, <1>2, FreezeAssumption DEF Fault, TypeInv, BoundsType

LEMMA MoveType ==
    ASSUME TypeInv, NEW o \in Op, op' \in [Op -> OpState], \A q \in Op : q # o => op'[q] = op[q],
           Shape(op'[o]), ProcOf[o] \in up \/ op'[o].pc = "idle", up' = up,
           lock' \in [Backup \cup {Global} -> Op \cup {NoOp}],
           copied' \subseteq Op, waived' \subseteq Op
    PROVE  OpsType'
BY DEF TypeInv, OpsType

LEMMA UnlockedType ==
    ASSUME TypeInv, NEW o \in Op
    PROVE  /\ Unlocked(o) \in [Backup \cup {Global} -> Op \cup {NoOp}]
           /\ \A s \in Backup \cup {Global} :
                 Unlocked(o)[s] = IF lock[s] = o THEN NoOp ELSE lock[s]
BY DEF TypeInv, OpsType, Unlocked

LEMMA EndsType ==
    ASSUME TypeInv, NEW o \in Op, Ends(o), up' = up, copied' \subseteq Op, waived' \subseteq Op
    PROVE  OpsType' /\ Moves(o, Idle)
<1>1. Moves(o, Idle)
    BY EndsMoves DEF Ends
<1>2. lock' \in [Backup \cup {Global} -> Op \cup {NoOp}]
    BY UnlockedType DEF Ends
<1>3. Shape(op'[o]) /\ op'[o].pc = "idle"
    BY <1>1, IdleType DEF Moves, Idle
<1> QED
    BY <1>1, <1>2, <1>3, MoveType DEF Moves

LEMMA DeleteType ==
    ASSUME TypeInv, NEW b \in Backup, delete_local(b), UNCHANGED <<shadow, leaked, gone>>
    PROVE  StoreType'
<1>1. NoRecord \in Record /\ NoRecord.some = FALSE /\ NoRecord.retained = {}
    BY DEF NoRecord, Record
<1>2. CASE UNCHANGED <<dir, record>>
    BY <1>2 DEF TypeInv, StoreType
<1>3. CASE /\ dir' = [dir EXCEPT ![b] = "none"]
           /\ record' = [record EXCEPT ![b] = NoRecord]
  <2>1. \A c \in Backup : record'[c].some <=> record'[c].retained # {}
    BY <1>1, <1>3 DEF TypeInv, StoreType
  <2> QED
    BY <1>1, <1>3, <2>1 DEF TypeInv, StoreType
<1> QED
    BY <1>2, <1>3 DEF delete_local

LEMMA LeakType ==
    ASSUME TypeInv, NEW c \in Causes, NEW b \in Backup, NEW S \in SUBSET Table, Leak(c, b, S)
    PROVE  /\ leaked' \in [Causes -> SUBSET (Backup \X Table)]
           /\ \A d \in Causes : leaked[d] \subseteq leaked'[d]
           /\ \A t \in S : <<b, t>> \in leaked'[c]
BY DEF TypeInv, StoreType, Leak

(* Steps that leave the store alone. *)
LEMMA StoreSame ==
    ASSUME TypeInv, UNCHANGED <<shadow, dir, record, leaked, gone>>
    PROVE  StoreType'
BY DEF TypeInv, StoreType

(* What was gone is still gone or frozen again. *)
GoneKept ==
    \A b \in Backup, t \in Table : <<b, t>> \in gone => <<b, t>> \in gone' \/ t \in shadow'[b]

LEMMA GoneRefrozen ==
    ASSUME TypeInv, gone' = Refrozen
    PROVE  gone' \in SUBSET (Backup \X Table) /\ GoneKept
BY DEF TypeInv, StoreType, Refrozen, GoneKept

LEMMA SingleFault ==
    ASSUME TypeInv, NEW b, Fault({b})
    PROVE  faultsLeft' \in Nat
BY FaultCount, FS_Singleton

LEMMA BoundsSame ==
    ASSUME TypeInv, UNCHANGED bounds
    PROVE  BoundsType'
BY DEF TypeInv, BoundsType, bounds

(* Rewriting one record keeps the type of all. *)
LEMMA RecordType ==
    ASSUME TypeInv, NEW b \in Backup, NEW r \in Record, r.some <=> r.retained # {},
           record' = [record EXCEPT ![b] = r]
    PROVE  /\ record' \in [Backup -> Record]
           /\ \A c \in Backup : record'[c].some <=> record'[c].retained # {}
           /\ record'[b] = r /\ \A c \in Backup : c # b => record'[c] = record[c]
BY DEF TypeInv, StoreType

LEMMA RecordValues ==
    ASSUME TypeInv, NEW b \in Backup
    PROVE  /\ NoRecord \in Record /\ ~NoRecord.some /\ NoRecord.retained = {}
           /\ NoRecord.owner = Nobody
           /\ \A p \in Proc, S \in SUBSET Table : S # {} =>
                 /\ new(p, S) \in Record /\ new(p, S).some
                 /\ new(p, S).retained = S /\ new(p, S).owner = p
           /\ \A p \in Proc : LET a == adopt(record[b], p)
              IN a \in Record /\ a.some = record[b].some /\ a.retained = record[b].retained
                 /\ a.owner = p /\ a.expired = record[b].expired
           /\ LET d == demote(record[b])
              IN d \in Record /\ d.some = record[b].some /\ d.retained = record[b].retained
                 /\ d.owner = Nobody /\ d.expired = record[b].expired
           /\ \A S \in SUBSET Table : LET f == retain_failed(record[b], S)
              IN f \in Record /\ f.some /\ f.retained = S /\ f.owner = Nobody
<1>1. record[b] \in Record
    BY DEF TypeInv, StoreType
<1> QED
    BY <1>1 DEF Record, NoRecord, new, adopt, demote, retain_failed

(* What a step of o leaves alone: the other operations and the processes,  *)
(* who o is and what it works on, and what it releases.                    *)
Others(o) == op' \in [Op -> OpState] /\ up' = up /\ \A q \in Op : q # o => op'[q] = op[q]
Keeps(o) ==
    /\ op'[o].kind = op[o].kind /\ op'[o].b = op[o].b
    /\ op'[o].cancelled = op[o].cancelled /\ op'[o].claimed = op[o].claimed
KeepsRelease(o) ==
    op'[o].rel = op[o].rel /\ op'[o].held = op[o].held /\ op'[o].failed = op[o].failed

LEMMA OpType ==
    ASSUME TypeInv, NEW o \in Op
    PROVE  /\ op[o] \in OpState /\ Shape(op[o]) /\ (op[o].pc # "idle" => ProcOf[o] \in up)
           /\ op[o].reg \subseteq Table /\ op[o].held \subseteq Table /\ op[o].failed \subseteq Table
           /\ ProcOf[o] \in Proc /\ op[o].todo \subseteq Backup
BY FreezeAssumption DEF TypeInv, OpsType, OpState

(* The record of b stays owned although o lets go. *)
LEMMA AbandonsIt ==
    ASSUME TypeInv, NEW o \in Op, NEW b \in Backup, Abandons(o, b)
    PROVE  /\ record' = record /\ faultsLeft' \in Nat
           /\ leaked' \in [Causes -> SUBSET (Backup \X Table)]
           /\ \A c \in Causes : leaked[c] \subseteq leaked'[c]
           /\ leaked'["late"] = leaked["late"]
           /\ record[b].some /\ record[b].owner = ProcOf[o] =>
                \E t \in Table : <<b, t>> \in leaked'["owner"]
<1> DEFINE S == IF record[b].owner = ProcOf[o] THEN record[b].retained ELSE {}
<1>1. Fault({b}) /\ Leak("owner", b, S) /\ record' = record
    BY DEF Abandons
<1>2. S \subseteq Table /\ (record[b].some => record[b].retained # {})
    BY DEF TypeInv, StoreType, Record
<1>3. record[b].some /\ record[b].owner = ProcOf[o] => \E t \in Table : t \in S
    BY <1>2
<1> HIDE DEF S
<1>4. /\ leaked' \in [Causes -> SUBSET (Backup \X Table)]
      /\ \A c \in Causes : leaked[c] \subseteq leaked'[c]
      /\ \A t \in S : <<b, t>> \in leaked'["owner"]
    BY <1>1, <1>2, LeakType DEF Causes
<1>5. leaked'["late"] = leaked["late"]
    BY <1>1 DEF Leak, TypeInv, StoreType, Causes
<1> QED
    BY <1>1, <1>3, <1>4, <1>5, SingleFault

LEMMA UnfreezeStep ==
    ASSUME TypeInv, NEW o \in Op, Unfreeze(o)
    PROVE  /\ TypeInv' /\ Others(o) /\ Keeps(o) /\ op[o].pc = "unfreeze" /\ op'[o].pc = "write"
           /\ op'[o].rel = op[o].rel /\ op'[o].held = op[o].held /\ op'[o].reg = op[o].reg
           /\ op[o].rel \in Backup
           /\ \E failed \in SUBSET op[o].held :
                /\ op'[o].failed = failed
                /\ shadow' = [shadow EXCEPT ![op[o].rel] = @ \ (op[o].held \ failed)]
                /\ gone' = gone \cup ({op[o].rel} \X (op[o].held \ failed))
<1>0. op[o] \in OpState /\ Shape(op[o]) /\ (op[o].pc # "idle" => ProcOf[o] \in up)
    BY OpType
<1>1. PICK failed \in SUBSET op[o].held :
        /\ Fault(failed)
        /\ shadow' = [shadow EXCEPT ![op[o].rel] = @ \ (op[o].held \ failed)]
        /\ gone' = gone \cup ({op[o].rel} \X (op[o].held \ failed))
        /\ op' = [op EXCEPT ![o].pc = "write", ![o].failed = failed]
    BY DEF Unfreeze, unfreeze_all_checked
<1>2. Moves(o, [op[o] EXCEPT !.pc = "write", !.failed = failed])
    BY <1>1, UnfreezeMoves
<1>3. op[o].pc = "unfreeze" /\ failed \in SUBSET Table /\ IsFiniteSet(failed) /\ up' = up
    BY FreezesFinite, OpType DEF Unfreeze, unfreeze_all_checked
<1>4. /\ Others(o) /\ Keeps(o) /\ op'[o].pc = "write" /\ op'[o].failed = failed
      /\ op'[o].rel = op[o].rel /\ op'[o].held = op[o].held /\ op'[o].reg = op[o].reg
    BY <1>0, <1>2, <1>3 DEF Moves, OpState, Others, Keeps
<1>5. Shape(op'[o]) /\ op[o].rel \in Backup /\ ProcOf[o] \in up
    BY <1>0, <1>3, <1>4 DEF Keeps, Shape, Creating, Releases
<1>6. /\ lock' \in [Backup \cup {Global} -> Op \cup {NoOp}]
      /\ copied' \subseteq Op /\ waived' \subseteq Op
    BY DEF Unfreeze, unfreeze_all_checked, TypeInv, OpsType
<1>7. OpsType'
    BY <1>3, <1>4, <1>5, <1>6, MoveType DEF Others
<1>8. StoreType'
  <2>1. gone' \in SUBSET (Backup \X Table) /\ shadow' \in [Backup -> SUBSET Table]
    BY <1>1, <1>5, OpType DEF TypeInv, StoreType
  <2> QED
    BY <2>1 DEF Unfreeze, unfreeze_all_checked, TypeInv, StoreType
<1>9. faultsLeft' \in Nat
    BY <1>1, <1>3, FaultCount
<1>10. BoundsType'
    BY <1>9 DEF Unfreeze, unfreeze_all_checked, TypeInv, BoundsType
<1> QED
    BY <1>1, <1>3, <1>4, <1>5, <1>7, <1>8, <1>9, <1>10 DEF TypeInv

(* Both ways the rewriting of a record ends: o goes on. *)
LEMMA WriteGoes ==
    ASSUME TypeInv, NEW o \in Op, WriteRecord(o) \/ WriteFails(o)
    PROVE  /\ OpsType' /\ Others(o) /\ Keeps(o) /\ op[o].pc = "write"
           /\ op[o].kind \in {"create", "upload", "release", "clean_broken"}
           /\ op'[o].pc \in {"reap", "failed", "cleanup", "broken"}
           /\ op'[o].rel = Global /\ op'[o].reg = op[o].reg /\ op[o].rel \in Backup
           /\ \A s \in Backup \cup {Global} :
                lock'[s] = IF s = op[o].rel /\ lock[s] = o /\ op[o].b # s THEN NoOp ELSE lock[s]
           /\ UNCHANGED <<copied, waived, gone, shadow, opsLeft, crashesLeft>>
<1>0. op[o] \in OpState /\ Shape(op[o]) /\ (op[o].pc # "idle" => ProcOf[o] \in up)
    BY OpType
<1>1. /\ op[o].pc = "write" /\ op[o].rel \in Backup /\ ProcOf[o] \in up
      /\ op[o].kind \in {"create", "upload", "release", "clean_broken"} /\ up' = up
    BY <1>0 DEF WriteRecord, WriteFails, GoesOn, Shape, Releases
<1>2. PICK td \in SUBSET Backup :
        Moves(o, [op[o] EXCEPT !.pc = Onward(op[o]), !.rel = Global, !.held = {}, !.failed = {},
                               !.todo = td])
    BY WriteMoves
<1>3. /\ Others(o) /\ Keeps(o) /\ op'[o].pc = Onward(op[o]) /\ op'[o].rel = Global
      /\ op'[o].held = {} /\ op'[o].failed = {} /\ op'[o].reg = op[o].reg
    BY <1>0, <1>1, <1>2 DEF Moves, OpState, Others, Keeps
<1>4. /\ op[o].kind = "create" => op'[o].pc \in {"reap", "failed"}
      /\ op[o].kind = "upload" => op'[o].pc = "cleanup"
      /\ op[o].kind = "clean_broken" => op'[o].pc = "broken"
      /\ op[o].kind = "release" => op'[o].pc = "failed"
    BY <1>0, <1>3, OnwardLabel
<1>5. op'[o].pc \in {"reap", "failed", "cleanup", "broken"}
    BY <1>1, <1>4
<1>6. Shape(op'[o])
    BY <1>0, <1>1, <1>3, <1>4 DEF Shape, Creating, Releases, Keeps
<1>7. /\ lock' = [lock EXCEPT ![op[o].rel] = IF @ = o /\ op[o].b # op[o].rel THEN NoOp ELSE @]
      /\ UNCHANGED <<copied, waived, gone, shadow, opsLeft, crashesLeft>>
    BY DEF WriteRecord, WriteFails, GoesOn
<1>8. /\ lock' \in [Backup \cup {Global} -> Op \cup {NoOp}]
      /\ \A s \in Backup \cup {Global} :
           lock'[s] = IF s = op[o].rel /\ lock[s] = o /\ op[o].b # s THEN NoOp ELSE lock[s]
    BY <1>1, <1>7 DEF TypeInv, OpsType
<1>9. OpsType'
    BY <1>1, <1>3, <1>6, <1>7, <1>8, MoveType DEF Others, TypeInv, OpsType
<1> QED
    BY <1>1, <1>3, <1>5, <1>7, <1>8, <1>9

LEMMA WriteStep ==
    ASSUME TypeInv, NEW o \in Op, WriteRecord(o)
    PROVE  /\ TypeInv' /\ op[o].rel \in Backup
           /\ record'[op[o].rel] = NewRecord(o)
           /\ \A b \in Backup : b # op[o].rel => record'[b] = record[b] /\ dir'[b] = dir[b]
           /\ IF op[o].failed = {} THEN NewRecord(o).retained = {} /\ ~NewRecord(o).some
              ELSE /\ NewRecord(o).retained = op[o].failed /\ NewRecord(o).owner = Nobody
                   /\ NewRecord(o).some
           /\ op[o].failed # {} => dir'[op[o].rel] # "none"
           /\ \A c \in Causes : leaked[c] \subseteq leaked'[c]
           /\ op[o].cancelled => \A t \in record[op[o].rel].retained \cup op[o].failed :
                                   <<op[o].rel, t>> \in leaked'["late"]
<1>0. op[o].failed \subseteq Table /\ op[o].rel \in Backup
    BY OpType, WriteGoes
<1>1. /\ NewRecord(o) \in Record /\ (NewRecord(o).some <=> NewRecord(o).retained # {})
      /\ IF op[o].failed = {} THEN NewRecord(o).retained = {} /\ ~NewRecord(o).some
         ELSE /\ NewRecord(o).retained = op[o].failed /\ NewRecord(o).owner = Nobody
              /\ NewRecord(o).some
    BY <1>0, RecordValues DEF NewRecord
<1> DEFINE nr == NewRecord(o)
           bb == op[o].rel
           ts == IF op[o].cancelled THEN record[bb].retained \cup op[o].failed ELSE {}
<1>2. /\ record' \in [Backup -> Record]
      /\ \A c \in Backup : record'[c].some <=> record'[c].retained # {}
      /\ record'[bb] = nr /\ \A c \in Backup : c # bb => record'[c] = record[c]
  <2>1. nr \in Record /\ (nr.some <=> nr.retained # {}) /\ bb \in Backup /\ record' = [record EXCEPT ![bb] = nr]
    BY <1>0, <1>1 DEF WriteRecord
  <2> HIDE DEF nr, bb
  <2> QED
    BY <2>1, RecordType
<1>3. /\ dir' \in [Backup -> {"none", "partial", "complete"}]
      /\ \A b \in Backup : b # op[o].rel => dir'[b] = dir[b]
      /\ op[o].failed # {} => dir'[op[o].rel] # "none"
    BY <1>0 DEF WriteRecord, publish, TypeInv, StoreType
<1>4. Leak("late", bb, ts) /\ ts \subseteq Table
    BY <1>0 DEF WriteRecord, TypeInv, StoreType, Record
<1>5. op[o].cancelled => ts = record[bb].retained \cup op[o].failed
    OBVIOUS
<1> HIDE DEF ts
<1>6. /\ leaked' \in [Causes -> SUBSET (Backup \X Table)]
      /\ \A c \in Causes : leaked[c] \subseteq leaked'[c]
      /\ \A t \in ts : <<bb, t>> \in leaked'["late"]
    BY <1>0, <1>4, LeakType DEF Causes
<1>7. shadow' = shadow /\ gone' = gone /\ OpsType' /\ UNCHANGED bounds
    BY WriteGoes DEF WriteRecord, bounds
<1>8. StoreType' /\ BoundsType'
    BY <1>2, <1>3, <1>6, <1>7, BoundsSame DEF TypeInv, StoreType
<1> QED
    BY <1>0, <1>1, <1>2, <1>3, <1>5, <1>6, <1>7, <1>8 DEF TypeInv

LEMMA WriteFailsStep ==
    ASSUME TypeInv, NEW o \in Op, WriteFails(o)
    PROVE  /\ TypeInv' /\ record' = record /\ dir' = dir
           /\ \A c \in Causes : leaked[c] \subseteq leaked'[c]
           /\ record[op[o].rel].some /\ record[op[o].rel].owner = ProcOf[o] =>
                \E t \in Table : <<op[o].rel, t>> \in leaked'["owner"]
<1>1. /\ op[o].rel \in Backup /\ OpsType' /\ UNCHANGED <<gone, shadow, opsLeft, crashesLeft>>
    BY WriteGoes
<1>2. Abandons(o, op[o].rel) /\ dir' = dir
    BY DEF WriteFails
<1>3. /\ record' = record /\ faultsLeft' \in Nat
      /\ leaked' \in [Causes -> SUBSET (Backup \X Table)]
      /\ \A c \in Causes : leaked[c] \subseteq leaked'[c]
      /\ record[op[o].rel].some /\ record[op[o].rel].owner = ProcOf[o] =>
           \E t \in Table : <<op[o].rel, t>> \in leaked'["owner"]
    BY <1>1, <1>2, AbandonsIt
<1>4. StoreType' /\ BoundsType'
    BY <1>1, <1>2, <1>3 DEF TypeInv, StoreType, BoundsType
<1> QED
    BY <1>1, <1>2, <1>3, <1>4 DEF TypeInv

(* Steps that leave the store alone: an operation ends that has nothing to *)
(* undo, or goes on without touching a freeze or a record, or begins to    *)
(* release the recorded freeze of b.                                       *)
Quiet == UNCHANGED <<copied, waived, gone, shadow, dir, record, up, leaked, bounds>>

Idles(o) ==
    /\ Quiet /\ Others(o) /\ op'[o] = Idle /\ lock' = Unlocked(o)
    /\ op[o].reg = {} /\ op[o].pc \in {"begin", "reap", "orphan", "failed", "broken", "tail"}
    /\ op[o].pc = "tail" => op[o].claimed = {}

Paces(o) ==
    /\ Quiet /\ Others(o) /\ Keeps(o) /\ op'[o].reg = op[o].reg
    /\ op[o].pc \in {"begin", "reap", "reread", "freeze", "orphan"}
    /\ op'[o].pc \in {"reap", "reread", "freeze", "orphan", "split", "undo", "broken"}
    /\ op'[o].pc \in Creating => op[o].pc = "freeze"
    /\ op'[o].pc = "reread" => op'[o].rel \in Backup
    /\ op'[o].pc = "reread" => lock'[op'[o].rel] = o
    /\ op'[o].pc # "reread" => op'[o].rel = Global
    /\ op'[o].pc = "orphan" <=> op[o].pc = "orphan"
    /\ \A s \in Backup \cup {Global} :
         \/ lock'[s] = lock[s]
         \/ s = op'[o].rel /\ op'[o].pc = "reread" /\ LockFree(s) /\ lock'[s] = o
         \/ s = op[o].rel /\ op[o].pc = "reread" /\ s # op[o].b /\ lock'[s] = NoOp

LEMMA QuietType ==
    ASSUME TypeInv, NEW o \in Op, Quiet, Others(o), Shape(op'[o]),
           ProcOf[o] \in up \/ op'[o].pc = "idle",
           lock' \in [Backup \cup {Global} -> Op \cup {NoOp}]
    PROVE  TypeInv'
<1>1. StoreType'
    BY StoreSame DEF Quiet
<1>2. BoundsType'
    BY BoundsSame DEF Quiet
<1>3. up' = up /\ copied' \subseteq Op /\ waived' \subseteq Op
    BY DEF Quiet, TypeInv, OpsType
<1> QED
    BY <1>1, <1>2, <1>3, MoveType DEF Others, TypeInv

LEMMA EndsIdle ==
    ASSUME TypeInv, NEW o \in Op, op' = [op EXCEPT ![o] = Idle], up' = up
    PROVE  Others(o) /\ op'[o] = Idle /\ Shape(op'[o]) /\ op'[o].pc = "idle" /\ op'[o].kind = "idle"
           /\ op'[o].reg = {} /\ ~op'[o].cancelled
BY EndsMoves, IdleType DEF Moves, Others, Idle

LEMMA EndsStep ==
    ASSUME TypeInv, NEW o \in Op, Ends(o), Quiet, op[o].reg = {},
           op[o].pc \in {"begin", "reap", "orphan", "failed", "broken", "tail"},
           op[o].pc = "tail" => op[o].claimed = {}
    PROVE  TypeInv' /\ Idles(o)
<1>1. Others(o) /\ op'[o] = Idle /\ Shape(op'[o]) /\ op'[o].pc = "idle"
    BY EndsIdle DEF Ends, Quiet
<1>2. lock' = Unlocked(o) /\ lock' \in [Backup \cup {Global} -> Op \cup {NoOp}]
    BY UnlockedType DEF Ends
<1> QED
    BY <1>1, <1>2, QuietType DEF Idles

LEMMA EndStep ==
    ASSUME TypeInv, NEW o \in Op,
           CreatePlanFails(o) \/ OrphanEnds(o) \/ CreateFailed(o) \/ UploadNoBackup(o)
    PROVE  TypeInv' /\ Idles(o)
<1>1. Ends(o) /\ Quiet /\ op[o].pc \in {"begin", "reap", "orphan", "failed"}
    BY DEF CreatePlanFails, OrphanEnds, CreateFailed, UploadNoBackup, Quiet, At
<1>2. op[o].reg = {}
    BY <1>1, OpType DEF Shape
<1> QED
    BY <1>1, <1>2, EndsStep

LEMMA BeginStep ==
    ASSUME TypeInv, NEW o \in Op, CreateBegin(o)
    PROVE  TypeInv' /\ Paces(o)
<1>1. op[o].pc = "begin" /\ op[o].kind = "create" /\ Quiet /\ lock' = lock
    BY DEF CreateBegin, At, Quiet
<1>2. Moves(o, [op[o] EXCEPT !.pc = "reap"])
    BY GotoMoves DEF CreateBegin, Goto, Labels
<1>3. op[o] \in OpState
    BY OpType
<1>4. /\ Others(o) /\ Keeps(o) /\ op'[o].pc = "reap" /\ KeepsRelease(o) /\ op'[o].reg = op[o].reg
    BY <1>1, <1>2, <1>3 DEF Moves, OpState, Others, Keeps, KeepsRelease, Quiet
<1>5. Shape(op'[o]) /\ op'[o].rel = Global /\ ProcOf[o] \in up
    BY <1>1, <1>4, OpType DEF Shape, Creating, Releases, Keeps, KeepsRelease
<1>6. TypeInv'
    BY <1>1, <1>4, <1>5, QuietType DEF TypeInv, OpsType
<1> QED
    BY <1>1, <1>4, <1>5, <1>6 DEF Paces, Creating

LEMMA CandidateStep ==
    ASSUME TypeInv, LockInv, NEW o \in Op, NEW c \in Backup, ReapCandidate(o, c)
    PROVE  TypeInv' /\ Paces(o)
<1> DEFINE own == c = op[o].b
           take == status_inner(c, ~own) = "Reapable" /\ (own \/ LockFree(c))
           l == IF take THEN "reread" ELSE "reap"
           r == IF take THEN c ELSE Global
<1>1. op[o].pc = "reap" /\ op[o].kind = "create" /\ Quiet
    BY DEF ReapCandidate, At, Quiet
<1>2. op' = [op EXCEPT ![o].todo = @ \ {c}, ![o].rel = r, ![o].pc = l]
    BY DEF ReapCandidate
<1>3. lock' = IF take THEN [lock EXCEPT ![c] = o] ELSE lock
    BY DEF ReapCandidate
<1>4. l \in {"reread", "reap"} /\ r \in Backup \cup {Global}
      /\ (l = "reread" => r = c) /\ (l = "reap" => r = Global)
    BY DEF l, r
<1>5. op[o] \in OpState /\ Shape(op[o]) /\ ProcOf[o] \in up /\ op[o].b \in Backup
    BY <1>1, OpType DEF Shape
<1>6. ~op[o].cancelled /\ (own => lock[c] = o)
    BY <1>1, <1>5 DEF LockInv, Shape, Releases, Scope
<1>7. \/ lock' = lock /\ l = "reap"
      \/ lock' = lock /\ l = "reread" /\ lock[c] = o
      \/ lock' = [lock EXCEPT ![c] = o] /\ l = "reread" /\ LockFree(c)
    BY <1>3, <1>6 DEF TypeInv, OpsType
<1> HIDE DEF take, own, l, r
<1>8. Moves(o, [op[o] EXCEPT !.pc = l, !.rel = r, !.todo = op[o].todo \ {c}])
    BY <1>2, <1>4, ReapMoves DEF Labels
<1>9. /\ Others(o) /\ Keeps(o) /\ op'[o].pc = l /\ op'[o].rel = r /\ op'[o].reg = op[o].reg
      /\ op'[o].held = op[o].held /\ op'[o].failed = op[o].failed
    BY <1>1, <1>5, <1>8 DEF Moves, OpState, Others, Keeps, Quiet
<1>10. Shape(op'[o])
    BY <1>1, <1>4, <1>5, <1>9 DEF Shape, Creating, Releases, Keeps
<1>11. lock' \in [Backup \cup {Global} -> Op \cup {NoOp}]
    BY <1>7 DEF TypeInv, OpsType
<1>12. TypeInv'
    BY <1>1, <1>5, <1>9, <1>10, <1>11, QuietType
<1>13. \A s \in Backup \cup {Global} :
         \/ lock'[s] = lock[s]
         \/ s = op'[o].rel /\ op'[o].pc = "reread" /\ LockFree(s) /\ lock'[s] = o
    BY <1>4, <1>7, <1>9 DEF TypeInv, OpsType
<1>14. op'[o].pc = "reread" => lock'[op'[o].rel] = o
    BY <1>4, <1>7, <1>9 DEF TypeInv, OpsType
<1> QED
    BY <1>1, <1>4, <1>9, <1>12, <1>13, <1>14 DEF Paces, Creating

Lets(o, b) ==
    /\ b \in Backup /\ UNCHANGED <<shadow, dir, up, leaked, gone, lock>>
    /\ Others(o) /\ Keeps(o) /\ op'[o].reg = op[o].reg /\ op[o].reg = {}
    /\ op'[o].pc = "unfreeze" /\ op'[o].rel = b
    /\ op'[o].held = IF op[o].pc = "tail" THEN op[o].claimed ELSE record[b].retained
    /\ \/ /\ op[o].kind = "create" /\ op[o].pc = "reread" /\ op[o].rel = b
          /\ status_inner(b, FALSE) = "Reapable" /\ UNCHANGED <<record, copied, waived>>
       \/ /\ op[o].kind = "create" /\ op[o].pc = "tail" /\ op[o].b = b
          /\ UNCHANGED <<record, copied, waived>>
       \/ /\ op[o].kind = "upload" /\ op[o].pc = "copy" /\ op[o].b = b /\ Usable(b, ProcOf[o])
          /\ record' = record \/ record' = [record EXCEPT ![b] = adopt(record[b], ProcOf[o])]
          /\ copied' = copied \cup Copiers(b) /\ UNCHANGED waived
       \/ /\ \/ op[o].kind = "release" /\ op[o].pc = "begin" /\ op[o].b = b
             \/ op[o].kind = "clean_broken" /\ op[o].pc = "broken"
          /\ UNCHANGED <<record, copied>> /\ waived' = waived \cup Copiers(b)

LEMMA LetsType ==
    ASSUME TypeInv, NEW o \in Op, NEW b \in Backup, op[o].reg = {}, op[o].pc # "write",
           op' = [op EXCEPT ![o] = Releasing(o, b, "unfreeze")], up' = up, ProcOf[o] \in up, lock' = lock,
           copied' \subseteq Op, waived' \subseteq Op,
           op[o].kind \in {"create", "upload", "release", "clean_broken"},
           op[o].kind \in {"upload", "release"} => op[o].b = b,
           op[o].kind \in {"create", "release", "clean_broken"} => ~op[o].cancelled
    PROVE  /\ OpsType' /\ Others(o) /\ Keeps(o) /\ op'[o].reg = op[o].reg
           /\ op'[o].pc = "unfreeze" /\ op'[o].rel = b /\ op'[o].held = record[b].retained
<1>1. Moves(o, [op[o] EXCEPT !.pc = "unfreeze", !.rel = b, !.held = record[b].retained])
    BY ReleasingMoves
<1>2. op[o] \in OpState /\ Shape(op[o])
    BY OpType
<1>3. /\ Others(o) /\ Keeps(o) /\ op'[o].reg = op[o].reg /\ op'[o].failed = op[o].failed
      /\ op'[o].pc = "unfreeze" /\ op'[o].rel = b /\ op'[o].held = record[b].retained
    BY <1>1, <1>2 DEF Moves, OpState, Others, Keeps
<1>4. Shape(op'[o])
    BY <1>2, <1>3 DEF Shape, Creating, Releases, Keeps
<1>5. lock' \in [Backup \cup {Global} -> Op \cup {NoOp}]
    BY DEF TypeInv, OpsType
<1> QED
    BY <1>3, <1>4, <1>5, MoveType DEF Others

LEMMA RereadStep ==
    ASSUME TypeInv, NEW o \in Op, ReapReread(o)
    PROVE  TypeInv' /\ (Paces(o) \/ Lets(o, op[o].rel))
<1> DEFINE c == op[o].rel
           still == status_inner(c, FALSE) = "Reapable"
<1>1. op[o].pc = "reread" /\ op[o].kind = "create" /\ Quiet
    BY DEF ReapReread, At, Quiet
<1>2. op[o] \in OpState /\ Shape(op[o]) /\ ProcOf[o] \in up /\ c \in Backup /\ ~op[o].cancelled
      /\ op[o].reg = {}
    BY <1>1, OpType DEF Shape, Creating, Releases
<1>3. copied' \subseteq Op /\ waived' \subseteq Op /\ up' = up
    BY <1>1 DEF Quiet, TypeInv, OpsType
<1>4. CASE still
  <2>1. op' = [op EXCEPT ![o] = Releasing(o, c, "unfreeze")] /\ lock' = lock
    BY <1>4 DEF ReapReread
  <2>2. /\ OpsType' /\ Others(o) /\ Keeps(o) /\ op'[o].reg = op[o].reg
        /\ op'[o].pc = "unfreeze" /\ op'[o].rel = c /\ op'[o].held = record[c].retained
    BY <1>1, <1>2, <1>3, <2>1, LetsType
  <2>3. StoreType' /\ BoundsType'
    BY <1>1, StoreSame, BoundsSame DEF Quiet
  <2> QED
    BY <1>1, <1>2, <1>4, <2>1, <2>2, <2>3 DEF Lets, Quiet, TypeInv
<1>5. CASE ~still
  <2>1. /\ op' = [op EXCEPT ![o] = [op[o] EXCEPT !.pc = "reap", !.rel = Global]]
        /\ lock' = IF c = op[o].b THEN lock ELSE [lock EXCEPT ![c] = NoOp]
    BY <1>5 DEF ReapReread
  <2>2. Moves(o, [op[o] EXCEPT !.pc = "reap", !.rel = Global])
    BY <2>1, RereadMoves
  <2>3. /\ Others(o) /\ Keeps(o) /\ op'[o].pc = "reap" /\ op'[o].rel = Global /\ op'[o].reg = op[o].reg
        /\ op'[o].held = op[o].held /\ op'[o].failed = op[o].failed
    BY <1>2, <1>3, <2>2 DEF Moves, OpState, Others, Keeps
  <2>4. Shape(op'[o])
    BY <1>1, <1>2, <2>3 DEF Shape, Creating, Releases, Keeps
  <2>5. lock' \in [Backup \cup {Global} -> Op \cup {NoOp}]
    BY <2>1 DEF TypeInv, OpsType
  <2>6. TypeInv'
    BY <1>1, <1>2, <2>3, <2>4, <2>5, QuietType
  <2>7. \A s \in Backup \cup {Global} :
          lock'[s] = lock[s] \/ (s = op[o].rel /\ s # op[o].b /\ lock'[s] = NoOp)
    BY <1>2, <2>1 DEF TypeInv, OpsType
  <2> QED
    BY <1>1, <2>3, <2>6, <2>7 DEF Paces, Creating
<1> QED
    BY <1>4, <1>5

LEMMA TaskStep ==
    ASSUME TypeInv, NEW o \in Op, NEW t \in Table,
           TaskSend(o, t) \/ TaskNotFrozen(o, t) \/ TaskCollected(o, t)
    PROVE  TypeInv' /\ Paces(o)
<1>1. PICK s \in TaskStates : op' = [op EXCEPT ![o].task[t] = s]
    BY DEF TaskSend, TaskNotFrozen, TaskCollected, TaskStates
<1>2. op[o].pc \in {"freeze", "orphan"} /\ Quiet /\ lock' = lock
    BY DEF TaskSend, TaskNotFrozen, TaskCollected, Quiet
<1>3. Moves(o, [op[o] EXCEPT !.task = [op[o].task EXCEPT ![t] = s]])
    BY <1>1, TaskMoves
<1> DEFINE tk == [op[o].task EXCEPT ![t] = s]
<1>4. op[o] \in OpState /\ Shape(op[o]) /\ ProcOf[o] \in up
    BY <1>2, OpType
<1>5. Moves(o, [op[o] EXCEPT !.task = tk])
    BY <1>3
<1> HIDE DEF tk
<1>6. /\ Others(o) /\ Keeps(o) /\ KeepsRelease(o) /\ op'[o].pc = op[o].pc /\ op'[o].reg = op[o].reg
    BY <1>2, <1>4, <1>5 DEF Moves, OpState, Others, Keeps, KeepsRelease, Quiet
<1>7. Shape(op'[o]) /\ op'[o].rel = Global
    BY <1>2, <1>4, <1>6 DEF Shape, Creating, Releases, Keeps, KeepsRelease
<1>8. TypeInv'
    BY <1>2, <1>4, <1>6, <1>7, QuietType DEF TypeInv, OpsType
<1> QED
    BY <1>2, <1>6, <1>7, <1>8 DEF Paces, Creating

LEMMA JoinedStep ==
    ASSUME TypeInv, NEW o \in Op, Joined(o)
    PROVE  TypeInv' /\ Paces(o)
<1>1. PICK ok \in BOOLEAN :
        op' = [op EXCEPT ![o].pc = IF ok THEN "split" ELSE "undo", ![o].ok = ok]
    BY DEF Joined
<1>2. op[o].pc = "freeze" /\ Quiet /\ lock' = lock
    BY DEF Joined, Quiet, At
<1> DEFINE l == IF ok THEN "split" ELSE "undo"
<1>3. l \in {"split", "undo"} /\ op' = [op EXCEPT ![o].pc = l, ![o].ok = ok]
    BY <1>1
<1> HIDE DEF l
<1>4. op[o] \in OpState /\ Shape(op[o]) /\ ProcOf[o] \in up
    BY <1>2, OpType
<1>5. Moves(o, [op[o] EXCEPT !.pc = l, !.ok = ok])
    BY <1>3, JoinedMoves DEF Labels
<1>6. /\ Others(o) /\ Keeps(o) /\ KeepsRelease(o) /\ op'[o].pc = l /\ op'[o].reg = op[o].reg
    BY <1>2, <1>4, <1>5 DEF Moves, OpState, Others, Keeps, KeepsRelease, Quiet
<1>7. Shape(op'[o]) /\ op'[o].rel = Global
    BY <1>2, <1>3, <1>4, <1>6 DEF Shape, Creating, Releases, Keeps, KeepsRelease
<1>8. TypeInv'
    BY <1>2, <1>4, <1>6, <1>7, QuietType DEF TypeInv, OpsType
<1> QED
    BY <1>2, <1>3, <1>6, <1>7, <1>8 DEF Paces, Creating

LEMMA TailFailsStep ==
    ASSUME TypeInv, NEW o \in Op, CreateTailFails(o)
    PROVE  TypeInv' /\ (Idles(o) \/ Lets(o, op[o].b))
<1> DEFINE b == op[o].b
<1>1. op[o].pc = "tail" /\ op[o].kind = "create" /\ Quiet
    BY DEF CreateTailFails, At, Quiet
<1>2. op[o] \in OpState /\ Shape(op[o]) /\ ProcOf[o] \in up /\ b \in Backup /\ ~op[o].cancelled
      /\ op[o].reg = {}
    BY <1>1, OpType DEF Shape, Creating, Releases
<1>3. CASE op[o].claimed # {}
  <2>1. /\ op' = [op EXCEPT ![o] = [Releasing(o, b, "unfreeze") EXCEPT
                                      !.ok = FALSE, !.held = op[o].claimed]]
        /\ lock' = lock
    BY <1>3 DEF CreateTailFails
  <2>2. Moves(o, [op[o] EXCEPT !.pc = "unfreeze", !.rel = b, !.held = op[o].claimed, !.ok = FALSE])
    BY <1>2, <2>1, TailFailsMoves
  <2>3. /\ Others(o) /\ Keeps(o) /\ op'[o].reg = op[o].reg /\ op'[o].failed = op[o].failed
        /\ op'[o].pc = "unfreeze" /\ op'[o].rel = b /\ op'[o].held = op[o].claimed
    BY <1>1, <1>2, <2>2 DEF Moves, OpState, Others, Keeps, Quiet
  <2>4. Shape(op'[o])
    BY <1>1, <1>2, <2>3 DEF Shape, Creating, Releases, Keeps
  <2>5. TypeInv'
    BY <1>1, <1>2, <2>1, <2>3, <2>4, QuietType DEF TypeInv, OpsType
  <2> QED
    BY <1>1, <1>2, <2>1, <2>3, <2>5 DEF Lets, Quiet
<1>4. CASE op[o].claimed = {}
  <2>1. Ends(o)
    BY <1>4 DEF CreateTailFails
  <2> QED
    BY <1>1, <1>2, <1>4, <2>1, EndsStep
<1> QED
    BY <1>3, <1>4

LEMMA ReleaseStep ==
    ASSUME TypeInv, NEW o \in Op, ReleaseDeferred(o)
    PROVE  TypeInv' /\ (Idles(o) \/ Lets(o, op[o].b))
<1> DEFINE b == op[o].b
<1>1. /\ op[o].pc = "begin" /\ op[o].kind = "release"
      /\ UNCHANGED <<copied, gone, shadow, dir, record, up, leaked, bounds>>
    BY DEF ReleaseDeferred, At
<1>2. op[o] \in OpState /\ Shape(op[o]) /\ ProcOf[o] \in up /\ b \in Backup /\ ~op[o].cancelled
      /\ op[o].reg = {}
    BY <1>1, OpType DEF Shape, Creating, Releases
<1>3. CASE record[b].some
  <2>1. /\ op' = [op EXCEPT ![o] = Releasing(o, b, "unfreeze")] /\ lock' = lock
        /\ waived' = waived \cup Copiers(b)
    BY <1>3 DEF ReleaseDeferred, release_now
  <2>2. copied' \subseteq Op /\ waived' \subseteq Op /\ up' = up
    BY <1>1, <2>1 DEF Copiers, TypeInv, OpsType
  <2>3. /\ OpsType' /\ Others(o) /\ Keeps(o) /\ op'[o].reg = op[o].reg
        /\ op'[o].pc = "unfreeze" /\ op'[o].rel = b /\ op'[o].held = record[b].retained
    BY <1>1, <1>2, <2>1, <2>2, LetsType
  <2>4. StoreType' /\ BoundsType'
    BY <1>1, StoreSame, BoundsSame
  <2> QED
    BY <1>1, <1>2, <2>1, <2>3, <2>4 DEF Lets, TypeInv
<1>4. CASE ~record[b].some
  <2>1. Ends(o) /\ Quiet
    BY <1>1, <1>4 DEF ReleaseDeferred, Quiet
  <2> QED
    BY <1>1, <1>2, <2>1, EndsStep
<1> QED
    BY <1>3, <1>4

LEMMA BrokenStartStep ==
    ASSUME TypeInv, NEW o \in Op, CleanBrokenStart(o)
    PROVE  TypeInv' /\ Paces(o)
<1> DEFINE td == {b \in Backup : dir[b] = "partial"}
<1>1. op[o].pc = "begin" /\ op[o].kind = "clean_broken" /\ Quiet /\ lock' = lock
    BY DEF CleanBrokenStart, At, Quiet
<1>2. td \in SUBSET Backup /\ op' = [op EXCEPT ![o].pc = "broken", ![o].todo = td]
    BY DEF CleanBrokenStart
<1>3. op[o] \in OpState /\ Shape(op[o]) /\ ProcOf[o] \in up
    BY <1>1, OpType
<1> HIDE DEF td
<1>4. Moves(o, [op[o] EXCEPT !.pc = "broken", !.todo = td])
    BY <1>2, TodoMoves DEF Labels
<1>5. /\ Others(o) /\ Keeps(o) /\ KeepsRelease(o) /\ op'[o].pc = "broken" /\ op'[o].reg = op[o].reg
    BY <1>1, <1>3, <1>4 DEF Moves, OpState, Others, Keeps, KeepsRelease, Quiet
<1>6. Shape(op'[o]) /\ op'[o].rel = Global
    BY <1>1, <1>3, <1>5 DEF Shape, Creating, Releases, Keeps, KeepsRelease
<1>7. TypeInv'
    BY <1>1, <1>3, <1>5, <1>6, QuietType DEF TypeInv, OpsType
<1> QED
    BY <1>1, <1>5, <1>6, <1>7 DEF Paces, Creating

(* The directory of b and its record go, or nothing changes on disk. *)
Removes(b) ==
    /\ UNCHANGED <<copied, waived, gone, shadow, up, leaked, bounds>>
    /\ \/ UNCHANGED <<dir, record>>
       \/ /\ ~record[b].some /\ dir[b] # "none"
          /\ dir' = [dir EXCEPT ![b] = "none"]
          /\ record' = [record EXCEPT ![b] = NoRecord]
          /\ \A c \in Backup : record'[c].retained = record[c].retained
                               /\ record'[c].some = record[c].some
                               /\ (c # b => record'[c] = record[c])

LEMMA DeleteRemoves ==
    ASSUME TypeInv, NEW b \in Backup, delete_local(b),
           UNCHANGED <<copied, waived, gone, shadow, up, leaked, bounds>>
    PROVE  Removes(b) /\ StoreType' /\ BoundsType'
<1>1. StoreType' /\ BoundsType'
    BY DeleteType, BoundsSame
<1>2. CASE UNCHANGED <<dir, record>>
    BY <1>1, <1>2 DEF Removes
<1>3. CASE /\ dir[b] # "none" /\ ~blocks_destructive_op(b)
           /\ dir' = [dir EXCEPT ![b] = "none"]
           /\ record' = [record EXCEPT ![b] = NoRecord]
  <2>1. ~record[b].some /\ record[b].some \in BOOLEAN
    BY <1>3 DEF blocks_destructive_op, status_inner, TypeInv, StoreType, Record
  <2>2. record'[b] = NoRecord /\ \A c \in Backup : c # b => record'[c] = record[c]
    BY <1>3 DEF TypeInv, StoreType
  <2>3. NoRecord.retained = {} /\ NoRecord.some = FALSE /\ record[b].retained = {}
    BY <2>1 DEF NoRecord, TypeInv, StoreType
  <2>4. record[b].some = FALSE
    BY <2>1
  <2>5. \A c \in Backup : record'[c].retained = record[c].retained
                               /\ record'[c].some = record[c].some
                               /\ (c # b => record'[c] = record[c])
    BY <2>2, <2>3, <2>4
  <2> QED
    BY <1>1, <1>3, <2>1, <2>5 DEF Removes
<1> QED
    BY <1>2, <1>3 DEF delete_local

LEMMA DeleteStep ==
    ASSUME TypeInv, NEW o \in Op, DeleteLocal(o) \/ UploadDone(o)
    PROVE  /\ TypeInv' /\ Others(o) /\ op'[o] = Idle /\ lock' = Unlocked(o) /\ op[o].reg = {}
           /\ op[o].kind \in {"delete", "upload"} /\ op[o].b \in Backup
           /\ op[o].kind = "delete" => op[o].pc = "begin"
           /\ op[o].kind = "upload" => op[o].pc = "cleanup"
           /\ \E b \in Backup : Removes(b) /\ (b = op[o].b \/ dir[b] = "complete")
<1>1. /\ Ends(o) /\ UNCHANGED <<copied, waived, gone, shadow, up, leaked, bounds>>
      /\ op[o].kind \in {"delete", "upload"}
      /\ op[o].kind = "delete" => op[o].pc = "begin"
      /\ op[o].kind = "upload" => op[o].pc = "cleanup"
    BY DEF DeleteLocal, UploadDone, At
<1>2. op[o].b \in Backup /\ op[o].reg = {}
    BY <1>1, OpType DEF Shape
<1>3. \/ delete_local(op[o].b)
      \/ \E b \in Backup : dir[b] = "complete" /\ delete_local(b)
      \/ UNCHANGED <<dir, record>>
    BY DEF DeleteLocal, UploadDone
<1>4. /\ \E b \in Backup : Removes(b) /\ (b = op[o].b \/ dir[b] = "complete")
      /\ StoreType' /\ BoundsType'
  <2>1. CASE delete_local(op[o].b)
    BY <1>1, <1>2, <2>1, DeleteRemoves
  <2>2. CASE \E b \in Backup : dir[b] = "complete" /\ delete_local(b)
    BY <1>1, <2>2, DeleteRemoves
  <2>3. CASE UNCHANGED <<dir, record>>
    BY <1>1, <1>2, <2>3, StoreSame, BoundsSame DEF Removes
  <2> QED
    BY <1>3, <2>1, <2>2, <2>3
<1>5. Others(o) /\ op'[o] = Idle /\ lock' = Unlocked(o)
    BY <1>1, EndsIdle DEF Ends
<1>6. OpsType'
    BY <1>1, EndsType DEF TypeInv, OpsType
<1> QED
    BY <1>1, <1>2, <1>4, <1>5, <1>6 DEF TypeInv

LEMMA BrokenStep ==
    ASSUME TypeInv, NEW o \in Op, CleanBrokenLocal(o)
    PROVE  /\ TypeInv'
           /\ \/ Idles(o)
              \/ \E b \in Backup : Lets(o, b)
              \/ /\ Others(o) /\ Keeps(o) /\ lock' = lock /\ op'[o].pc = "broken" /\ op[o].pc = "broken"
                 /\ op'[o].rel = Global /\ op'[o].reg = op[o].reg
                 /\ \E b \in Backup : Removes(b)
<1>1. /\ op[o].pc = "broken" /\ op[o].kind = "clean_broken"
      /\ UNCHANGED <<copied, gone, shadow, up, leaked, bounds>>
    BY DEF CleanBrokenLocal, At
<1>2. op[o] \in OpState /\ Shape(op[o]) /\ ProcOf[o] \in up /\ ~op[o].cancelled
      /\ op[o].reg = {} /\ op[o].todo \subseteq Backup
    BY <1>1, OpType DEF Shape, Creating, Releases
<1>3. CASE op[o].todo = {}
  <2>1. Ends(o) /\ Quiet
    BY <1>1, <1>3 DEF CleanBrokenLocal, Quiet
  <2> QED
    BY <1>1, <1>2, <2>1, EndsStep
<1>4. ASSUME NEW b \in op[o].todo, release_now(o, b), UNCHANGED <<dir, record, lock>>
      PROVE  TypeInv' /\ Lets(o, b) /\ b \in Backup
  <2>1. /\ op' = [op EXCEPT ![o] = Releasing(o, b, "unfreeze")] /\ lock' = lock /\ b \in Backup
        /\ waived' = waived \cup Copiers(b)
    BY <1>2, <1>4 DEF release_now
  <2>2. copied' \subseteq Op /\ waived' \subseteq Op /\ up' = up
    BY <1>1, <2>1 DEF Copiers, TypeInv, OpsType
  <2>3. /\ OpsType' /\ Others(o) /\ Keeps(o) /\ op'[o].reg = op[o].reg
        /\ op'[o].pc = "unfreeze" /\ op'[o].rel = b /\ op'[o].held = record[b].retained
    BY <1>1, <1>2, <2>1, <2>2, LetsType
  <2>4. StoreType' /\ BoundsType'
    BY <1>1, <1>4, StoreSame, BoundsSame
  <2> QED
    BY <1>1, <1>2, <1>4, <2>1, <2>3, <2>4 DEF Lets, TypeInv
<1>5. ASSUME NEW b \in op[o].todo, ~record[b].some, delete_local(b),
             op' = [op EXCEPT ![o].todo = @ \ {b}], UNCHANGED <<lock, waived>>
      PROVE  /\ TypeInv' /\ Others(o) /\ Keeps(o) /\ lock' = lock /\ op'[o].pc = "broken"
             /\ op'[o].rel = Global /\ op'[o].reg = op[o].reg
             /\ Removes(b) /\ b \in Backup
  <2> DEFINE td == op[o].todo \ {b}
  <2>1. b \in Backup /\ td \in SUBSET Backup
    BY <1>2
  <2>2. op' = [op EXCEPT ![o].pc = "broken", ![o].todo = td]
    BY <1>1, <1>2, <1>5 DEF TypeInv, OpsType, OpState
  <2> HIDE DEF td
  <2>3. Moves(o, [op[o] EXCEPT !.pc = "broken", !.todo = td])
    BY <2>1, <2>2, TodoMoves DEF Labels
  <2>4. /\ Others(o) /\ Keeps(o) /\ KeepsRelease(o) /\ op'[o].pc = "broken" /\ op'[o].reg = op[o].reg
    BY <1>1, <1>2, <2>3 DEF Moves, OpState, Others, Keeps, KeepsRelease
  <2>5. Shape(op'[o]) /\ op'[o].rel = Global
    BY <1>1, <1>2, <2>4 DEF Shape, Creating, Releases, Keeps, KeepsRelease
  <2>6. Removes(b) /\ StoreType' /\ BoundsType'
    BY <1>1, <1>5, <2>1, DeleteRemoves
  <2>7. /\ lock' \in [Backup \cup {Global} -> Op \cup {NoOp}] /\ up' = up
        /\ copied' \subseteq Op /\ waived' \subseteq Op
    BY <1>1, <1>5 DEF TypeInv, OpsType
  <2>8. OpsType'
    BY <1>2, <2>4, <2>5, <2>7, MoveType DEF Others
  <2> QED
    BY <1>5, <2>1, <2>4, <2>5, <2>6, <2>8 DEF TypeInv
<1>6. CASE op[o].todo # {}
  <2>1. \E b \in op[o].todo :
              \/ /\ release_now(o, b)
                 /\ UNCHANGED <<dir, record, lock>>
              \/ /\ ~record[b].some
                 /\ delete_local(b)
                 /\ op' = [op EXCEPT ![o].todo = @ \ {b}]
                 /\ UNCHANGED <<lock, waived>>
    BY <1>6 DEF CleanBrokenLocal
  <2> QED
    BY <1>1, <1>4, <1>5, <2>1
<1> QED
    BY <1>3, <1>6

LEMMA StartStep ==
    ASSUME TypeInv, NEW o \in Op, NEW kind \in Kinds, NEW b \in Backup \cup {Global},
           Start(o, kind, b)
    PROVE  /\ TypeInv' /\ Others(o) /\ op[o].pc = "idle" /\ op'[o].pc = "begin"
           /\ op'[o].kind = kind /\ op'[o].b = b /\ op'[o].rel = Global /\ op'[o].reg = {}
           /\ ~op'[o].cancelled /\ kind \in AllKinds /\ Scope(kind, b) \in Backup \cup {Global}
           /\ LockFree(Scope(kind, b)) /\ lock' = [lock EXCEPT ![Scope(kind, b)] = o]
           /\ UNCHANGED <<copied, waived, gone, shadow, dir, record, leaked, faultsLeft, crashesLeft>>
<1> DEFINE td == IF kind = "create" THEN Backup ELSE {}
<1>1. /\ op[o].pc = "idle" /\ ProcOf[o] \in up /\ opsLeft > 0 /\ opsLeft' = opsLeft - 1
      /\ b = Global => kind \in {"clean", "clean_broken"}
      /\ kind = "clean_broken" => b = Global
      /\ kind = "clean" /\ b = Global => UnnamedClean
      /\ LockFree(Scope(kind, b)) /\ lock' = [lock EXCEPT ![Scope(kind, b)] = o]
      /\ UNCHANGED <<copied, waived, gone, shadow, dir, record, up, leaked, faultsLeft, crashesLeft>>
    BY DEF Start
<1>2. Moves(o, [Idle EXCEPT !.kind = kind, !.b = b, !.pc = "begin", !.todo = td])
    BY StartMoves
<1> HIDE DEF td
<1>3. kind \in AllKinds /\ Scope(kind, b) \in Backup \cup {Global}
    BY FreezeAssumption DEF Scope
<1>4. /\ Others(o) /\ op'[o].pc = "begin"
      /\ op'[o].kind = kind /\ op'[o].b = b /\ op'[o].rel = Global /\ op'[o].reg = {}
      /\ ~op'[o].cancelled /\ op'[o].failed = {} /\ op'[o].held = {}
    BY <1>1, <1>2 DEF Moves, Others, Idle
<1>5. Shape(op'[o])
    BY <1>1, <1>3, <1>4 DEF Shape, Creating, Releases, AllKinds
<1>6. /\ lock' \in [Backup \cup {Global} -> Op \cup {NoOp}]
      /\ copied' \subseteq Op /\ waived' \subseteq Op /\ up' = up
    BY <1>1, <1>3 DEF TypeInv, OpsType
<1>7. OpsType'
    BY <1>1, <1>4, <1>5, <1>6, MoveType DEF Others
<1>8. StoreType'
    BY <1>1, StoreSame
<1>9. BoundsType'
    BY <1>1 DEF TypeInv, BoundsType
<1> QED
    BY <1>1, <1>3, <1>4, <1>7, <1>8, <1>9 DEF TypeInv

LEMMA DirStep ==
    ASSUME TypeInv, NEW o \in Op, CreateDir(o)
    PROVE  /\ TypeInv' /\ Others(o) /\ Keeps(o) /\ KeepsRelease(o) /\ op'[o].reg = op[o].reg
           /\ op[o].kind = "create" /\ op[o].pc = "reap" /\ op'[o].pc = "freeze"
           /\ op[o].b \in Backup /\ dir[op[o].b] = "none"
           /\ dir' = [dir EXCEPT ![op[o].b] = "partial"]
           /\ UNCHANGED <<copied, waived, gone, shadow, record, lock, leaked, bounds>>
<1>1. /\ op[o].kind = "create" /\ op[o].pc = "reap" /\ dir[op[o].b] = "none"
      /\ dir' = [dir EXCEPT ![op[o].b] = "partial"]
      /\ UNCHANGED <<copied, waived, gone, shadow, record, lock, up, leaked, bounds>>
    BY DEF CreateDir, At
<1>2. op[o] \in OpState /\ Shape(op[o]) /\ ProcOf[o] \in up /\ op[o].b \in Backup
    BY <1>1, OpType DEF Shape
<1>3. Moves(o, [op[o] EXCEPT !.pc = "freeze"])
    BY GotoMoves DEF CreateDir, Goto, Labels
<1>4. Others(o) /\ Keeps(o) /\ KeepsRelease(o) /\ op'[o].reg = op[o].reg /\ op'[o].pc = "freeze"
    BY <1>1, <1>2, <1>3 DEF Moves, OpState, Others, Keeps, KeepsRelease
<1>5. Shape(op'[o])
    BY <1>1, <1>2, <1>4 DEF Shape, Creating, Releases, Keeps, KeepsRelease
<1>6. OpsType'
    BY <1>1, <1>2, <1>4, <1>5, MoveType DEF Others, TypeInv, OpsType
<1>7. StoreType' /\ BoundsType'
    BY <1>1, <1>2, BoundsSame DEF TypeInv, StoreType
<1> QED
    BY <1>1, <1>2, <1>4, <1>6, <1>7 DEF TypeInv

(* A FREEZE takes effect: the registry has it, or it is known to be lost. *)
Freezes(o, t) == TaskFrozen(o, t) \/ TaskLost(o, t)

LEMMA FrozenStep ==
    ASSUME TypeInv, NEW o \in Op, NEW t \in Table, Freezes(o, t)
    PROVE  /\ TypeInv' /\ Others(o) /\ Keeps(o) /\ KeepsRelease(o)
           /\ op[o].kind = "create" /\ op[o].pc \in {"freeze", "orphan"} /\ op'[o].pc = op[o].pc
           /\ op[o].b \in Backup /\ shadow' = [shadow EXCEPT ![op[o].b] = @ \cup {t}]
           /\ op[o].reg \subseteq op'[o].reg /\ op'[o].reg \subseteq op[o].reg \cup {t}
           /\ t \in op'[o].reg \/ \E c \in Causes : <<op[o].b, t>> \in leaked'[c]
           /\ \A c \in Causes : leaked[c] \subseteq leaked'[c]
           /\ GoneKept /\ UNCHANGED <<copied, waived, dir, record, lock, opsLeft, crashesLeft>>
<1>1. /\ op[o].pc \in {"freeze", "orphan"} /\ shadow' = [shadow EXCEPT ![op[o].b] = @ \cup {t}]
      /\ gone' = Refrozen
      /\ UNCHANGED <<copied, waived, dir, record, lock, up, opsLeft, crashesLeft>>
    BY DEF Freezes, TaskFrozen, TaskLost, bounds
<1>2. op[o] \in OpState /\ Shape(op[o]) /\ ProcOf[o] \in up /\ op[o].b \in Backup /\ op[o].kind = "create"
    BY <1>1, OpType DEF Shape, Creating
<1>3. /\ leaked' \in [Causes -> SUBSET (Backup \X Table)]
      /\ \A c \in Causes : leaked[c] \subseteq leaked'[c]
      /\ (TaskFrozen(o, t) /\ op[o].pc = "freeze") \/ \E c \in Causes : <<op[o].b, t>> \in leaked'[c]
  <2>1. CASE TaskFrozen(o, t) /\ op[o].pc = "freeze"
    BY <2>1 DEF TaskFrozen, TypeInv, StoreType
  <2>2. CASE TaskFrozen(o, t) /\ op[o].pc # "freeze"
    <3>1. Leak("detached", op[o].b, {t})
      BY <2>2 DEF TaskFrozen
    <3> QED
      BY <1>2, <3>1, LeakType DEF Causes
  <2>3. CASE TaskLost(o, t)
    <3>1. Leak("lost", op[o].b, {t})
      BY <2>3 DEF TaskLost
    <3> QED
      BY <1>2, <3>1, LeakType DEF Causes
  <2> QED
    BY <2>1, <2>2, <2>3 DEF Freezes
<1>4. PICK tk \in [Table -> TaskStates], rg \in SUBSET Table :
        /\ Moves(o, [op[o] EXCEPT !.task = tk, !.reg = rg])
        /\ op[o].reg \subseteq rg /\ rg \subseteq op[o].reg \cup {t}
        /\ TaskFrozen(o, t) /\ op[o].pc = "freeze" => t \in rg
        /\ op[o].pc = "orphan" => rg = op[o].reg
  <2>1. CASE TaskFrozen(o, t)
    <3> DEFINE tk == [op[o].task EXCEPT ![t] = "frozen"]
               rg == IF op[o].pc = "freeze" THEN op[o].reg \cup {t} ELSE op[o].reg
    <3>1. tk \in [Table -> TaskStates] /\ rg \in SUBSET Table
      BY <1>2 DEF OpState, TaskStates
    <3>2. /\ op[o].reg \subseteq rg /\ rg \subseteq op[o].reg \cup {t}
          /\ op[o].pc = "freeze" => t \in rg
          /\ op[o].pc = "orphan" => rg = op[o].reg
      OBVIOUS
    <3>3. Moves(o, [op[o] EXCEPT !.task = tk, !.reg = rg])
      BY <2>1, FrozenMoves
    <3> HIDE DEF tk, rg
    <3> QED
      BY <3>1, <3>2, <3>3
  <2>2. CASE TaskLost(o, t) /\ ~TaskFrozen(o, t)
    <3> DEFINE tk == [op[o].task EXCEPT ![t] = "fail"]
    <3>1. tk \in [Table -> TaskStates] /\ op[o].reg \in SUBSET Table
      BY <1>2 DEF OpState, TaskStates
    <3>2. Moves(o, [op[o] EXCEPT !.task = tk])
      BY <2>2, LostMoves
    <3> HIDE DEF tk
    <3>3. [op[o] EXCEPT !.task = tk] = [op[o] EXCEPT !.task = tk, !.reg = op[o].reg]
      BY <1>2 DEF OpState
    <3> QED
      BY <2>2, <3>1, <3>2, <3>3
  <2> QED
    BY <2>1, <2>2 DEF Freezes
<1>5. Others(o) /\ Keeps(o) /\ KeepsRelease(o) /\ op'[o].reg = rg /\ op'[o].pc = op[o].pc
    BY <1>1, <1>2, <1>4 DEF Moves, OpState, Others, Keeps, KeepsRelease
<1>6. Shape(op'[o])
    BY <1>1, <1>2, <1>4, <1>5 DEF Shape, Creating, Releases, Keeps, KeepsRelease
<1>7. OpsType'
    BY <1>1, <1>2, <1>5, <1>6, MoveType DEF Others, TypeInv, OpsType
<1>8. shadow' \in [Backup -> SUBSET Table]
    BY <1>1, <1>2 DEF TypeInv, StoreType
<1>9. gone' \in SUBSET (Backup \X Table) /\ GoneKept
    BY <1>1, GoneRefrozen
<1>10. StoreType'
    BY <1>1, <1>3, <1>8, <1>9 DEF TypeInv, StoreType
<1>11. BoundsType'
  <2>1. CASE TaskFrozen(o, t)
    BY <2>1, BoundsSame DEF TaskFrozen
  <2>2. CASE TaskLost(o, t)
    <3>1. faultsLeft' \in Nat
      BY <2>2, SingleFault DEF TaskLost
    <3> QED
      BY <1>1, <3>1 DEF TypeInv, BoundsType
  <2> QED
    BY <2>1, <2>2 DEF Freezes
<1>12. t \in op'[o].reg \/ \E c \in Causes : <<op[o].b, t>> \in leaked'[c]
    BY <1>3, <1>4, <1>5
<1> QED
    BY <1>1, <1>2, <1>3, <1>4, <1>5, <1>7, <1>9, <1>10, <1>11, <1>12 DEF TypeInv

(* unfreeze_all of a create's registry: what fails is known to be lost. *)
LEMMA RegistryUnfrozen ==
    ASSUME TypeInv, NEW o \in Op, op[o].b \in Backup, UnfreezeRegistry(o, op[o].reg)
    PROVE  /\ shadow' \in [Backup -> SUBSET Table] /\ leaked' \in [Causes -> SUBSET (Backup \X Table)]
           /\ faultsLeft' \in Nat
           /\ \A c \in Causes : leaked[c] \subseteq leaked'[c]
           /\ \E failed \in SUBSET op[o].reg :
                /\ shadow' = [shadow EXCEPT ![op[o].b] = @ \ (op[o].reg \ failed)]
                /\ \A t \in failed : <<op[o].b, t>> \in leaked'["unfreeze"]
<1>1. PICK failed \in SUBSET op[o].reg :
        /\ Fault(failed)
        /\ shadow' = [shadow EXCEPT ![op[o].b] = @ \ (op[o].reg \ failed)]
        /\ Leak("unfreeze", op[o].b, failed)
    BY DEF UnfreezeRegistry
<1>2. failed \in SUBSET Table /\ IsFiniteSet(failed)
    BY OpType, FreezesFinite
<1>3. faultsLeft' \in Nat
    BY <1>1, <1>2, FaultCount
<1>4. /\ leaked' \in [Causes -> SUBSET (Backup \X Table)]
      /\ \A c \in Causes : leaked[c] \subseteq leaked'[c]
      /\ \A t \in failed : <<op[o].b, t>> \in leaked'["unfreeze"]
    BY <1>1, <1>2, LeakType DEF Causes
<1>5. shadow' \in [Backup -> SUBSET Table]
    BY <1>1 DEF TypeInv, StoreType
<1> QED
    BY <1>1, <1>3, <1>4, <1>5

LEMMA UndoStep ==
    ASSUME TypeInv, NEW o \in Op, CreateUndo(o) \/ UnfreezeRest(o)
    PROVE  /\ TypeInv' /\ Others(o) /\ Keeps(o) /\ KeepsRelease(o) /\ op'[o].reg = {}
           /\ op[o].kind = "create" /\ op[o].b \in Backup
           /\ \/ /\ op[o].pc = "undo" /\ op'[o].pc = "reap" /\ dir' = [dir EXCEPT ![op[o].b] = "none"]
                 /\ record'[op[o].b] = NoRecord
              \/ op[o].pc = "rest" /\ op'[o].pc = "tail" /\ dir' = dir /\ record' = record
           /\ \A c \in Backup : c # op[o].b => record'[c] = record[c]
           /\ \A c \in Causes : leaked[c] \subseteq leaked'[c]
           /\ \E failed \in SUBSET op[o].reg :
                /\ shadow' = [shadow EXCEPT ![op[o].b] = @ \ (op[o].reg \ failed)]
                /\ \A t \in failed : <<op[o].b, t>> \in leaked'["unfreeze"]
           /\ UNCHANGED <<copied, waived, gone, lock, opsLeft, crashesLeft>>
<1>1. /\ op[o].kind = "create" /\ UnfreezeRegistry(o, op[o].reg)
      /\ UNCHANGED <<copied, waived, gone, lock, up, opsLeft, crashesLeft>>
      /\ \/ /\ op[o].pc = "undo" /\ dir' = [dir EXCEPT ![op[o].b] = "none"]
            /\ record' = [record EXCEPT ![op[o].b] = NoRecord]
            /\ op' = [op EXCEPT ![o].pc = "reap", ![o].reg = {}, ![o].todo = Backup]
         \/ /\ op[o].pc = "rest" /\ dir' = dir /\ record' = record
            /\ op' = [op EXCEPT ![o].pc = "tail", ![o].reg = {}]
    BY DEF CreateUndo, UnfreezeRest, At
<1>2. op[o] \in OpState /\ Shape(op[o]) /\ ProcOf[o] \in up /\ op[o].b \in Backup /\ op[o].kind = "create"
    BY <1>1, OpType DEF Shape
<1>3. /\ Others(o) /\ Keeps(o) /\ KeepsRelease(o) /\ op'[o].reg = {}
      /\ op[o].pc = "undo" => op'[o].pc = "reap"
      /\ op[o].pc = "rest" => op'[o].pc = "tail"
  <2>1. CASE op[o].pc = "undo"
    <3>1. Moves(o, [op[o] EXCEPT !.pc = "reap", !.reg = {}, !.todo = Backup])
      BY <1>1, <2>1, RegMoves DEF Labels
    <3> QED
      BY <1>1, <1>2, <2>1, <3>1 DEF Moves, OpState, Others, Keeps, KeepsRelease
  <2>2. CASE op[o].pc = "rest"
    <3>1. Moves(o, [op[o] EXCEPT !.pc = "tail", !.reg = {}])
      BY <1>1, <2>2, RestMoves DEF Labels
    <3> QED
      BY <1>1, <1>2, <2>2, <3>1 DEF Moves, OpState, Others, Keeps, KeepsRelease
  <2> QED
    BY <1>1, <2>1, <2>2
<1>4. Shape(op'[o])
    BY <1>1, <1>2, <1>3 DEF Shape, Creating, Releases, Keeps, KeepsRelease
<1>5. OpsType'
    BY <1>1, <1>2, <1>3, <1>4, MoveType DEF Others, TypeInv, OpsType
<1>6. dir' \in [Backup -> {"none", "partial", "complete"}]
    BY <1>1, <1>2 DEF TypeInv, StoreType
<1>7. /\ shadow' \in [Backup -> SUBSET Table] /\ leaked' \in [Causes -> SUBSET (Backup \X Table)]
      /\ faultsLeft' \in Nat
      /\ \A c \in Causes : leaked[c] \subseteq leaked'[c]
      /\ \E failed \in SUBSET op[o].reg :
           /\ shadow' = [shadow EXCEPT ![op[o].b] = @ \ (op[o].reg \ failed)]
           /\ \A t \in failed : <<op[o].b, t>> \in leaked'["unfreeze"]
    BY <1>1, <1>2, RegistryUnfrozen
<1>8. /\ record' \in [Backup -> Record]
      /\ \A c \in Backup : record'[c].some <=> record'[c].retained # {}
      /\ op[o].pc = "undo" => record'[op[o].b] = NoRecord
      /\ \A c \in Backup : c # op[o].b => record'[c] = record[c]
  <2>1. CASE record' = record /\ op[o].pc = "rest"
    BY <2>1 DEF TypeInv, StoreType
  <2>2. CASE record' = [record EXCEPT ![op[o].b] = NoRecord]
    BY <1>2, <2>2, RecordType, RecordValues
  <2> QED
    BY <1>1, <2>1, <2>2
<1>9. StoreType' /\ BoundsType'
    BY <1>1, <1>6, <1>7, <1>8 DEF TypeInv, StoreType, BoundsType
<1> QED
    BY <1>1, <1>2, <1>3, <1>5, <1>7, <1>8, <1>9 DEF TypeInv

LEMMA SweepStep ==
    ASSUME TypeInv, NEW o \in Op, CreateSweep(o) \/ clean_shadow(o)
    PROVE  /\ TypeInv' /\ Others(o) /\ op'[o] = Idle /\ lock' = Unlocked(o) /\ op[o].reg = {}
           /\ \/ op[o].kind = "create" /\ op[o].pc = "reap"
              \/ op[o].kind = "clean" /\ op[o].pc = "begin"
           /\ \A c \in Backup :
                \/ shadow'[c] = shadow[c]
                \/ /\ shadow'[c] = {} /\ ~record[c].some
                   /\ \/ op[o].kind = "create" /\ op[o].b = c
                      \/ op[o].kind = "clean" /\ lock[c] = NoOp
                \/ /\ shadow'[c] = {} /\ op[o].kind = "clean" /\ lock[c] = NoOp
                   /\ \A t \in Table : <<c, t>> \in gone'
                   /\ \A q \in Op : op[q].b = c => q \in waived'
           /\ gone \subseteq gone' /\ waived \subseteq waived'
           /\ UNCHANGED <<copied, dir, record, leaked, bounds>>
<1>1. /\ Ends(o) /\ UNCHANGED <<copied, dir, record, up, leaked, bounds>>
      /\ \/ op[o].kind = "create" /\ op[o].pc = "reap"
         \/ op[o].kind = "clean" /\ op[o].pc = "begin"
    BY DEF CreateSweep, clean_shadow, At
<1>2. op[o] \in OpState /\ Shape(op[o]) /\ op[o].reg = {} /\ op[o].b \in Backup \cup {Global}
      /\ (op[o].kind = "create" => op[o].b \in Backup)
    BY <1>1, OpType DEF Shape, OpState
<1>3. Others(o) /\ op'[o] = Idle /\ lock' = Unlocked(o)
    BY <1>1, EndsIdle DEF Ends
<1>5. /\ shadow' \in [Backup -> SUBSET Table]
      /\ gone' \in SUBSET (Backup \X Table) /\ waived' \subseteq Op
      /\ gone \subseteq gone' /\ waived \subseteq waived'
      /\ \A c \in Backup :
           \/ shadow'[c] = shadow[c]
           \/ /\ shadow'[c] = {} /\ ~blocks_destructive_op(c)
              /\ \/ op[o].kind = "create" /\ op[o].b = c
                 \/ op[o].kind = "clean" /\ lock[c] = NoOp
           \/ /\ shadow'[c] = {} /\ op[o].kind = "clean" /\ lock[c] = NoOp
              /\ \A t \in Table : <<c, t>> \in gone'
              /\ \A q \in Op : op[q].b = c => q \in waived'
  <2>1. CASE CreateSweep(o)
    BY <1>2, <2>1 DEF CreateSweep, At, TypeInv, StoreType, OpsType
  <2>2. CASE clean_shadow(o)
    <3> DEFINE b == op[o].b
               swept == IF b = Global THEN {c \in Backup : lock[c] = NoOp}
                        ELSE {c \in {b} : ~blocks_destructive_op(c) /\ lock[c] = NoOp}
               unasked == IF b = Global THEN swept ELSE {}
    <3>1. /\ shadow' = [c \in Backup |-> IF c \in swept THEN {} ELSE shadow[c]]
          /\ gone' = gone \cup (unasked \X Table)
          /\ waived' = waived \cup {q \in Op : op[q].b \in unasked}
          /\ op[o].kind = "clean"
      BY <2>2 DEF clean_shadow, At
    <3>2. \A c \in swept : /\ c \in Backup /\ lock[c] = NoOp
                           /\ ~blocks_destructive_op(c) \/ c \in unasked
      BY <1>2
    <3>3. unasked \subseteq Backup
      BY <3>2
    <3> HIDE DEF swept, unasked
    <3>4. gone' \in SUBSET (Backup \X Table) /\ waived' \subseteq Op /\ gone \subseteq gone' /\ waived \subseteq waived'
      BY <3>1, <3>3 DEF TypeInv, StoreType, OpsType
    <3>5. shadow' \in [Backup -> SUBSET Table]
      BY <3>1 DEF TypeInv, StoreType
    <3>6. \A c \in unasked : /\ \A t \in Table : <<c, t>> \in gone'
                             /\ \A q \in Op : op[q].b = c => q \in waived'
      BY <3>1
    <3> QED
      BY <3>1, <3>2, <3>4, <3>5, <3>6
  <2> QED
    BY <2>1, <2>2
<1>4. OpsType'
    BY <1>1, <1>5, EndsType DEF TypeInv, OpsType
<1>6. \A c \in Backup : ~blocks_destructive_op(c) => ~record[c].some
    BY DEF blocks_destructive_op, status_inner
<1>7. StoreType' /\ BoundsType'
    BY <1>1, <1>5, BoundsSame DEF TypeInv, StoreType
<1> QED
    BY <1>1, <1>2, <1>3, <1>4, <1>5, <1>6, <1>7 DEF TypeInv

LEMMA SplitStep ==
    ASSUME TypeInv, NEW o \in Op, SplitFreeze(o)
    PROVE  /\ TypeInv' /\ Others(o) /\ KeepsRelease(o) /\ op'[o].kind = op[o].kind
           /\ op'[o].b = op[o].b /\ op'[o].cancelled = op[o].cancelled
           /\ op[o].kind = "create" /\ op[o].pc = "split" /\ op'[o].pc = "rest" /\ op[o].b \in Backup
           /\ \/ record' = record /\ dir' = dir /\ op'[o].reg = op[o].reg /\ op'[o].claimed = {}
              \/ \E kept \in SUBSET op[o].reg :
                   /\ kept # {} /\ op'[o].reg = op[o].reg \ kept /\ op'[o].claimed = kept
                   /\ record' = [record EXCEPT ![op[o].b] = new(ProcOf[o], kept)]
                   /\ dir' = [dir EXCEPT ![op[o].b] = IF @ = "none" THEN "partial" ELSE @]
           /\ UNCHANGED <<copied, waived, gone, shadow, lock, leaked, opsLeft, crashesLeft>>
<1> DEFINE kept == op[o].reg \cap s3_tables(o)
<1>1. /\ op[o].kind = "create" /\ op[o].pc = "split"
      /\ UNCHANGED <<copied, waived, gone, shadow, lock, up, leaked, opsLeft, crashesLeft>>
    BY DEF SplitFreeze, At
<1>2. op[o] \in OpState /\ Shape(op[o]) /\ ProcOf[o] \in up /\ op[o].b \in Backup /\ op[o].reg \subseteq Table
      /\ ProcOf[o] \in Proc
    BY <1>1, OpType DEF Shape
<1>3. PICK published \in BOOLEAN :
        /\ Fault(IF kept # {} /\ ~published THEN {op[o].b} ELSE {})
        /\ IF kept # {} /\ published
           THEN record' = [record EXCEPT ![op[o].b] = new(ProcOf[o], kept)] /\ publish(op[o].b)
           ELSE UNCHANGED <<record, dir>>
        /\ op' = [op EXCEPT ![o].pc = "rest", ![o].reg = IF published THEN @ \ kept ELSE @,
                            ![o].claimed = IF published THEN kept ELSE {}]
    BY DEF SplitFreeze
<1> DEFINE rg == IF published THEN op[o].reg \ kept ELSE op[o].reg
           cl == IF published THEN kept ELSE {}
           fs == IF kept # {} /\ ~published THEN {op[o].b} ELSE {}
<1>4. kept \in SUBSET op[o].reg /\ rg \in SUBSET Table /\ cl \in SUBSET Table
    BY <1>2
<1>5. op' = [op EXCEPT ![o].pc = "rest", ![o].reg = rg, ![o].claimed = cl]
    BY <1>2, <1>3 DEF TypeInv, OpsType, OpState
<1>6. IsFiniteSet(fs) /\ Fault(fs)
    BY <1>3, FS_Singleton, FS_EmptySet
<1>7. \/ record' = record /\ dir' = dir /\ rg = op[o].reg /\ cl = {}
      \/ /\ kept # {} /\ rg = op[o].reg \ kept /\ cl = kept
         /\ record' = [record EXCEPT ![op[o].b] = new(ProcOf[o], kept)]
         /\ dir' = [dir EXCEPT ![op[o].b] = IF @ = "none" THEN "partial" ELSE @]
    BY <1>3, <1>4 DEF publish
<1> HIDE DEF kept, rg, cl, fs
<1>8. faultsLeft' \in Nat
    BY <1>6, FaultCount
<1>9. Moves(o, [op[o] EXCEPT !.pc = "rest", !.reg = rg, !.claimed = cl])
    BY <1>4, <1>5, SplitMoves DEF Labels
<1>10. /\ Others(o) /\ KeepsRelease(o) /\ op'[o].reg = rg /\ op'[o].claimed = cl /\ op'[o].pc = "rest"
       /\ op'[o].kind = op[o].kind /\ op'[o].b = op[o].b /\ op'[o].cancelled = op[o].cancelled
    BY <1>1, <1>2, <1>9 DEF Moves, OpState, Others, KeepsRelease
<1>11. Shape(op'[o])
    BY <1>1, <1>2, <1>10 DEF Shape, Creating, Releases, KeepsRelease
<1>12. OpsType'
    BY <1>1, <1>2, <1>10, <1>11, MoveType DEF Others, TypeInv, OpsType
<1>13. /\ record' \in [Backup -> Record]
       /\ \A c \in Backup : record'[c].some <=> record'[c].retained # {}
       /\ dir' \in [Backup -> {"none", "partial", "complete"}]
  <2>1. CASE record' = record /\ dir' = dir
    BY <2>1 DEF TypeInv, StoreType
  <2>2. CASE /\ kept # {} /\ record' = [record EXCEPT ![op[o].b] = new(ProcOf[o], kept)]
             /\ dir' = [dir EXCEPT ![op[o].b] = IF @ = "none" THEN "partial" ELSE @]
    <3> DEFINE r == new(ProcOf[o], kept)
    <3>1. r \in Record /\ r.some /\ r.retained # {} /\ record' = [record EXCEPT ![op[o].b] = r]
      BY <1>2, <1>4, <2>2, RecordValues
    <3>2. dir' \in [Backup -> {"none", "partial", "complete"}]
      BY <2>2 DEF TypeInv, StoreType
    <3> HIDE DEF r
    <3> QED
      BY <1>2, <3>1, <3>2, RecordType
  <2> QED
    BY <1>7, <2>1, <2>2
<1>14. StoreType' /\ BoundsType'
    BY <1>1, <1>8, <1>13 DEF TypeInv, StoreType, BoundsType
<1> QED
    BY <1>1, <1>2, <1>4, <1>7, <1>8, <1>10, <1>12, <1>14 DEF TypeInv

LEMMA TailStep ==
    ASSUME TypeInv, NEW o \in Op, CreateTail(o) \/ UploadFails(o)
    PROVE  /\ TypeInv' /\ Others(o) /\ op'[o] = Idle /\ lock' = Unlocked(o) /\ op[o].reg = {}
           /\ \/ /\ op[o].kind = "create" /\ op[o].pc = "tail" /\ waived' = waived
                 /\ dir' = [dir EXCEPT ![op[o].b] = "complete"]
              \/ /\ op[o].kind = "upload" /\ op[o].pc = "copy" /\ waived' = waived \cup Copiers(op[o].b)
                 /\ dir' = dir
           /\ op[o].b \in Backup
           /\ \A c \in Causes : leaked[c] \subseteq leaked'[c]
           /\ \A b \in Backup : b # op[o].b => record'[b] = record[b]
           /\ record'[op[o].b].some = record[op[o].b].some
           /\ record'[op[o].b].retained = record[op[o].b].retained
           /\ \/ record'[op[o].b].owner = Nobody
              \/ /\ record'[op[o].b].owner = record[op[o].b].owner
                 /\ record[op[o].b].some /\ record[op[o].b].owner = ProcOf[o] =>
                      \E t \in Table : <<op[o].b, t>> \in leaked'["owner"]
           /\ UNCHANGED <<copied, shadow, gone>>
<1>1. /\ Ends(o) /\ UNCHANGED <<copied, shadow, gone, up, opsLeft, crashesLeft>>
      /\ demote_on_operation_end(o, op[o].b)
      /\ \/ /\ op[o].kind = "create" /\ op[o].pc = "tail" /\ waived' = waived
            /\ dir' = [dir EXCEPT ![op[o].b] = "complete"]
         \/ /\ op[o].kind = "upload" /\ op[o].pc = "copy" /\ waived' = waived \cup Copiers(op[o].b)
            /\ dir' = dir
    BY DEF CreateTail, UploadFails, At
<1>2. op[o] \in OpState /\ Shape(op[o]) /\ op[o].reg = {} /\ op[o].b \in Backup
    BY <1>1, OpType DEF Shape, OpState
<1>3. Others(o) /\ op'[o] = Idle /\ lock' = Unlocked(o)
    BY <1>1, EndsIdle DEF Ends
<1>4. copied' \subseteq Op /\ waived' \subseteq Op
    BY <1>1 DEF TypeInv, OpsType, Copiers
<1>5. OpsType'
    BY <1>1, <1>4, EndsType
<1>6. /\ record' \in [Backup -> Record] /\ faultsLeft' \in Nat
      /\ \A c \in Backup : record'[c].some <=> record'[c].retained # {}
      /\ leaked' \in [Causes -> SUBSET (Backup \X Table)]
      /\ \A c \in Causes : leaked[c] \subseteq leaked'[c]
      /\ \A b \in Backup : b # op[o].b => record'[b] = record[b]
      /\ record'[op[o].b].some = record[op[o].b].some
      /\ record'[op[o].b].retained = record[op[o].b].retained
      /\ \/ record'[op[o].b].owner = Nobody
         \/ /\ record'[op[o].b].owner = record[op[o].b].owner
            /\ record[op[o].b].some /\ record[op[o].b].owner = ProcOf[o] =>
                 \E t \in Table : <<op[o].b, t>> \in leaked'["owner"]
  <2>1. CASE /\ record' = [record EXCEPT ![op[o].b] = demote(@)]
             /\ UNCHANGED <<leaked, faultsLeft>>
    <3> DEFINE r == demote(record[op[o].b])
    <3>1. /\ r \in Record /\ r.some = record[op[o].b].some /\ r.retained = record[op[o].b].retained
          /\ r.owner = Nobody /\ record' = [record EXCEPT ![op[o].b] = r]
          /\ (record[op[o].b].some <=> record[op[o].b].retained # {})
      BY <1>2, <2>1, RecordValues DEF TypeInv, StoreType
    <3> HIDE DEF r
    <3>2. /\ record' \in [Backup -> Record]
          /\ \A c \in Backup : record'[c].some <=> record'[c].retained # {}
          /\ record'[op[o].b] = r /\ \A c \in Backup : c # op[o].b => record'[c] = record[c]
      BY <1>2, <3>1, RecordType
    <3> QED
      BY <2>1, <3>1, <3>2 DEF TypeInv, StoreType, BoundsType
  <2>2. CASE Abandons(o, op[o].b)
    BY <1>2, <2>2, AbandonsIt DEF TypeInv, StoreType
  <2> QED
    BY <1>1, <2>1, <2>2 DEF demote_on_operation_end
<1>7. /\ dir' \in [Backup -> {"none", "partial", "complete"}]
    BY <1>1, <1>2 DEF TypeInv, StoreType
<1>8. StoreType' /\ BoundsType'
    BY <1>1, <1>6, <1>7 DEF TypeInv, StoreType, BoundsType
<1> QED
    BY <1>1, <1>2, <1>3, <1>5, <1>6, <1>8 DEF TypeInv

(* A create loses its lock while its tasks run on: what its registry held  *)
(* is unfrozen, or known to be lost.                                       *)
LEMMA PanicStep ==
    ASSUME TypeInv, NEW o \in Op, TaskPanics(o)
    PROVE  /\ TypeInv' /\ Others(o) /\ KeepsRelease(o) /\ op'[o].reg = {} /\ lock' = Unlocked(o)
           /\ op'[o].kind = "create" /\ op'[o].b = op[o].b /\ op'[o].cancelled
           /\ op[o].kind = "create" /\ op[o].pc = "freeze" /\ op'[o].pc = "orphan" /\ op[o].b \in Backup
           /\ faultsLeft' < faultsLeft
           /\ \A c \in Causes : leaked[c] \subseteq leaked'[c]
           /\ \E failed \in SUBSET op[o].reg :
                /\ shadow' = [shadow EXCEPT ![op[o].b] = @ \ (op[o].reg \ failed)]
                /\ \A t \in failed : <<op[o].b, t>> \in leaked'["unfreeze"]
           /\ UNCHANGED <<copied, waived, gone, dir, record, opsLeft, crashesLeft>>
<1>1. PICK t \in Table, failed \in SUBSET op[o].reg :
         /\ Cardinality(failed) + 1 <= faultsLeft
         /\ faultsLeft' = faultsLeft - Cardinality(failed) - 1
         /\ shadow' = [shadow EXCEPT ![op[o].b] = @ \ (op[o].reg \ failed)]
         /\ Leak("unfreeze", op[o].b, failed)
         /\ op' = [op EXCEPT ![o] = [@ EXCEPT !.pc = "orphan", !.reg = {}, !.task[t] = "fail",
                                              !.cancelled = TRUE]]
    BY DEF TaskPanics
<1>2. /\ op[o].kind = "create" /\ op[o].pc = "freeze" /\ lock' = Unlocked(o)
      /\ UNCHANGED <<copied, waived, gone, dir, record, up, opsLeft, crashesLeft>>
    BY DEF TaskPanics, At
<1>3. op[o] \in OpState /\ Shape(op[o]) /\ ProcOf[o] \in up /\ op[o].b \in Backup /\ op[o].reg \subseteq Table
    BY <1>2, OpType DEF Shape
<1>4. PICK tk \in [Table -> TaskStates] :
         Moves(o, [op[o] EXCEPT !.pc = "orphan", !.reg = {}, !.task = tk, !.cancelled = TRUE])
    BY <1>1, PanicMoves
<1>5. /\ Others(o) /\ KeepsRelease(o) /\ op'[o].reg = {} /\ op'[o].pc = "orphan" /\ op'[o].cancelled
      /\ op'[o].kind = op[o].kind /\ op'[o].b = op[o].b
    BY <1>2, <1>3, <1>4 DEF Moves, OpState, Others, KeepsRelease
<1>6. Shape(op'[o])
    BY <1>2, <1>3, <1>5 DEF Shape, Creating, Releases, KeepsRelease
<1>7. lock' \in [Backup \cup {Global} -> Op \cup {NoOp}]
    BY <1>2, UnlockedType
<1>8. OpsType'
    BY <1>2, <1>3, <1>5, <1>6, <1>7, MoveType DEF Others, TypeInv, OpsType
<1>9. /\ leaked' \in [Causes -> SUBSET (Backup \X Table)]
      /\ \A c \in Causes : leaked[c] \subseteq leaked'[c]
      /\ \A u \in failed : <<op[o].b, u>> \in leaked'["unfreeze"]
    BY <1>1, <1>3, LeakType DEF Causes
<1>10. Cardinality(failed) \in Nat
    BY <1>3, FreezesFinite
<1>11. faultsLeft' \in Nat /\ faultsLeft' < faultsLeft
    BY <1>1, <1>10, FreezeAssumption DEF TypeInv, BoundsType
<1>12. shadow' \in [Backup -> SUBSET Table]
    BY <1>1, <1>3 DEF TypeInv, StoreType
<1>13. StoreType' /\ BoundsType'
    BY <1>2, <1>9, <1>11, <1>12 DEF TypeInv, StoreType, BoundsType
<1> QED
    BY <1>1, <1>2, <1>3, <1>5, <1>8, <1>9, <1>11, <1>13 DEF TypeInv

LEMMA CancelStep ==
    ASSUME TypeInv, NEW o \in Op, CancelCreate(o)
    PROVE  /\ TypeInv' /\ Others(o) /\ op'[o] = Idle /\ lock' = Unlocked(o)
           /\ op[o].kind = "create" /\ op[o].pc = "freeze" /\ op[o].b \in Backup
           /\ \A c \in Causes : leaked[c] \subseteq leaked'[c]
           /\ \E late \in SUBSET Table :
                /\ shadow' = [shadow EXCEPT ![op[o].b] = (@ \ op[o].reg) \cup late]
                /\ \A t \in late : <<op[o].b, t>> \in leaked'["detached"]
           /\ GoneKept /\ UNCHANGED <<copied, waived, dir, record, bounds>>
<1>1. PICK late \in SUBSET Table :
         /\ shadow' = [shadow EXCEPT ![op[o].b] = (@ \ op[o].reg) \cup late]
         /\ Leak("detached", op[o].b, late)
    BY DEF CancelCreate
<1>2. /\ op[o].kind = "create" /\ op[o].pc = "freeze" /\ Ends(o) /\ gone' = Refrozen
      /\ UNCHANGED <<copied, waived, dir, record, up, bounds>>
    BY DEF CancelCreate, At
<1>3. Shape(op[o]) /\ op[o].b \in Backup
    BY <1>2, OpType DEF Shape
<1>4. Others(o) /\ op'[o] = Idle /\ lock' = Unlocked(o)
    BY <1>2, EndsIdle DEF Ends
<1>5. OpsType'
    BY <1>2, EndsType DEF TypeInv, OpsType
<1>6. /\ leaked' \in [Causes -> SUBSET (Backup \X Table)]
      /\ \A c \in Causes : leaked[c] \subseteq leaked'[c]
      /\ \A u \in late : <<op[o].b, u>> \in leaked'["detached"]
    BY <1>1, <1>3, LeakType DEF Causes
<1>7. shadow' \in [Backup -> SUBSET Table]
    BY <1>1, <1>3 DEF TypeInv, StoreType
<1>8. gone' \in SUBSET (Backup \X Table) /\ GoneKept
    BY <1>2, GoneRefrozen
<1>9. StoreType' /\ BoundsType'
    BY <1>2, <1>6, <1>7, <1>8, BoundsSame DEF TypeInv, StoreType
<1> QED
    BY <1>1, <1>2, <1>3, <1>4, <1>5, <1>6, <1>8, <1>9 DEF TypeInv

LEMMA KillStep ==
    ASSUME TypeInv, NEW o \in Op, KillCreate(o)
    PROVE  /\ TypeInv' /\ Others(o) /\ lock' = Unlocked(o) /\ op'[o].reg = {}
           /\ op[o].kind = "create" /\ op[o].b \in Backup
           /\ \/ op'[o] = Idle
              \/ /\ op[o].pc = "freeze" /\ op'[o].pc = "orphan" /\ op'[o].kind = "create"
                 /\ op'[o].b = op[o].b /\ op'[o].cancelled /\ op'[o].rel = Global
           /\ faultsLeft' < faultsLeft
           /\ \A c \in Causes : leaked[c] \subseteq leaked'[c]
           /\ \A t \in op[o].reg : <<op[o].b, t>> \in leaked'["kill"]
           /\ op[o].pc \in {"rest", "tail"} \/ op[o].rel = op[o].b =>
                \A t \in record[op[o].b].retained : <<op[o].b, t>> \in leaked'["owner"]
           /\ UNCHANGED <<copied, waived, gone, shadow, dir, record, opsLeft, crashesLeft>>
<1> DEFINE b == op[o].b
           mine == IF op[o].reg # {} \/ op[o].pc \in {"rest", "tail"} \/ op[o].rel = b
                   THEN record[b].retained ELSE {}
           n == [op[o] EXCEPT !.pc = "orphan", !.reg = {}, !.cancelled = TRUE]
<1>1. /\ op[o].kind = "create" /\ lock' = Unlocked(o)
      /\ op[o].pc \in {"reap", "freeze", "undo", "rest", "tail", "unfreeze", "write"}
      /\ faultsLeft > 0 /\ faultsLeft' = faultsLeft - 1
      /\ UNCHANGED <<copied, waived, gone, shadow, dir, record, up, opsLeft, crashesLeft>>
    BY DEF KillCreate
<1>2. leaked' = [leaked EXCEPT !["kill"] = @ \cup ({b} \X op[o].reg),
                               !["owner"] = @ \cup ({b} \X mine)]
    BY DEF KillCreate
<1>3. op' = [op EXCEPT ![o] = IF op[o].pc = "freeze" THEN n ELSE Idle]
    BY DEF KillCreate, TypeInv, OpsType
<1>4. /\ op[o] \in OpState /\ Shape(op[o]) /\ ProcOf[o] \in up /\ b \in Backup /\ op[o].reg \subseteq Table
      /\ record[b].retained \subseteq Table
  <2>1. op[o] \in OpState /\ Shape(op[o]) /\ ProcOf[o] \in up /\ b \in Backup /\ op[o].reg \subseteq Table
    BY <1>1, OpType DEF Shape
  <2> QED
    BY <2>1 DEF TypeInv, StoreType, Record
<1>5. mine \subseteq Table
    BY <1>4
<1>6. /\ Others(o) /\ op'[o].reg = {} /\ Shape(op'[o]) /\ op'[o].pc \in {"idle", "orphan"}
      /\ \/ op'[o] = Idle
         \/ /\ op[o].pc = "freeze" /\ op'[o].pc = "orphan" /\ op'[o].kind = "create"
            /\ op'[o].b = op[o].b /\ op'[o].cancelled /\ op'[o].rel = Global
  <2>1. CASE op[o].pc = "freeze"
    <3>1. op' = [op EXCEPT ![o] = n]
      BY <1>3, <2>1
    <3>2. Moves(o, n)
      BY <3>1, OrphanMoves
    <3>3. /\ Others(o) /\ KeepsRelease(o) /\ op'[o].reg = {} /\ op'[o].pc = "orphan" /\ op'[o].cancelled
          /\ op'[o].kind = op[o].kind /\ op'[o].b = op[o].b
      BY <1>1, <1>4, <3>2 DEF Moves, OpState, Others, KeepsRelease
    <3>4. Shape(op'[o]) /\ op'[o].rel = Global
      BY <1>1, <1>4, <2>1, <3>3 DEF Shape, Creating, Releases, KeepsRelease
    <3> QED
      BY <1>1, <2>1, <3>3, <3>4
  <2>2. CASE op[o].pc # "freeze"
    BY <1>1, <1>3, <2>2, EndsIdle
  <2> QED
    BY <2>1, <2>2
<1>7. lock' \in [Backup \cup {Global} -> Op \cup {NoOp}]
    BY <1>1, UnlockedType
<1>8. OpsType'
    BY <1>1, <1>4, <1>6, <1>7, MoveType DEF Others, TypeInv, OpsType
<1>9. /\ op[o].pc \in {"rest", "tail"} \/ op[o].rel = b => mine = record[b].retained
    OBVIOUS
<1> HIDE DEF mine
<1>10. /\ leaked' \in [Causes -> SUBSET (Backup \X Table)]
       /\ \A c \in Causes : leaked[c] \subseteq leaked'[c]
       /\ \A t \in op[o].reg : <<b, t>> \in leaked'["kill"]
       /\ \A t \in mine : <<b, t>> \in leaked'["owner"]
    BY <1>2, <1>4, <1>5 DEF TypeInv, StoreType, Causes
<1>11. faultsLeft' \in Nat /\ faultsLeft' < faultsLeft
    BY <1>1, FreezeAssumption DEF TypeInv, BoundsType
<1>12. StoreType' /\ BoundsType'
    BY <1>1, <1>10, <1>11 DEF TypeInv, StoreType, BoundsType
<1> QED
    BY <1>1, <1>4, <1>6, <1>8, <1>9, <1>10, <1>11, <1>12 DEF TypeInv

(* load: the record stays, or o takes it. *)
LEMMA LoadStep ==
    ASSUME TypeInv, NEW o \in Op, NEW b \in Backup, load(b, ProcOf[o]), ProcOf[o] \in Proc
    PROVE  /\ record' \in [Backup -> Record] /\ faultsLeft' \in Nat
           /\ \A c \in Backup : record'[c].some <=> record'[c].retained # {}
           /\ \A c \in Backup :
                /\ record'[c].some = record[c].some /\ record'[c].retained = record[c].retained
                /\ \/ record'[c].owner = record[c].owner
                   \/ c = b /\ Usable(c, ProcOf[o]) /\ record'[c].owner = ProcOf[o]
           /\ \/ record' = record
              \/ Usable(b, ProcOf[o]) /\ record' = [record EXCEPT ![b] = adopt(record[b], ProcOf[o])]
           /\ ~Usable(b, ProcOf[o]) => record' = record /\ faultsLeft' = faultsLeft
<1>1. CASE record' = record
  <2>1. faultsLeft' \in Nat /\ (~Usable(b, ProcOf[o]) => faultsLeft' = faultsLeft)
    BY SingleFault DEF load, TypeInv, BoundsType
  <2> QED
    BY <1>1, <2>1 DEF TypeInv, StoreType
<1>2. CASE record' # record
  <2> DEFINE r == adopt(record[b], ProcOf[o])
  <2>1. /\ Usable(b, ProcOf[o]) /\ record' = [record EXCEPT ![b] = r] /\ faultsLeft' = faultsLeft
    BY <1>2 DEF load, TypeInv, StoreType
  <2>2. /\ r \in Record /\ r.some = record[b].some /\ r.retained = record[b].retained /\ r.owner = ProcOf[o]
        /\ (record[b].some <=> record[b].retained # {})
    BY RecordValues DEF TypeInv, StoreType
  <2> HIDE DEF r
  <2>3. /\ record' \in [Backup -> Record]
        /\ \A c \in Backup : record'[c].some <=> record'[c].retained # {}
        /\ record'[b] = r /\ \A c \in Backup : c # b => record'[c] = record[c]
    BY <2>1, <2>2, RecordType
  <2>4. faultsLeft' \in Nat
    BY <2>1 DEF TypeInv, BoundsType
  <2> QED
    BY <2>1, <2>2, <2>3, <2>4 DEF r
<1> QED
    BY <1>1, <1>2

LEMMA ClaimStep ==
    ASSUME TypeInv, NEW o \in Op, UploadClaim(o)
    PROVE  /\ TypeInv' /\ Others(o) /\ KeepsRelease(o) /\ op'[o].reg = op[o].reg
           /\ op'[o].kind = "upload" /\ op[o].kind = "upload" /\ op'[o].b = op[o].b /\ op[o].b \in Backup
           /\ op'[o].cancelled = op[o].cancelled /\ op[o].pc = "begin" /\ op'[o].pc = "copy"
           /\ op'[o].claimed = Pinned(op[o].b, ProcOf[o])
           /\ copied' = CopiedBeside(o) /\ waived \ {o} \subseteq waived'
           /\ o \notin waived' => record'[op[o].b].owner = ProcOf[o]
           /\ \A c \in Backup :
                /\ record'[c].some = record[c].some /\ record'[c].retained = record[c].retained
                /\ \/ record'[c].owner = record[c].owner
                   \/ c = op[o].b /\ Usable(c, ProcOf[o]) /\ record'[c].owner = ProcOf[o]
           /\ UNCHANGED <<shadow, dir, lock, leaked, gone>>
<1> DEFINE b == op[o].b
           cl == Pinned(b, ProcOf[o])
<1>1. /\ op[o].kind = "upload" /\ op[o].pc = "begin" /\ load(b, ProcOf[o])
      /\ op' = [op EXCEPT ![o].pc = "copy", ![o].claimed = cl]
      /\ copied' = CopiedBeside(o) /\ waived' = Unclaimed(o)
      /\ UNCHANGED <<shadow, dir, lock, up, leaked, gone, opsLeft, crashesLeft>>
    BY DEF UploadClaim, At
<1>2. op[o] \in OpState /\ Shape(op[o]) /\ ProcOf[o] \in up /\ b \in Backup /\ ProcOf[o] \in Proc
    BY <1>1, OpType DEF Shape
<1>3. cl \in SUBSET Table
    BY <1>2 DEF Pinned, TypeInv, StoreType
<1> HIDE DEF cl
<1>4. /\ record' \in [Backup -> Record] /\ faultsLeft' \in Nat
      /\ \A c \in Backup : record'[c].some <=> record'[c].retained # {}
      /\ \A c \in Backup :
           /\ record'[c].some = record[c].some /\ record'[c].retained = record[c].retained
           /\ \/ record'[c].owner = record[c].owner
              \/ c = b /\ Usable(c, ProcOf[o]) /\ record'[c].owner = ProcOf[o]
    BY <1>1, <1>2, LoadStep
<1>5. Moves(o, [op[o] EXCEPT !.pc = "copy", !.claimed = cl])
    BY <1>1, <1>3, ClaimMoves
<1>6. /\ Others(o) /\ KeepsRelease(o) /\ op'[o].reg = op[o].reg /\ op'[o].pc = "copy" /\ op'[o].claimed = cl
      /\ op'[o].kind = op[o].kind /\ op'[o].b = op[o].b /\ op'[o].cancelled = op[o].cancelled
    BY <1>1, <1>2, <1>5 DEF Moves, OpState, Others, KeepsRelease
<1>7. Shape(op'[o])
    BY <1>1, <1>2, <1>6 DEF Shape, Creating, Releases, KeepsRelease
<1>8. /\ copied' \subseteq Op /\ waived' \subseteq Op /\ waived \ {o} \subseteq waived'
      /\ o \notin waived' => record'[b].owner = ProcOf[o]
    BY <1>1 DEF TypeInv, OpsType, CopiedBeside, Unclaimed
<1>9. OpsType'
    BY <1>1, <1>2, <1>6, <1>7, <1>8, MoveType DEF Others, TypeInv, OpsType
<1>10. StoreType' /\ BoundsType'
    BY <1>1, <1>4 DEF TypeInv, StoreType, BoundsType
<1> QED
    BY <1>1, <1>2, <1>4, <1>6, <1>8, <1>9, <1>10 DEF TypeInv, cl

LEMMA FinalizeStep ==
    ASSUME TypeInv, NEW o \in Op, finalize_deferred_freeze(o)
    PROVE  /\ TypeInv' /\ op[o].kind = "upload" /\ op[o].pc = "copy" /\ op[o].b \in Backup
           /\ \/ Lets(o, op[o].b)
              \/ /\ ~Usable(op[o].b, ProcOf[o])
                 /\ Others(o) /\ Keeps(o) /\ op'[o].rel = Global
                 /\ op'[o].reg = op[o].reg /\ op'[o].pc = "cleanup"
                 /\ copied' = copied \cup Copiers(op[o].b)
                 /\ UNCHANGED <<waived, gone, shadow, dir, record, lock, leaked>>
<1> DEFINE b == op[o].b
<1>1. /\ op[o].kind = "upload" /\ op[o].pc = "copy" /\ copied' = copied \cup Copiers(b)
      /\ load(b, ProcOf[o])
      /\ UNCHANGED <<waived, gone, shadow, dir, lock, up, leaked, opsLeft, crashesLeft>>
    BY DEF finalize_deferred_freeze, At
<1>2. op[o] \in OpState /\ Shape(op[o]) /\ ProcOf[o] \in up /\ b \in Backup /\ ProcOf[o] \in Proc
      /\ op[o].reg = {}
    BY <1>1, OpType DEF Shape
<1>3. copied' \subseteq Op /\ waived' \subseteq Op /\ up' = up
    BY <1>1 DEF Copiers, TypeInv, OpsType
<1>4. /\ record' \in [Backup -> Record] /\ faultsLeft' \in Nat
      /\ \A c \in Backup : record'[c].some <=> record'[c].retained # {}
      /\ \/ record' = record
         \/ record' = [record EXCEPT ![b] = adopt(record[b], ProcOf[o])]
      /\ ~Usable(b, ProcOf[o]) => record' = record
    BY <1>1, <1>2, LoadStep
<1>5. StoreType' /\ BoundsType'
    BY <1>1, <1>4 DEF TypeInv, StoreType, BoundsType
<1>6. CASE Usable(b, ProcOf[o])
  <2>1. op' = [op EXCEPT ![o] = Releasing(o, b, "unfreeze")]
    BY <1>6 DEF finalize_deferred_freeze
  <2>2. /\ OpsType' /\ Others(o) /\ Keeps(o) /\ op'[o].reg = op[o].reg
        /\ op'[o].pc = "unfreeze" /\ op'[o].rel = b /\ op'[o].held = record[b].retained
    BY <1>1, <1>2, <1>3, <2>1, LetsType
  <2>3. Lets(o, b)
    BY <1>1, <1>2, <1>4, <1>6, <2>2 DEF Lets
  <2> QED
    BY <1>1, <1>2, <1>5, <2>2, <2>3 DEF TypeInv
<1>7. CASE ~Usable(b, ProcOf[o])
  <2>1. op' = [op EXCEPT ![o] = [op[o] EXCEPT !.pc = "cleanup"]] /\ record' = record
    BY <1>4, <1>7 DEF finalize_deferred_freeze
  <2>2. op' = [op EXCEPT ![o].pc = "cleanup"]
    BY <2>1
  <2>3. Moves(o, [op[o] EXCEPT !.pc = "cleanup"])
    BY <2>2, GotoMoves DEF Labels
  <2>4. /\ Others(o) /\ Keeps(o) /\ KeepsRelease(o) /\ op'[o].reg = op[o].reg /\ op'[o].pc = "cleanup"
    BY <1>2, <1>3, <2>3 DEF Moves, OpState, Others, Keeps, KeepsRelease
  <2>5. Shape(op'[o]) /\ op'[o].rel = Global
    BY <1>1, <1>2, <2>4 DEF Shape, Creating, Releases, Keeps, KeepsRelease
  <2>6. OpsType'
    BY <1>1, <1>2, <1>3, <2>4, <2>5, MoveType DEF Others, TypeInv, OpsType
  <2> QED
    BY <1>1, <1>2, <1>5, <1>7, <2>1, <2>4, <2>5, <2>6 DEF TypeInv
<1> QED
    BY <1>6, <1>7

LEMMA KillUploadStep ==
    ASSUME TypeInv, NEW o \in Op, KillUpload(o)
    PROVE  /\ TypeInv' /\ Others(o) /\ KeepsRelease(o) /\ lock' = Unlocked(o) /\ op'[o].reg = op[o].reg
           /\ op[o].kind = "upload" /\ op'[o].kind = "upload" /\ op'[o].b = op[o].b
           /\ op'[o].claimed = op[o].claimed /\ op'[o].pc = op[o].pc /\ ~op[o].cancelled
           /\ op'[o].cancelled /\ op[o].pc \in {"copy", "unfreeze", "write", "cleanup"}
           /\ faultsLeft' < faultsLeft
           /\ UNCHANGED <<copied, waived, gone, shadow, dir, record, leaked, opsLeft, crashesLeft>>
<1>1. /\ op[o].kind = "upload" /\ ~op[o].cancelled
      /\ op[o].pc \in {"copy", "unfreeze", "write", "cleanup"}
      /\ faultsLeft > 0 /\ faultsLeft' = faultsLeft - 1
      /\ op' = [op EXCEPT ![o].cancelled = TRUE] /\ lock' = Unlocked(o)
      /\ UNCHANGED <<copied, waived, gone, shadow, dir, record, up, leaked, opsLeft, crashesLeft>>
    BY DEF KillUpload
<1>2. op[o] \in OpState /\ Shape(op[o]) /\ ProcOf[o] \in up
    BY <1>1, OpType
<1>3. Moves(o, [op[o] EXCEPT !.cancelled = TRUE])
    BY <1>1, KillMoves
<1>4. /\ Others(o) /\ KeepsRelease(o) /\ op'[o].reg = op[o].reg /\ op'[o].pc = op[o].pc
      /\ op'[o].kind = op[o].kind /\ op'[o].b = op[o].b /\ op'[o].cancelled
      /\ op'[o].claimed = op[o].claimed
    BY <1>1, <1>2, <1>3 DEF Moves, OpState, Others, KeepsRelease
<1>5. Shape(op'[o])
    BY <1>1, <1>2, <1>4 DEF Shape, Creating, Releases, KeepsRelease
<1>6. lock' \in [Backup \cup {Global} -> Op \cup {NoOp}]
    BY <1>1, UnlockedType
<1>7. OpsType'
    BY <1>1, <1>2, <1>4, <1>5, <1>6, MoveType DEF Others, TypeInv, OpsType
<1>8. faultsLeft' \in Nat /\ faultsLeft' < faultsLeft
    BY <1>1, FreezeAssumption DEF TypeInv, BoundsType
<1>9. StoreType' /\ BoundsType'
    BY <1>1, <1>8, StoreSame DEF TypeInv, BoundsType
<1> QED
    BY <1>1, <1>4, <1>7, <1>8, <1>9 DEF TypeInv

LEMMA ExpireStep ==
    ASSUME TypeInv, NEW b \in Backup, Expire(b)
    PROVE  /\ TypeInv'
           /\ \A c \in Backup : /\ record'[c].some = record[c].some
                                /\ record'[c].retained = record[c].retained
                                /\ record'[c].owner = record[c].owner
           /\ UNCHANGED <<copied, waived, gone, shadow, dir, lock, op, up, leaked, bounds>>
<1> DEFINE r == [record[b] EXCEPT !.expired = TRUE]
<1>1. /\ record' = [record EXCEPT ![b] = r]
      /\ UNCHANGED <<copied, waived, gone, shadow, dir, lock, op, up, leaked, bounds>>
    BY DEF Expire, TypeInv, StoreType
<1>2. record[b] \in Record /\ (record[b].some <=> record[b].retained # {})
    BY DEF TypeInv, StoreType
<1>3. /\ r \in Record /\ r.some = record[b].some /\ r.retained = record[b].retained
      /\ r.owner = record[b].owner
    BY <1>2 DEF Record
<1> HIDE DEF r
<1>4. /\ record' \in [Backup -> Record]
      /\ \A c \in Backup : record'[c].some <=> record'[c].retained # {}
      /\ record'[b] = r /\ \A c \in Backup : c # b => record'[c] = record[c]
    BY <1>1, <1>2, <1>3, RecordType
<1>5. StoreType' /\ BoundsType'
    BY <1>1, <1>4, BoundsSame DEF TypeInv, StoreType
<1>6. OpsType'
    BY <1>1 DEF TypeInv, OpsType
<1>7. \A c \in Backup : /\ record'[c].some = record[c].some
                        /\ record'[c].retained = record[c].retained
                        /\ record'[c].owner = record[c].owner
    BY <1>3, <1>4
<1> QED
    BY <1>1, <1>5, <1>6, <1>7 DEF TypeInv

LEMMA CrashStep ==
    ASSUME TypeInv, NEW p \in Proc, Crash(p)
    PROVE  /\ TypeInv' /\ up' = up \ {p} /\ crashesLeft' < crashesLeft
           /\ op' \in [Op -> OpState]
           /\ \A o \in Op : op'[o] = IF ProcOf[o] = p THEN Idle ELSE op[o]
           /\ \A s \in Backup \cup {Global} :
                lock'[s] = IF lock[s] \in Op /\ ProcOf[lock[s]] = p THEN NoOp ELSE lock[s]
           /\ \A c \in Causes : leaked[c] \subseteq leaked'[c]
           /\ \A o \in Op : op[o].kind = "create" /\ ProcOf[o] = p =>
                \A t \in op[o].reg : <<op[o].b, t>> \in leaked'["crash"]
           /\ \A b \in Backup : /\ shadow[b] \subseteq shadow'[b]
                                /\ \A t \in shadow'[b] \ shadow[b] : <<b, t>> \in leaked'["crash"]
           /\ GoneKept /\ UNCHANGED <<copied, waived, dir, record, opsLeft, faultsLeft>>
<1> DEFINE mine == {o \in Op : ProcOf[o] = p}
           Sent(o) == {t \in Table : op[o].task[t] = "sent"}
           lost == UNION {{op[o].b} \X (op[o].reg \cup Sent(o)) : o \in {q \in mine : op[q].kind = "create"}}
<1>1. /\ p \in up /\ crashesLeft > 0 /\ crashesLeft' = crashesLeft - 1
      /\ up' = up \ {p}
      /\ op' = [o \in Op |-> IF o \in mine THEN Idle ELSE op[o]]
      /\ lock' = [s \in DOMAIN lock |-> IF lock[s] \in mine THEN NoOp ELSE lock[s]]
      /\ gone' = Refrozen /\ UNCHANGED <<copied, waived, dir, record, opsLeft, faultsLeft>>
    BY DEF Crash
<1>2. leaked' = [leaked EXCEPT !["crash"] = @ \cup lost]
    BY DEF Crash
<1>3. PICK late \in SUBSET {o \in mine : \E t \in Table : op[o].task[t] = "sent"} :
        shadow' = [b \in Backup |-> shadow[b] \cup
           UNION {Sent(o) : o \in {q \in late : op[q].kind = "create" /\ op[q].b = b}}]
    BY DEF Crash
<1>4. \A o \in Op : /\ op[o] \in OpState /\ Shape(op[o]) /\ op[o].reg \subseteq Table
                    /\ op[o].kind = "create" => op[o].b \in Backup
    BY OpType DEF Shape
<1>5. lost \subseteq Backup \X Table
    BY <1>4
<1>6. \A o \in Op : op[o].kind = "create" /\ ProcOf[o] = p =>
         \A t \in op[o].reg \cup Sent(o) : <<op[o].b, t>> \in lost
    OBVIOUS
<1>7. /\ shadow' \in [Backup -> SUBSET Table]
      /\ \A b \in Backup : shadow[b] \subseteq shadow'[b]
      /\ \A b \in Backup : \A t \in shadow'[b] \ shadow[b] :
           \E o \in Op : op[o].kind = "create" /\ ProcOf[o] = p /\ op[o].b = b /\ t \in Sent(o)
  <2>1. shadow \in [Backup -> SUBSET Table]
    BY DEF TypeInv, StoreType
  <2>2. \A b \in Backup : shadow'[b] = shadow[b] \cup
           UNION {Sent(o) : o \in {q \in late : op[q].kind = "create" /\ op[q].b = b}}
    BY <1>3
  <2> QED
    BY <1>3, <2>1, <2>2
<1> HIDE DEF lost, Sent
<1>8. /\ leaked' \in [Causes -> SUBSET (Backup \X Table)]
      /\ \A c \in Causes : leaked[c] \subseteq leaked'[c]
      /\ lost \subseteq leaked'["crash"]
    BY <1>2, <1>5 DEF TypeInv, StoreType, Causes
<1>9. StoreType' /\ GoneKept
    BY <1>1, <1>7, <1>8, GoneRefrozen DEF TypeInv, StoreType
<1>10. BoundsType' /\ crashesLeft' < crashesLeft
    BY <1>1, FreezeAssumption DEF TypeInv, BoundsType
<1>11. /\ op' \in [Op -> OpState]
       /\ \A o \in Op : op'[o] = IF ProcOf[o] = p THEN Idle ELSE op[o]
       /\ lock' \in [Backup \cup {Global} -> Op \cup {NoOp}]
       /\ \A s \in Backup \cup {Global} :
            lock'[s] = IF lock[s] \in Op /\ ProcOf[lock[s]] = p THEN NoOp ELSE lock[s]
    BY <1>1, <1>4, IdleType DEF TypeInv, OpsType
<1>12. \A o \in Op : Shape(op'[o]) /\ (op'[o].pc # "idle" => ProcOf[o] \in up')
  <2>1. Idle.pc = "idle"
    BY DEF Idle
  <2> QED
    BY <1>1, <1>11, <2>1, IdleType, OpType
<1>13. OpsType'
    BY <1>1, <1>11, <1>12 DEF TypeInv, OpsType
<1>14. \A b \in Backup : \A t \in shadow'[b] \ shadow[b] : <<b, t>> \in leaked'["crash"]
    BY <1>6, <1>7, <1>8
<1> QED
    BY <1>1, <1>6, <1>7, <1>8, <1>9, <1>10, <1>11, <1>13, <1>14 DEF TypeInv

-----------------------------------------------------------------------------
(* Locks *)

LEMMA ScopeType ==
    ASSUME TypeInv, NEW o \in Op
    PROVE  Scope(op[o].kind, op[o].b) \in Backup \cup {Global}
BY OpType DEF Scope, OpState

LEMMA LockMove ==
    ASSUME TypeInv, TypeInv', LockInv, NEW o \in Op, Others(o),
           op'[o].pc # "idle" /\ ~op'[o].cancelled => lock'[Scope(op'[o].kind, op'[o].b)] = o,
           op'[o].pc \in Releases \cup {"reread"} /\ ~op'[o].cancelled
              /\ op'[o].kind # "clean_broken" => lock'[op'[o].rel] = o,
           NEW new_s,
           \A s \in Backup \cup {Global} :
              \/ lock'[s] = lock[s]
              \/ lock[s] = o /\ lock'[s] = NoOp
              \/ LockFree(s) /\ s = new_s /\ lock'[s] = o
    PROVE  LockInv'
<1>1. \A s \in Backup \cup {Global}, q \in Op : q # o /\ lock[s] = q => lock'[s] = q
    BY FreezeAssumption DEF LockFree
<1>2. ASSUME NEW q \in Op, q # o, op'[q].pc # "idle", ~op'[q].cancelled
      PROVE  lock'[Scope(op'[q].kind, op'[q].b)] = q
    BY <1>1, <1>2, ScopeType DEF Others, LockInv
<1>3. ASSUME NEW q \in Op, q # o, op'[q].pc \in Releases \cup {"reread"}, ~op'[q].cancelled,
             op'[q].kind # "clean_broken"
      PROVE  lock'[op'[q].rel] = q
    BY <1>1, <1>3, OpType DEF Others, LockInv, Shape
<1>4. ASSUME lock'[Global] # NoOp, NEW b \in Backup
      PROVE  lock'[b] = NoOp
    BY <1>4, FreezeAssumption DEF LockInv, LockFree
<1> QED
    BY <1>2, <1>3, <1>4 DEF LockInv

(* An operation that ends, or is killed, only gives locks back. *)
LEMMA LockDrop ==
    ASSUME TypeInv, TypeInv', LockInv, NEW o \in Op, Others(o), lock' = Unlocked(o),
           op'[o].pc = "idle" \/ op'[o].cancelled
    PROVE  LockInv'
<1>1. \A s \in Backup \cup {Global} : lock'[s] = lock[s] \/ (lock[s] = o /\ lock'[s] = NoOp)
    BY UnlockedType
<1>2. op'[o].pc = "idle" => op'[o].pc \notin Releases \cup {"reread"}
    BY DEF Releases
<1> QED
    BY <1>1, <1>2, LockMove

LEMMA LockIdle ==
    ASSUME TypeInv, TypeInv', LockInv, NEW o \in Op, Others(o), lock' = Unlocked(o), op'[o] = Idle
    PROVE  LockInv'
<1>1. op'[o].pc = "idle"
    BY DEF Idle
<1> QED
    BY <1>1, LockDrop

(* One that goes on keeps its locks. *)
LEMMA LockKeep ==
    ASSUME TypeInv, TypeInv', LockInv, NEW o \in Op, Others(o), lock' = lock, op[o].pc # "idle",
           op'[o].kind = op[o].kind, op'[o].b = op[o].b, op'[o].cancelled = op[o].cancelled,
           op'[o].pc \notin Releases \cup {"reread"}
             \/ (op'[o].rel = op[o].rel /\ op[o].pc \in Releases \cup {"reread"})
    PROVE  LockInv'
<1>1. op'[o].pc # "idle" /\ ~op'[o].cancelled => lock'[Scope(op'[o].kind, op'[o].b)] = o
    BY DEF LockInv
<1>2. op'[o].pc \in Releases \cup {"reread"} /\ ~op'[o].cancelled
              /\ op'[o].kind # "clean_broken" => lock'[op'[o].rel] = o
    BY DEF LockInv
<1> QED
    BY <1>1, <1>2, LockMove

LEMMA LockPaces ==
    ASSUME TypeInv, TypeInv', LockInv, NEW o \in Op, Paces(o)
    PROVE  LockInv'
<1>1. op[o].pc # "idle" /\ op'[o].kind = op[o].kind /\ op'[o].b = op[o].b /\ op'[o].cancelled = op[o].cancelled
    BY DEF Paces, Keeps
<1>2. \A s \in Backup \cup {Global} :
         \/ lock'[s] = lock[s]
         \/ s = op'[o].rel /\ LockFree(s) /\ lock'[s] = o
         \/ lock[s] = o /\ lock'[s] = NoOp
  <2>1. op[o].pc = "reread" => op[o].kind = "create" /\ ~op[o].cancelled
    BY OpType DEF Shape, Releases, Creating
  <2>2. op[o].pc = "reread" => lock[op[o].rel] = o
    BY <2>1 DEF LockInv
  <2> QED
    BY <2>2 DEF Paces
<1>3. ~op[o].cancelled => lock'[Scope(op[o].kind, op[o].b)] = o
  <2>1. SUFFICES ASSUME ~op[o].cancelled PROVE lock'[Scope(op[o].kind, op[o].b)] = o
    OBVIOUS
  <2>2. lock[Scope(op[o].kind, op[o].b)] = o /\ Scope(op[o].kind, op[o].b) \in Backup \cup {Global}
    BY <1>1, <2>1, ScopeType DEF LockInv
  <2>3. op[o].pc = "reread" => Scope(op[o].kind, op[o].b) = op[o].b
    BY OpType DEF Shape, Scope, Creating
  <2> QED
    BY <2>2, <2>3 DEF Paces
<1>4. op'[o].pc \in Releases \cup {"reread"} => lock'[op'[o].rel] = o
    BY DEF Paces, Releases
<1>5. Others(o)
    BY DEF Paces
<1> QED
    BY <1>1, <1>2, <1>3, <1>4, <1>5, LockMove

LEMMA LockLets ==
    ASSUME TypeInv, TypeInv', LockInv, NEW o \in Op, NEW b, Lets(o, b)
    PROVE  LockInv'
<1>1. /\ Others(o) /\ op'[o].kind = op[o].kind /\ op'[o].b = op[o].b /\ op'[o].cancelled = op[o].cancelled
      /\ lock' = lock /\ op[o].pc # "idle" /\ op'[o].rel = b
    BY DEF Lets, Keeps
<1>2. op'[o].pc # "idle" /\ ~op'[o].cancelled => lock'[Scope(op'[o].kind, op'[o].b)] = o
    BY <1>1 DEF LockInv
<1>3. ~op'[o].cancelled /\ op'[o].kind # "clean_broken" => lock'[op'[o].rel] = o
  <2>1. \/ op[o].kind = "clean_broken"
        \/ op[o].kind = "create" /\ op[o].pc = "reread" /\ op[o].rel = b
        \/ op[o].kind \in {"create", "upload", "release"} /\ op[o].b = b
    BY DEF Lets
  <2>2. CASE op[o].kind = "create" /\ op[o].pc = "reread" /\ op[o].rel = b
    BY <1>1, <2>2 DEF LockInv
  <2>3. CASE op[o].kind \in {"create", "upload", "release"} /\ op[o].b = b
    BY <1>1, <2>3 DEF LockInv, Scope
  <2> QED
    BY <1>1, <2>1, <2>2, <2>3
<1> QED
    BY <1>1, <1>2, <1>3, LockMove

LEMMA LockStart ==
    ASSUME TypeInv, LockInv, NEW o \in Op, NEW kind \in Kinds, NEW b \in Backup \cup {Global},
           Start(o, kind, b)
    PROVE  LockInv'
<1> DEFINE s0 == Scope(kind, b)
<1>1. /\ TypeInv' /\ Others(o) /\ op'[o].pc = "begin" /\ op'[o].kind = kind /\ op'[o].b = b
      /\ s0 \in Backup \cup {Global} /\ LockFree(s0) /\ lock' = [lock EXCEPT ![s0] = o]
    BY StartStep
<1>2. \A s \in Backup \cup {Global} : lock'[s] = IF s = s0 THEN o ELSE lock[s]
    BY <1>1 DEF TypeInv, OpsType
<1>3. lock'[Scope(op'[o].kind, op'[o].b)] = o
    BY <1>1, <1>2
<1>4. op'[o].pc \notin Releases \cup {"reread"}
    BY <1>1 DEF Releases
<1>5. \A s \in Backup \cup {Global} : lock'[s] = lock[s] \/ (LockFree(s) /\ s = s0 /\ lock'[s] = o)
    BY <1>1, <1>2
<1> HIDE DEF s0
<1> QED
    BY <1>1, <1>3, <1>4, <1>5, LockMove

LEMMA LockWrite ==
    ASSUME TypeInv, TypeInv', LockInv, NEW o \in Op, WriteRecord(o) \/ WriteFails(o)
    PROVE  LockInv'
<1>1. /\ Others(o) /\ Keeps(o) /\ op[o].pc = "write" /\ op[o].rel \in Backup
      /\ op[o].kind \in {"create", "upload", "release", "clean_broken"}
      /\ op'[o].pc \in {"reap", "failed", "cleanup", "broken"}
      /\ \A s \in Backup \cup {Global} :
           lock'[s] = IF s = op[o].rel /\ lock[s] = o /\ op[o].b # s THEN NoOp ELSE lock[s]
    BY WriteGoes
<1>2. Scope(op[o].kind, op[o].b) \in {op[o].b, Global} /\ Scope(op[o].kind, op[o].b) \in Backup \cup {Global}
    BY ScopeType DEF Scope
<1>3. op'[o].pc # "idle" /\ ~op'[o].cancelled => lock'[Scope(op'[o].kind, op'[o].b)] = o
    BY <1>1, <1>2, FreezeAssumption DEF Keeps, LockInv
<1>4. op'[o].pc \notin Releases \cup {"reread"}
    BY <1>1 DEF Releases
<1>5. \A s \in Backup \cup {Global} : lock'[s] = lock[s] \/ (lock[s] = o /\ lock'[s] = NoOp)
    BY <1>1
<1> QED
    BY <1>1, <1>3, <1>4, <1>5, LockMove

LEMMA LockCrash ==
    ASSUME TypeInv, LockInv, NEW p \in Proc, Crash(p)
    PROVE  LockInv'
<1>1. /\ \A o \in Op : op'[o] = IF ProcOf[o] = p THEN Idle ELSE op[o]
      /\ \A s \in Backup \cup {Global} :
           lock'[s] = IF lock[s] \in Op /\ ProcOf[lock[s]] = p THEN NoOp ELSE lock[s]
    BY CrashStep
<1>2. Idle.pc = "idle"
    BY DEF Idle
<1>3. ASSUME NEW o \in Op, op'[o].pc # "idle", ~op'[o].cancelled
      PROVE  lock'[Scope(op'[o].kind, op'[o].b)] = o
    BY <1>1, <1>2, <1>3, ScopeType DEF LockInv
<1>4. ASSUME NEW o \in Op, op'[o].pc \in Releases \cup {"reread"}, ~op'[o].cancelled,
             op'[o].kind # "clean_broken"
      PROVE  lock'[op'[o].rel] = o
    BY <1>1, <1>2, <1>4, OpType DEF LockInv, Releases, Shape
<1>5. lock'[Global] # NoOp => \A b \in Backup : lock'[b] = NoOp
    BY <1>1 DEF LockInv
<1> QED
    BY <1>3, <1>4, <1>5 DEF LockInv

-----------------------------------------------------------------------------
(* The kinds of steps an operation takes *)

(* An upload whose record another process took over is done. *)
Finishes(o) ==
    /\ op[o].kind = "upload" /\ op[o].pc = "copy" /\ op[o].b \in Backup
    /\ ~Usable(op[o].b, ProcOf[o])
    /\ Others(o) /\ Keeps(o) /\ op'[o].rel = Global
    /\ op'[o].reg = op[o].reg /\ op'[o].pc = "cleanup"
    /\ copied' = copied \cup Copiers(op[o].b)
    /\ UNCHANGED <<waived, gone, shadow, dir, record, lock, leaked>>

(* clean_broken deletes a backup without a record. *)
Drops(o) ==
    /\ Others(o) /\ Keeps(o) /\ lock' = lock /\ op'[o].pc = "broken" /\ op[o].pc = "broken"
    /\ op'[o].rel = Global /\ op'[o].reg = op[o].reg
    /\ \E b \in Backup : Removes(b)

Steps(o) ==
    \/ \E kind \in Kinds, b \in Backup \cup {Global} : Start(o, kind, b)
    \/ Unfreeze(o) \/ WriteRecord(o) \/ WriteFails(o)
    \/ Idles(o) \/ Paces(o) \/ (\E b \in Backup : Lets(o, b))
    \/ CreateDir(o) \/ (\E t \in Table : Freezes(o, t))
    \/ (CreateUndo(o) \/ UnfreezeRest(o)) \/ (CreateSweep(o) \/ clean_shadow(o))
    \/ SplitFreeze(o) \/ (CreateTail(o) \/ UploadFails(o))
    \/ TaskPanics(o) \/ CancelCreate(o) \/ KillCreate(o)
    \/ UploadClaim(o) \/ Finishes(o) \/ KillUpload(o)
    \/ (DeleteLocal(o) \/ UploadDone(o)) \/ Drops(o)

LEMMA StepKinds ==
    ASSUME TypeInv, LockInv, NEW o \in Op,
           \/ \E kind \in Kinds, b \in Backup \cup {Global} : Start(o, kind, b)
           \/ Unfreeze(o) \/ WriteRecord(o) \/ WriteFails(o)
           \/ CreateStep(o) \/ UploadStep(o) \/ AdminStep(o)
    PROVE  TypeInv' /\ Steps(o)
<1>1. CASE \E kind \in Kinds, b \in Backup \cup {Global} : Start(o, kind, b)
    BY <1>1, StartStep DEF Steps
<1>2. CASE Unfreeze(o)
    BY <1>2, UnfreezeStep DEF Steps
<1>3. CASE WriteRecord(o) \/ WriteFails(o)
    BY <1>3, WriteStep, WriteFailsStep DEF Steps
<1>4. CASE CreatePlanFails(o) \/ OrphanEnds(o) \/ CreateFailed(o) \/ UploadNoBackup(o)
    BY <1>4, EndStep DEF Steps
<1>5. CASE CreateBegin(o)
    BY <1>5, BeginStep DEF Steps
<1>6. CASE \E c \in Backup : ReapCandidate(o, c)
    BY <1>6, CandidateStep DEF Steps
<1>7. CASE ReapReread(o)
  <2>1. op[o].rel \in Backup
    BY <1>7, OpType DEF ReapReread, At, Shape
  <2> QED
    BY <1>7, <2>1, RereadStep DEF Steps
<1>8. CASE CreateDir(o)
    BY <1>8, DirStep DEF Steps
<1>9. CASE \E t \in Table : TaskSend(o, t) \/ TaskNotFrozen(o, t) \/ TaskCollected(o, t)
    BY <1>9, TaskStep DEF Steps
<1>10. CASE \E t \in Table : TaskFrozen(o, t) \/ TaskLost(o, t)
    BY <1>10, FrozenStep DEF Steps, Freezes
<1>11. CASE Joined(o)
    BY <1>11, JoinedStep DEF Steps
<1>12. CASE CreateUndo(o) \/ UnfreezeRest(o)
    BY <1>12, UndoStep DEF Steps
<1>13. CASE CreateSweep(o) \/ clean_shadow(o)
    BY <1>13, SweepStep DEF Steps
<1>14. CASE SplitFreeze(o)
    BY <1>14, SplitStep DEF Steps
<1>15. CASE CreateTail(o) \/ UploadFails(o)
    BY <1>15, TailStep DEF Steps
<1>16. CASE CreateTailFails(o)
  <2>1. op[o].b \in Backup
    BY <1>16, OpType DEF CreateTailFails, At, Shape
  <2> QED
    BY <1>16, <2>1, TailFailsStep DEF Steps
<1>17. CASE TaskPanics(o)
    BY <1>17, PanicStep DEF Steps
<1>18. CASE CancelCreate(o)
    BY <1>18, CancelStep DEF Steps
<1>19. CASE KillCreate(o)
    BY <1>19, KillStep DEF Steps
<1>20. CASE UploadClaim(o)
    BY <1>20, ClaimStep DEF Steps
<1>21. CASE finalize_deferred_freeze(o)
    BY <1>21, FinalizeStep DEF Steps, Finishes
<1>22. CASE KillUpload(o)
    BY <1>22, KillUploadStep DEF Steps
<1>23. CASE DeleteLocal(o) \/ UploadDone(o)
    BY <1>23, DeleteStep DEF Steps
<1>24. CASE ReleaseDeferred(o)
  <2>1. op[o].b \in Backup
    BY <1>24, OpType DEF ReleaseDeferred, At, Shape
  <2> QED
    BY <1>24, <2>1, ReleaseStep DEF Steps
<1>25. CASE CleanBrokenStart(o)
    BY <1>25, BrokenStartStep DEF Steps
<1>26. CASE CleanBrokenLocal(o)
    BY <1>26, BrokenStep DEF Steps, Drops
<1> QED
    BY <1>1, <1>2, <1>3, <1>4, <1>5, <1>6, <1>7, <1>8, <1>9, <1>10, <1>11, <1>12, <1>13, <1>14,
       <1>15, <1>16, <1>17, <1>18, <1>19, <1>20, <1>21, <1>22, <1>23, <1>24, <1>25, <1>26
       DEF CreateStep, UploadStep, AdminStep

LEMMA LockSteps ==
    ASSUME TypeInv, TypeInv', LockInv, NEW o \in Op, Steps(o)
    PROVE  LockInv'
<1>0. Idle.pc = "idle" /\ {"begin", "write", "reap", "failed", "cleanup", "broken", "freeze", "orphan",
                           "tail", "copy", "rest"} \cap {"unfreeze", "reread", "idle"} = {}
    BY DEF Idle
<1>1. CASE \E kind \in Kinds, b \in Backup \cup {Global} : Start(o, kind, b)
    BY <1>1, LockStart
<1>2. CASE Unfreeze(o)
    BY <1>2, UnfreezeStep, LockKeep DEF Keeps, Releases, Unfreeze, unfreeze_all_checked
<1>3. CASE WriteRecord(o) \/ WriteFails(o)
    BY <1>3, LockWrite
<1>4. CASE Idles(o)
    BY <1>4, LockIdle DEF Idles
<1>5. CASE Paces(o)
    BY <1>5, LockPaces
<1>6. CASE \E b \in Backup : Lets(o, b)
    BY <1>6, LockLets
<1>7. CASE CreateDir(o)
    BY <1>7, DirStep, LockKeep DEF Keeps, Releases
<1>8. CASE \E t \in Table : Freezes(o, t)
    BY <1>8, FrozenStep, LockKeep DEF Keeps, Releases
<1>9. CASE CreateUndo(o) \/ UnfreezeRest(o)
    BY <1>9, UndoStep, LockKeep DEF Keeps, Releases
<1>10. CASE CreateSweep(o) \/ clean_shadow(o)
    BY <1>10, SweepStep, LockIdle
<1>11. CASE SplitFreeze(o)
    BY <1>11, SplitStep, LockKeep DEF Releases
<1>12. CASE CreateTail(o) \/ UploadFails(o)
    BY <1>12, TailStep, LockIdle
<1>13. CASE TaskPanics(o)
    BY <1>13, PanicStep, LockDrop
<1>14. CASE CancelCreate(o)
    BY <1>14, CancelStep, LockIdle
<1>15. CASE KillCreate(o)
    BY <1>0, <1>15, KillStep, LockDrop
<1>16. CASE UploadClaim(o)
    BY <1>16, ClaimStep, LockKeep DEF Releases
<1>17. CASE Finishes(o)
    BY <1>17, LockKeep DEF Finishes, Keeps, Releases
<1>18. CASE KillUpload(o)
    BY <1>18, KillUploadStep, LockDrop
<1>19. CASE DeleteLocal(o) \/ UploadDone(o)
    BY <1>19, DeleteStep, LockIdle
<1>20. CASE Drops(o)
    BY <1>20, LockKeep DEF Drops, Keeps, Releases
<1> QED
    BY <1>1, <1>2, <1>3, <1>4, <1>5, <1>6, <1>7, <1>8, <1>9, <1>10, <1>11, <1>12, <1>13, <1>14,
       <1>15, <1>16, <1>17, <1>18, <1>19, <1>20 DEF Steps

(* Every step is one of these kinds, time passing, or a process that dies. *)
LEMMA NextKinds ==
    ASSUME TypeInv, LockInv, Next
    PROVE  /\ TypeInv' /\ LockInv'
           /\ \/ \E o \in Op : Steps(o)
              \/ \E b \in Backup : Expire(b)
              \/ \E p \in Proc : Crash(p)
<1>1. CASE \E o \in Op :
             \/ \E kind \in Kinds, b \in Backup \cup {Global} : Start(o, kind, b)
             \/ Unfreeze(o) \/ WriteRecord(o) \/ WriteFails(o)
             \/ CreateStep(o) \/ UploadStep(o) \/ AdminStep(o)
    BY <1>1, StepKinds, LockSteps
<1>2. CASE \E b \in Backup : Expire(b)
    BY <1>2, ExpireStep DEF LockInv
<1>3. CASE \E p \in Proc : Crash(p)
    BY <1>3, CrashStep, LockCrash
<1> QED
    BY <1>1, <1>2, <1>3 DEF Next

LEMMA BaseInit ==
    ASSUME Init
    PROVE  TypeInv /\ LockInv
<1>1. \A o \in Op : op[o] = Idle
    BY DEF Init
<1>2. Idle.pc = "idle"
    BY DEF Idle
<1>3. StoreType
    BY DEF Init, StoreType, NoRecord, Record
<1>4. OpsType
    BY <1>1, <1>2, IdleType DEF Init, OpsType
<1>5. BoundsType
    BY FreezeAssumption DEF Init, BoundsType
<1>6. LockInv
    BY <1>1, <1>2 DEF Init, LockInv, Releases
<1> QED
    BY <1>3, <1>4, <1>5, <1>6 DEF TypeInv

LEMMA BaseStutter ==
    ASSUME TypeInv, LockInv, UNCHANGED vars
    PROVE  TypeInv' /\ LockInv'
<1>1. StoreType' /\ BoundsType'
    BY StoreSame, BoundsSame DEF vars, bounds
<1>2. OpsType'
    BY DEF TypeInv, OpsType, vars
<1>3. LockInv'
    BY DEF LockInv, vars
<1> QED
    BY <1>1, <1>2, <1>3 DEF TypeInv

(* Spec keeps the types of the store and of the operations and, with them, *)
(* the discipline of the locks.                                            *)
THEOREM Base == Spec => [](TypeInv /\ LockInv)
<1>1. Init => TypeInv /\ LockInv
    BY BaseInit
<1>2. (TypeInv /\ LockInv) /\ [Next]_vars => (TypeInv /\ LockInv)'
    BY NextKinds, BaseStutter
<1> QED
    BY <1>1, <1>2, PTL DEF Spec

(* Tables, records, locks and operations stay what the code's types allow. *)
THEOREM TypeCorrect == Spec => []TypeOK
<1>1. TypeInv => TypeOK
  <2>1. SUFFICES ASSUME TypeInv PROVE TypeOK
    OBVIOUS
  <2>2. \A o \in Op : op[o] \in OpState /\ op[o].failed \subseteq op[o].held
    BY <2>1, OpType DEF Shape
  <2> QED
    BY <2>1, <2>2 DEF TypeOK, TypeInv, StoreType, OpsType, OpState, Record, TaskStates
<1> QED
    BY <1>1, Base, PTL

-----------------------------------------------------------------------------
(* Owners *)

LEMMA OwnerMove ==
    ASSUME TypeInv, OwnerInv, NEW o \in Op, Others(o), leaked["owner"] \subseteq leaked'["owner"],
           \A b \in Backup : record'[b].some /\ record'[b].owner \in up =>
              \/ record[b].some /\ record'[b].owner = record[b].owner
              \/ record'[b].owner = ProcOf[o] /\ Owns(o, b)',
           \A b \in Backup : Owns(o, b) /\ record'[b].some /\ record'[b].owner = ProcOf[o] =>
              Owns(o, b)' \/ \E t \in Table : <<b, t>> \in leaked'["owner"]
    PROVE  OwnerInv'
<1>1. SUFFICES ASSUME NEW b \in Backup, record'[b].some, record'[b].owner \in up
               PROVE  \/ \E q \in Op : ProcOf[q] = record'[b].owner /\ Owns(q, b)'
                      \/ \E t \in Table : <<b, t>> \in leaked'["owner"]
    BY DEF OwnerInv, owner_is_live, Others
<1>2. CASE record[b].some /\ record'[b].owner = record[b].owner
  <2>1. CASE \E t \in Table : <<b, t>> \in leaked["owner"]
    BY <2>1
  <2>2. CASE \E q \in Op : ProcOf[q] = record[b].owner /\ Owns(q, b)
    <3>1. PICK q \in Op : ProcOf[q] = record[b].owner /\ Owns(q, b)
      BY <2>2
    <3>2. CASE q = o
      BY <1>1, <1>2, <3>1, <3>2
    <3>3. CASE q # o
      BY <1>2, <3>1, <3>3 DEF Others, Owns
    <3> QED
      BY <3>2, <3>3
  <2> QED
    BY <1>1, <1>2, <2>1, <2>2 DEF OwnerInv, owner_is_live
<1> QED
    BY <1>1, <1>2

LEMMA OwnsWhere ==
    ASSUME TypeInv, NEW o \in Op, NEW b
    PROVE  Owns(o, b) => /\ op[o].b = b /\ op[o].pc \in {"rest", "tail", "copy", "unfreeze", "write"}
                         /\ op[o].pc \in Releases => op[o].rel = b
                         /\ op[o].pc \in {"rest", "tail"} => op[o].kind = "create" /\ op[o].claimed # {}
BY OpType DEF Owns, Releases, Shape

(* A step that leaves the records alone, of an operation that owns none. *)
LEMMA OwnerSame ==
    ASSUME TypeInv, OwnerInv, NEW o \in Op, Others(o), record' = record,
           leaked["owner"] \subseteq leaked'["owner"],
           \/ op[o].pc \notin {"rest", "tail", "copy", "unfreeze", "write"}
           \/ \A b \in Backup : Owns(o, b) /\ record[b].some => Owns(o, b)'
    PROVE  OwnerInv'
BY OwnerMove, OwnsWhere

LEMMA OwnerSteps ==
    ASSUME TypeInv, OwnerInv, NEW o \in Op, Steps(o)
    PROVE  OwnerInv'
<1>0. Nobody \notin Proc /\ up \subseteq Proc /\ ProcOf[o] \in Proc /\ "owner" \in Causes
    BY FreezeAssumption DEF TypeInv, OpsType, Causes
<1>1. CASE \E kind \in Kinds, b \in Backup \cup {Global} : Start(o, kind, b)
    BY <1>1, StartStep, OwnerSame
<1>2. CASE Unfreeze(o)
  <2>1. /\ Others(o) /\ Keeps(o) /\ op[o].pc = "unfreeze" /\ op'[o].pc = "write"
        /\ op'[o].rel = op[o].rel /\ record' = record /\ leaked' = leaked
    BY <1>2, UnfreezeStep DEF Unfreeze, unfreeze_all_checked
  <2>2. \A b \in Backup : Owns(o, b) => Owns(o, b)'
    BY <2>1 DEF Owns, Keeps, Releases
  <2> QED
    BY <2>1, <2>2, OwnerSame
<1>3. CASE WriteRecord(o)
  <2>1. /\ Others(o) /\ op[o].pc = "write" /\ op[o].rel \in Backup
        /\ record'[op[o].rel] = NewRecord(o)
        /\ \A b \in Backup : b # op[o].rel => record'[b] = record[b]
        /\ ~NewRecord(o).some \/ NewRecord(o).owner = Nobody
    BY <1>3, WriteGoes, WriteStep
  <2>2. leaked["owner"] \subseteq leaked'["owner"]
    BY <1>0, <1>3, WriteStep
  <2>3. \A b \in Backup : Owns(o, b) => b = op[o].rel
    BY <2>1, OwnsWhere DEF Releases
  <2> QED
    BY <1>0, <2>1, <2>2, <2>3, OwnerMove
<1>22. CASE WriteFails(o)
  <2>1. /\ Others(o) /\ op[o].pc = "write" /\ op[o].rel \in Backup
    BY <1>22, WriteGoes
  <2>2. /\ record' = record /\ leaked["owner"] \subseteq leaked'["owner"]
        /\ record[op[o].rel].some /\ record[op[o].rel].owner = ProcOf[o] =>
             \E t \in Table : <<op[o].rel, t>> \in leaked'["owner"]
    BY <1>0, <1>22, WriteFailsStep
  <2>3. \A b \in Backup : Owns(o, b) => b = op[o].rel
    BY <2>1, OwnsWhere DEF Releases
  <2> QED
    BY <2>1, <2>2, <2>3, OwnerMove
<1>4. CASE Idles(o)
  <2>1. /\ Others(o) /\ record' = record /\ leaked' = leaked
        /\ op[o].pc \in {"begin", "reap", "orphan", "failed", "broken", "tail"}
        /\ op[o].pc = "tail" => op[o].claimed = {}
    BY <1>4 DEF Idles, Quiet
  <2>2. \A b \in Backup : ~Owns(o, b)
    BY <2>1, OwnsWhere
  <2> QED
    BY <2>1, <2>2, OwnerSame
<1>5. CASE Paces(o)
    BY <1>5, OwnerSame DEF Paces, Quiet
<1>6. CASE \E b \in Backup : Lets(o, b)
  <2>1. PICK b \in Backup : Lets(o, b)
    BY <1>6
  <2>2. /\ Others(o) /\ leaked' = leaked /\ op'[o].b = op[o].b /\ op'[o].pc = "unfreeze" /\ op'[o].rel = b
    BY <2>1 DEF Lets, Keeps
  <2>3. Owns(o, b)' <=> op[o].b = b
    BY <2>2 DEF Owns, Releases
  <2>4. \A c \in Backup : Owns(o, c) => c = b /\ op[o].b = b
    BY <2>1, OwnsWhere DEF Lets
  <2>5. CASE record' = record
    BY <2>2, <2>3, <2>4, <2>5, OwnerSame
  <2>6. CASE record' = [record EXCEPT ![b] = adopt(record[b], ProcOf[o])] /\ op[o].b = b /\ record[b].some
    <3> DEFINE r == adopt(record[b], ProcOf[o])
    <3>1. r.some = record[b].some /\ r.owner = ProcOf[o]
      BY <1>0, RecordValues
    <3>2. record'[b] = r /\ \A c \in Backup : c # b => record'[c] = record[c]
      BY <2>6 DEF TypeInv, StoreType
    <3> HIDE DEF r
    <3> QED
      BY <2>2, <2>3, <2>4, <2>6, <3>1, <3>2, OwnerMove
  <2> QED
    BY <2>1, <2>5, <2>6 DEF Lets, Usable
<1>7. CASE CreateDir(o)
    BY <1>7, DirStep, OwnerSame
<1>8. CASE \E t \in Table : Freezes(o, t)
  <2>1. Others(o) /\ record' = record /\ leaked["owner"] \subseteq leaked'["owner"]
        /\ op[o].pc \in {"freeze", "orphan"}
    BY <1>0, <1>8, FrozenStep
  <2> QED
    BY <2>1, OwnerSame
<1>9. CASE CreateUndo(o) \/ UnfreezeRest(o)
  <2>1. /\ Others(o) /\ Keeps(o) /\ KeepsRelease(o) /\ op[o].b \in Backup
        /\ leaked["owner"] \subseteq leaked'["owner"]
        /\ \A c \in Backup : c # op[o].b => record'[c] = record[c]
        /\ \/ op[o].pc = "undo" /\ record'[op[o].b] = NoRecord
           \/ op[o].pc = "rest" /\ op'[o].pc = "tail" /\ op[o].kind = "create" /\ record' = record
    BY <1>0, <1>9, UndoStep
  <2>2. CASE op[o].pc = "rest" /\ record' = record
    <3>1. op'[o].pc = "tail" /\ op[o].kind = "create"
      BY <2>1, <2>2
    <3>2. \A b \in Backup : Owns(o, b) => Owns(o, b)'
      BY <2>1, <2>2, <3>1 DEF Owns, Keeps, Releases
    <3> QED
      BY <2>1, <2>2, <3>2, OwnerSame
  <2>3. CASE op[o].pc = "undo" /\ record'[op[o].b] = NoRecord
    <3>1. \A b \in Backup : ~Owns(o, b)
      BY <2>3, OwnsWhere
    <3>2. ~NoRecord.some
      BY DEF NoRecord
    <3> QED
      BY <2>1, <2>3, <3>1, <3>2, OwnerMove
  <2> QED
    BY <2>1, <2>2, <2>3
<1>10. CASE CreateSweep(o) \/ clean_shadow(o)
  <2>1. Others(o) /\ record' = record /\ leaked' = leaked /\ op[o].pc \in {"reap", "begin"}
    BY <1>10, SweepStep
  <2> QED
    BY <2>1, OwnerSame
<1>11. CASE SplitFreeze(o)
  <2>1. /\ Others(o) /\ op[o].kind = "create" /\ op[o].pc = "split" /\ op'[o].pc = "rest"
        /\ op'[o].kind = "create" /\ op'[o].b = op[o].b
        /\ op[o].b \in Backup /\ leaked' = leaked
        /\ \/ record' = record
           \/ \E kept \in SUBSET op[o].reg :
                /\ kept # {} /\ op'[o].claimed = kept
                /\ record' = [record EXCEPT ![op[o].b] = new(ProcOf[o], kept)]
    BY <1>11, SplitStep
  <2>2. CASE record' = record
    BY <2>1, <2>2, OwnerSame
  <2>3. CASE \E kept \in SUBSET op[o].reg :
                /\ kept # {} /\ op'[o].claimed = kept
                /\ record' = [record EXCEPT ![op[o].b] = new(ProcOf[o], kept)]
    <3>1. PICK kept \in SUBSET op[o].reg :
                /\ kept # {} /\ op'[o].claimed = kept
                /\ record' = [record EXCEPT ![op[o].b] = new(ProcOf[o], kept)]
      BY <2>3
    <3>2. new(ProcOf[o], kept).owner = ProcOf[o]
      BY DEF new
    <3>3. record'[op[o].b].owner = ProcOf[o] /\ \A c \in Backup : c # op[o].b => record'[c] = record[c]
      BY <2>1, <3>1, <3>2 DEF TypeInv, StoreType
    <3>4. \A b \in Backup : op[o].b = b => Owns(o, b)'
      BY <2>1, <3>1 DEF Owns
    <3>5. \A c \in Backup : ~Owns(o, c)
      BY <2>1, OwnsWhere
    <3> QED
      BY <2>1, <3>3, <3>4, <3>5, OwnerMove
  <2> QED
    BY <2>1, <2>2, <2>3
<1>12. CASE CreateTail(o) \/ UploadFails(o)
  <2>1. /\ Others(o) /\ leaked["owner"] \subseteq leaked'["owner"] /\ op[o].b \in Backup
        /\ \A b \in Backup : b # op[o].b => record'[b] = record[b]
        /\ record'[op[o].b].some = record[op[o].b].some
        /\ \/ record'[op[o].b].owner = Nobody
           \/ /\ record'[op[o].b].owner = record[op[o].b].owner
              /\ record[op[o].b].some /\ record[op[o].b].owner = ProcOf[o] =>
                   \E t \in Table : <<op[o].b, t>> \in leaked'["owner"]
    BY <1>0, <1>12, TailStep
  <2>2. \A b \in Backup : Owns(o, b) => b = op[o].b
    BY OwnsWhere
  <2> QED
    BY <1>0, <2>1, <2>2, OwnerMove
<1>13. CASE TaskPanics(o)
  <2>1. Others(o) /\ record' = record /\ leaked["owner"] \subseteq leaked'["owner"] /\ op[o].pc = "freeze"
    BY <1>0, <1>13, PanicStep
  <2> QED
    BY <2>1, OwnerSame
<1>14. CASE CancelCreate(o)
  <2>1. Others(o) /\ record' = record /\ leaked["owner"] \subseteq leaked'["owner"] /\ op[o].pc = "freeze"
    BY <1>0, <1>14, CancelStep
  <2> QED
    BY <2>1, OwnerSame
<1>15. CASE KillCreate(o)
  <2>1. /\ Others(o) /\ record' = record /\ leaked["owner"] \subseteq leaked'["owner"]
        /\ op[o].pc \in {"rest", "tail"} \/ op[o].rel = op[o].b =>
             \A t \in record[op[o].b].retained : <<op[o].b, t>> \in leaked'["owner"]
        /\ op[o].kind = "create"
    BY <1>0, <1>15, KillStep
  <2>2. ASSUME NEW b \in Backup, Owns(o, b), record[b].some
        PROVE  \E t \in Table : <<b, t>> \in leaked'["owner"]
    <3>1. op[o].b = b /\ (op[o].pc \in {"rest", "tail"} \/ op[o].rel = b)
      BY <2>1, <2>2 DEF Owns
    <3>2. PICK t \in record[b].retained : TRUE
      BY <2>2 DEF TypeInv, StoreType
    <3>3. t \in Table
      BY <3>2 DEF TypeInv, StoreType, Record
    <3> QED
      BY <2>1, <3>1, <3>2, <3>3
  <2> QED
    BY <2>1, <2>2, OwnerMove
<1>16. CASE UploadClaim(o)
  <2>1. /\ Others(o) /\ op[o].kind = "upload" /\ op[o].pc = "begin" /\ op'[o].pc = "copy"
        /\ op'[o].kind = "upload" /\ op'[o].b = op[o].b /\ leaked' = leaked
        /\ \A c \in Backup :
             /\ record'[c].some = record[c].some
             /\ \/ record'[c].owner = record[c].owner
                \/ c = op[o].b /\ record'[c].owner = ProcOf[o]
    BY <1>16, ClaimStep
  <2>2. \A b \in Backup : op[o].b = b => Owns(o, b)'
    BY <2>1 DEF Owns
  <2>3. \A c \in Backup : ~Owns(o, c)
    BY <2>1, OwnsWhere
  <2> QED
    BY <2>1, <2>2, <2>3, OwnerMove
<1>17. CASE Finishes(o)
  <2>1. Others(o) /\ record' = record /\ leaked' = leaked /\ ~Usable(op[o].b, ProcOf[o])
    BY <1>17 DEF Finishes
  <2>2. \A b \in Backup : Owns(o, b) /\ record[b].some => record[b].owner # ProcOf[o]
    BY <2>1, OwnsWhere DEF Usable
  <2> QED
    BY <2>1, <2>2, OwnerMove
<1>18. CASE KillUpload(o)
  <2>1. /\ Others(o) /\ KeepsRelease(o) /\ op'[o].kind = op[o].kind /\ op'[o].b = op[o].b
        /\ op'[o].pc = op[o].pc /\ op'[o].claimed = op[o].claimed /\ record' = record /\ leaked' = leaked
    BY <1>18, KillUploadStep
  <2>2. \A b \in Backup : Owns(o, b) => Owns(o, b)'
    BY <2>1 DEF Owns, KeepsRelease
  <2> QED
    BY <2>1, <2>2, OwnerSame
<1>19. CASE \E b \in Backup : Others(o) /\ Removes(b) /\ op[o].pc \in {"begin", "cleanup", "broken"}
  <2>1. PICK b \in Backup : Others(o) /\ Removes(b) /\ op[o].pc \in {"begin", "cleanup", "broken"}
    BY <1>19
  <2>2. /\ leaked' = leaked
        /\ \A c \in Backup : record'[c].some /\ record'[c].owner \in up =>
               record[c].some /\ record'[c].owner = record[c].owner
    BY <2>1 DEF Removes
  <2>3. \A c \in Backup : ~Owns(o, c)
    BY <2>1, OwnsWhere
  <2> QED
    BY <2>1, <2>2, <2>3, OwnerMove
<1>20. CASE DeleteLocal(o) \/ UploadDone(o)
  <2>1. op[o].pc \in {"begin", "cleanup"} /\ Others(o) /\ \E b \in Backup : Removes(b)
    BY <1>20, DeleteStep
  <2> QED
    BY <1>19, <2>1
<1>21. CASE Drops(o)
    BY <1>19, <1>21 DEF Drops
<1> QED
    BY <1>1, <1>2, <1>3, <1>4, <1>5, <1>6, <1>7, <1>8, <1>9, <1>10, <1>11, <1>12, <1>13, <1>14,
       <1>15, <1>16, <1>17, <1>18, <1>20, <1>21, <1>22 DEF Steps

LEMMA OwnerNext ==
    ASSUME TypeInv, LockInv, OwnerInv, [Next]_vars
    PROVE  OwnerInv'
<1>1. CASE Next
  <2>1. CASE \E o \in Op : Steps(o)
    BY <2>1, OwnerSteps
  <2>2. ASSUME NEW b \in Backup, Expire(b)
        PROVE  OwnerInv'
    <3>1. /\ \A c \in Backup : record'[c].some = record[c].some /\ record'[c].owner = record[c].owner
          /\ UNCHANGED <<op, up, leaked>>
      BY <2>2, ExpireStep
    <3> QED
      BY <3>1 DEF OwnerInv, owner_is_live, Owns
  <2>3. ASSUME NEW p \in Proc, Crash(p)
        PROVE  OwnerInv'
    <3>1. /\ record' = record /\ up' = up \ {p} /\ leaked["owner"] \subseteq leaked'["owner"]
          /\ \A o \in Op : ProcOf[o] # p => op'[o] = op[o]
      BY <2>3, CrashStep DEF Causes
    <3>2. \A o \in Op, b \in Backup : ProcOf[o] # p /\ Owns(o, b) => Owns(o, b)'
      BY <3>1 DEF Owns
    <3> QED
      BY <3>1, <3>2 DEF OwnerInv, owner_is_live
  <2> QED
    BY <1>1, <2>1, <2>2, <2>3, NextKinds
<1>2. CASE UNCHANGED vars
    BY <1>2 DEF OwnerInv, owner_is_live, Owns, vars
<1> QED
    BY <1>1, <1>2

(* Whatever kills, crashes, failing UNFREEZEs and failing writes happen:   *)
(* the live process that owns a record runs an operation on its backup, or *)
(* the create that published it was killed, or the last write of the       *)
(* operation that owned it failed.                                         *)
THEOREM OwnerRuns == Spec => []OwnerIsRunning
<1>1. Init => OwnerInv
    BY DEF Init, OwnerInv, NoRecord
<1>2. (TypeInv /\ LockInv) /\ OwnerInv /\ [Next]_vars => OwnerInv'
    BY OwnerNext
<1>3. OwnerInv => OwnerIsRunning
    BY DEF OwnerInv, OwnerIsRunning, Owns
<1> QED
    BY <1>1, <1>2, <1>3, Base, PTL DEF Spec

-----------------------------------------------------------------------------
(* Freezes are tracked *)

(* The locks of o keep every other operation from b. *)
Holds(o, b) ==
    /\ op[o].pc # "idle" /\ ~op[o].cancelled
    /\ \/ op[o].kind \in {"create", "upload", "release"} /\ op[o].b = b
       \/ op[o].pc \in Releases \cup {"reread"} /\ op[o].rel = b
       \/ op[o].kind \in {"delete", "clean", "clean_broken"}

LEMMA Exclusive ==
    ASSUME TypeInv, LockInv, NEW o \in Op, NEW q \in Op, NEW b \in Backup, Holds(o, b), Holds(q, b)
    PROVE  o = q
<1>1. ASSUME NEW r \in Op, Holds(r, b)
      PROVE  lock[b] = r \/ lock[Global] = r
  <2>1. CASE op[r].kind \in {"create", "upload", "release"} /\ op[r].b = b
    BY <1>1, <2>1 DEF Holds, LockInv, Scope
  <2>2. CASE op[r].kind \in {"delete", "clean", "clean_broken"}
    BY <1>1, <2>2 DEF Holds, LockInv, Scope
  <2>3. CASE /\ op[r].pc \in Releases \cup {"reread"} /\ op[r].rel = b
             /\ op[r].kind # "clean_broken"
    BY <1>1, <2>3 DEF Holds, LockInv
  <2> QED
    BY <1>1, <2>1, <2>2, <2>3 DEF Holds
<1> QED
    BY <1>1, FreezeAssumption DEF LockInv

(* Who creates or releases holds the backup, unless it was killed. *)
LEMMA CreatorHolds ==
    ASSUME TypeInv, NEW q \in Op, op[q].pc \in Creating
    PROVE  op[q].b \in Backup /\ Holds(q, op[q].b)
BY OpType DEF Shape, Creating, Releases, Holds

LEMMA ReleaserHolds ==
    ASSUME TypeInv, NEW q \in Op, op[q].pc \in Releases, ~op[q].cancelled
    PROVE  op[q].rel \in Backup /\ Holds(q, op[q].rel)
BY OpType DEF Shape, Releases, Holds

(* A step keeps what is listed, but for what is written late. *)
Steady(b) ==
    /\ \A t \in Table : (t \in record'[b].retained <=> t \in record[b].retained) \/ Late(b, t)'
    /\ \A t : Late(b, t) => Late(b, t)'

LEMMA ListsKept ==
    ASSUME NEW b \in Backup, NEW ts, Steady(b), Lists(b, ts)
    PROVE  Lists(b, ts)'
BY DEF Steady, Lists

LEMMA LateKept ==
    ASSUME \A c \in Causes : leaked[c] \subseteq leaked'[c]
    PROVE  /\ \A b, t : Late(b, t) => Late(b, t)'
           /\ \A b, t : Late(b, t) => Tracked(b, t)
           /\ \A b, t : Late(b, t)' => Tracked(b, t)'
BY DEF Late, Tracked, Causes

(* A record that stays is steady. *)
LEMMA SteadySame ==
    ASSUME \A c \in Causes : leaked[c] \subseteq leaked'[c],
           NEW b \in Backup, record'[b].retained = record[b].retained
    PROVE  Steady(b)
BY LateKept DEF Steady

LEMMA CreateKept ==
    ASSUME TypeInv, TypeInv', NEW q \in Op, op'[q] = op[q], CreateOK(op[q]),
           \A b \in Backup : op[q].pc \in Creating /\ op[q].b = b => Steady(b)
    PROVE  CreateOK(op[q])'
<1>1. CASE op[q].pc \in Creating
  <2>0. op[q].b \in Backup
    BY <1>1, OpType DEF Shape, Creating
  <2>2. PICK b \in Backup, ts \in {op[q].claimed} : b = op[q].b
    BY <2>0
  <2>1. Steady(b)
    BY <1>1, <2>2
  <2>3. op'[q].b = b /\ op'[q].claimed = ts /\ op'[q].reg = op[q].reg /\ op'[q].pc = op[q].pc
    BY <2>2
  <2>4. record'[b].retained \subseteq Table
    BY DEF TypeInv, StoreType, Record
  <2>5. \A t \in record'[b].retained : t \in record[b].retained \/ Late(b, t)'
    BY <2>1, <2>2, <2>4 DEF Steady
  <2>6. \A t : Late(b, t) => Late(b, t)'
    BY <2>1, <2>2 DEF Steady
  <2>7. op[q].pc \in {"rest", "tail"} => Lists(b, ts)'
    BY <2>1, <2>2, ListsKept DEF CreateOK
  <2>8. op[q].pc \in {"freeze", "split", "undo"} => \A t \in record'[b].retained : Late(b, t)'
    BY <2>2, <2>5, <2>6 DEF CreateOK
  <2>9. op[q].pc = "rest" => \A t \in op[q].reg \cap record'[b].retained : Late(b, t)'
    BY <2>2, <2>5, <2>6 DEF CreateOK
  <2> QED
    BY <2>3, <2>7, <2>8, <2>9 DEF CreateOK, Lists, Late
<1>2. CASE op[q].pc \notin Creating
    BY <1>2 DEF CreateOK, Creating
<1> QED
    BY <1>1, <1>2

LEMMA ReleaseKept ==
    ASSUME TypeInv, NEW q \in Op, op'[q] = op[q], ReleaseOK(op[q]),
           \A b \in Backup : op[q].pc \in Releases /\ ~op[q].cancelled /\ op[q].rel = b =>
              /\ Steady(b)
              /\ \A t \in shadow'[b] : Tracked(b, t)' \/ (t \in shadow[b] /\ ~Tracked(b, t))
    PROVE  ReleaseOK(op[q])'
<1>1. CASE op[q].pc \in Releases /\ ~op[q].cancelled
  <2>1. op[q].rel \in Backup
    BY <1>1, ReleaserHolds
  <2>2. PICK b \in Backup, ts \in {op[q].held} : b = op[q].rel
    BY <2>1
  <2>3. /\ op'[q].rel = b /\ op'[q].held = ts /\ op'[q].failed = op[q].failed
        /\ op'[q].pc = op[q].pc
    BY <2>2
  <2>4. /\ Steady(b)
        /\ \A t \in shadow'[b] : Tracked(b, t)' \/ (t \in shadow[b] /\ ~Tracked(b, t))
    BY <1>1, <2>2
  <2>5. Lists(b, ts)'
    BY <1>1, <2>2, <2>4, ListsKept DEF ReleaseOK
  <2>6. op[q].pc = "write" => \A t \in shadow'[b] : t \in op[q].failed \/ Tracked(b, t)'
    BY <1>1, <2>2, <2>4 DEF ReleaseOK
  <2> QED
    BY <2>3, <2>5, <2>6 DEF ReleaseOK, Lists, Late, Tracked
<1>2. CASE ~(op[q].pc \in Releases /\ ~op[q].cancelled)
    BY <1>2 DEF ReleaseOK
<1> QED
    BY <1>1, <1>2

LEMMA TrackMove ==
    ASSUME TypeInv, TypeInv', LockInv, TrackInv, NEW o \in Op, Others(o),
           \A b \in Backup : dir'[b] = "none" => record'[b].retained = {},
           CreateOK(op[o])', ReleaseOK(op[o])',
           \A b \in Backup : \A t \in shadow'[b] : t \in record'[b].retained \/ Tracked(b, t)',
           \A b \in Backup :
              \/ Holds(o, b)
              \/ /\ Steady(b)
                 /\ \A t \in shadow'[b] :
                      Tracked(b, t)' \/ (t \in shadow[b] /\ ~Tracked(b, t))
    PROVE  TrackInv'
<1>1. ASSUME NEW q \in Op, q # o
      PROVE  CreateOK(op[q])' /\ ReleaseOK(op[q])'
  <2>1. op'[q] = op[q] /\ CreateOK(op[q]) /\ ReleaseOK(op[q])
    BY <1>1 DEF Others, TrackInv
  <2>2. \A b \in Backup : op[q].pc \in Creating /\ op[q].b = b => Steady(b)
    BY <1>1, CreatorHolds, Exclusive
  <2>3. \A b \in Backup : op[q].pc \in Releases /\ ~op[q].cancelled /\ op[q].rel = b =>
              /\ Steady(b)
              /\ \A t \in shadow'[b] : Tracked(b, t)' \/ (t \in shadow[b] /\ ~Tracked(b, t))
    BY <1>1, ReleaserHolds, Exclusive
  <2> QED
    BY <2>1, <2>2, <2>3, CreateKept, ReleaseKept
<1> QED
    BY <1>1 DEF TrackInv

(* What o does not track itself stays tracked. *)
LEMMA TrackedElse ==
    ASSUME NEW o \in Op, Others(o), \A c \in Causes : leaked[c] \subseteq leaked'[c]
    PROVE  \A b \in Backup : \A t : Tracked(b, t) =>
              Tracked(b, t)' \/ (op[o].kind = "create" /\ op[o].b = b /\ t \in op[o].reg)
<1>1. SUFFICES ASSUME NEW b \in Backup, NEW t, Tracked(b, t)
               PROVE  Tracked(b, t)' \/ (op[o].kind = "create" /\ op[o].b = b /\ t \in op[o].reg)
    OBVIOUS
<1>2. CASE \E c \in Causes : <<b, t>> \in leaked[c]
    BY <1>2 DEF Tracked
<1>3. CASE \E q \in Op : op[q].kind = "create" /\ op[q].b = b /\ t \in op[q].reg
  <2>1. PICK q \in Op : op[q].kind = "create" /\ op[q].b = b /\ t \in op[q].reg
    BY <1>3
  <2>2. CASE q # o
    BY <2>1, <2>2 DEF Tracked, Others
  <2> QED
    BY <2>1, <2>2
<1> QED
    BY <1>1, <1>2, <1>3 DEF Tracked

LEMMA TrackedKept ==
    ASSUME NEW o \in Op, Others(o), \A c \in Causes : leaked[c] \subseteq leaked'[c],
           \/ op[o].reg = {}
           \/ op[o].reg \subseteq op'[o].reg /\ op'[o].kind = op[o].kind /\ op'[o].b = op[o].b
    PROVE  \A b \in Backup : \A t : Tracked(b, t) => Tracked(b, t)'
<1>1. SUFFICES ASSUME NEW b \in Backup, NEW t, Tracked(b, t) PROVE Tracked(b, t)'
    OBVIOUS
<1>2. CASE op[o].kind = "create" /\ op[o].b = b /\ t \in op[o].reg
    BY <1>2 DEF Tracked
<1> QED
    BY <1>1, <1>2, TrackedElse

(* A step that freezes and unfreezes nothing and keeps what is recorded. *)
LEMMA TrackSame ==
    ASSUME TypeInv, TypeInv', LockInv, TrackInv, NEW o \in Op, Others(o),
           shadow' = shadow, dir' = dir, \A c \in Causes : leaked[c] \subseteq leaked'[c],
           \A b \in Backup : record'[b].retained = record[b].retained,
           \/ op[o].reg = {}
           \/ op[o].reg \subseteq op'[o].reg /\ op'[o].kind = op[o].kind /\ op'[o].b = op[o].b,
           CreateOK(op[o])', ReleaseOK(op[o])'
    PROVE  TrackInv'
<1>1. \A b \in Backup : \A t : Tracked(b, t) => Tracked(b, t)'
    BY TrackedKept
<1>2. \A b \in Backup : Steady(b)
    BY SteadySame
<1> QED
    BY <1>1, <1>2, TrackMove DEF TrackInv

LEMMA Labelled ==
    /\ {"idle", "begin", "reap", "reread", "orphan", "failed", "copy", "cleanup", "broken"}
         \cap (Creating \cup Releases) = {}
    /\ Idle.pc = "idle" /\ Idle.reg = {} /\ Idle.kind = "idle" /\ Idle.rel = Global
    /\ ~Idle.cancelled
BY DEF Creating, Releases, Idle

LEMMA TrackQuiet ==
    ASSUME TypeInv, TypeInv', LockInv, TrackInv, NEW o \in Op, Idles(o) \/ Paces(o) \/ \E b \in Backup : Lets(o, b)
    PROVE  TrackInv'
<1>1. CASE Idles(o)
  <2>1. CreateOK(op[o])' /\ ReleaseOK(op[o])'
    BY <1>1, Labelled DEF Idles, CreateOK, ReleaseOK, Creating, Releases
  <2> QED
    BY <1>1, <2>1, TrackSame DEF Idles, Quiet
<1>2. CASE Paces(o)
  <2>1. /\ CreateOK(op[o]) /\ op'[o].b = op[o].b /\ op'[o].kind = op[o].kind /\ record' = record /\ dir' = dir
        /\ op'[o].pc \in {"reap", "reread", "freeze", "orphan", "split", "undo", "broken"}
        /\ op'[o].pc \in Creating => op[o].pc = "freeze"
    BY <1>2 DEF Paces, Keeps, Quiet, TrackInv
  <2>2. CreateOK(op[o])' /\ ReleaseOK(op[o])'
    BY <1>2, <2>1 DEF CreateOK, ReleaseOK, Creating, Releases, Paces, Quiet, Late
  <2> QED
    BY <1>2, <2>1, <2>2, TrackSame DEF Paces, Quiet
<1>3. CASE \E b \in Backup : Lets(o, b)
  <2>1. PICK b \in Backup : Lets(o, b)
    BY <1>3
  <2>2. \A c \in Backup : record'[c].retained = record[c].retained
    <3>1. CASE record' = record
      BY <3>1
    <3>2. CASE record' = [record EXCEPT ![b] = adopt(record[b], ProcOf[o])]
      <4> DEFINE r == adopt(record[b], ProcOf[o])
      <4>1. r.retained = record[b].retained
        BY OpType, RecordValues
      <4>2. record'[b] = r /\ \A c \in Backup : c # b => record'[c] = record[c]
        BY <3>2 DEF TypeInv, StoreType
      <4> HIDE DEF r
      <4> QED
        BY <4>1, <4>2
    <3> QED
      BY <2>1, <3>1, <3>2 DEF Lets
  <2>3. op'[o].pc = "unfreeze" /\ op'[o].rel = b
    BY <2>1 DEF Lets
  <2>5. Lists(b, op[o].held)'
    <3>1. CASE op[o].pc = "tail"
      <4>1. op'[o].held = op[o].claimed /\ leaked' = leaked /\ op[o].b = b
        BY <2>1, <3>1 DEF Lets
      <4>2. Lists(b, op[o].claimed)
        BY <3>1, <4>1 DEF TrackInv, CreateOK
      <4> QED
        BY <2>2, <4>1, <4>2 DEF Lists, Late
    <3>2. CASE op[o].pc # "tail"
      <4>1. op'[o].held = record'[b].retained
        BY <2>1, <2>2, <3>2 DEF Lets
      <4> QED
        BY <4>1 DEF Lists
    <3> QED
      BY <3>1, <3>2
  <2>4. CreateOK(op[o])' /\ ReleaseOK(op[o])'
    BY <2>3, <2>5 DEF CreateOK, ReleaseOK, Lists, Late
  <2> QED
    BY <2>1, <2>2, <2>4, TrackSame DEF Lets
<1> QED
    BY <1>1, <1>2, <1>3

LEMMA TrackUnfreeze ==
    ASSUME TypeInv, TypeInv', LockInv, TrackInv, NEW o \in Op, Unfreeze(o)
    PROVE  TrackInv'
<1>1. /\ Others(o) /\ Keeps(o) /\ op[o].pc = "unfreeze" /\ op'[o].pc = "write"
      /\ op'[o].rel = op[o].rel /\ op'[o].held = op[o].held /\ op'[o].reg = op[o].reg /\ op[o].rel \in Backup
    BY UnfreezeStep
<1>2. PICK failed \in SUBSET op[o].held :
        /\ op'[o].failed = failed
        /\ shadow' = [shadow EXCEPT ![op[o].rel] = @ \ (op[o].held \ failed)]
    BY UnfreezeStep
<1>3. record' = record /\ dir' = dir /\ leaked' = leaked
    BY DEF Unfreeze, unfreeze_all_checked
<1>4. PICK b \in Backup : b = op[o].rel
    BY <1>1
<1>5. /\ shadow'[b] = shadow[b] \ (op[o].held \ failed)
      /\ \A c \in Backup : c # b => shadow'[c] = shadow[c]
    BY <1>2, <1>4 DEF TypeInv, StoreType
<1>6. \A c \in Backup : \A t : Tracked(c, t) => Tracked(c, t)'
    BY <1>1, <1>3, TrackedKept DEF Keeps
<1>7. /\ \A t : Late(b, t) => Tracked(b, t)
      /\ \A c \in Backup : Steady(c)
    BY <1>3, LateKept, SteadySame
<1>8. ReleaseOK(op[o])'
  <2>1. op'[o].rel = b /\ op'[o].held = op[o].held /\ op'[o].cancelled = op[o].cancelled
    BY <1>1, <1>4 DEF Keeps
  <2>2. ASSUME ~op[o].cancelled, NEW t \in shadow'[b]
        PROVE  t \in failed \/ Tracked(b, t)'
    <3>1. t \in shadow[b] /\ (t \in op[o].held => t \in failed) /\ t \in Table
      BY <1>5, <2>2 DEF TypeInv, StoreType
    <3>2. t \in record[b].retained \/ Tracked(b, t)
      BY <3>1 DEF TrackInv
    <3>3. Lists(b, op[o].held)
      BY <1>1, <1>4, <2>2 DEF TrackInv, ReleaseOK, Releases
    <3> QED
      BY <1>6, <1>7, <3>1, <3>2, <3>3 DEF Lists
  <2>3. ~op[o].cancelled => Lists(b, op[o].held)
    BY <1>1, <1>4 DEF TrackInv, ReleaseOK, Releases
  <2>4. ~op[o].cancelled => Lists(b, op[o].held)'
    BY <1>3, <2>1, <2>3 DEF Lists, Late
  <2> QED
    BY <1>2, <2>1, <2>2, <2>4 DEF ReleaseOK, Lists, Late, Tracked
<1>9. CreateOK(op[o])'
    BY <1>1 DEF CreateOK
<1>10. \A c \in Backup : \A t \in shadow'[c] : t \in shadow[c]
    BY <1>5
<1> QED
    BY <1>1, <1>3, <1>6, <1>7, <1>8, <1>9, <1>10, TrackMove DEF TrackInv

LEMMA TrackWrite ==
    ASSUME TypeInv, TypeInv', LockInv, TrackInv, NEW o \in Op, WriteRecord(o) \/ WriteFails(o)
    PROVE  TrackInv'
<1>1. /\ Others(o) /\ Keeps(o) /\ op[o].pc = "write" /\ op'[o].pc \in {"reap", "failed", "cleanup", "broken"}
      /\ op'[o].reg = op[o].reg /\ op[o].rel \in Backup /\ shadow' = shadow
    BY WriteGoes
<1>2. CreateOK(op[o])' /\ ReleaseOK(op[o])'
    BY <1>1 DEF CreateOK, ReleaseOK, Releases
<1>3. CASE WriteFails(o)
    BY <1>1, <1>2, <1>3, WriteFailsStep, TrackSame DEF Keeps
<1>4. CASE WriteRecord(o)
  <2>1. PICK b \in Backup : b = op[o].rel
    BY <1>1
  <2>2. /\ \A c \in Backup : c # b => record'[c] = record[c] /\ dir'[c] = dir[c]
        /\ record'[b].retained = op[o].failed
        /\ op[o].failed # {} => dir'[b] # "none"
        /\ \A c \in Causes : leaked[c] \subseteq leaked'[c]
        /\ op[o].cancelled => \A t \in record[b].retained \cup op[o].failed : Late(b, t)'
    BY <1>4, <2>1, WriteStep DEF Late
  <2>3. \A c \in Backup : \A t : Tracked(c, t) => Tracked(c, t)'
    BY <1>1, <2>2, TrackedKept DEF Keeps
  <2>4. \A t : Late(b, t) => Late(b, t)'
    BY <2>2, LateKept
  <2>5. \A t : Late(b, t)' => Tracked(b, t)'
    BY <2>2, LateKept
  <2>6. Holds(o, b) \/ Steady(b)
    <3>1. CASE op[o].cancelled
      BY <2>2, <2>4, <3>1 DEF Steady
    <3>2. CASE ~op[o].cancelled
      BY <1>1, <2>1, <3>2, ReleaserHolds DEF Releases
    <3> QED
      BY <3>1, <3>2
  <2>7. \A t \in shadow[b] : t \in op[o].failed \/ Tracked(b, t)'
    <3>1. CASE op[o].cancelled
      BY <2>2, <2>3, <2>5, <3>1 DEF TrackInv
    <3>2. CASE ~op[o].cancelled
      BY <1>1, <2>1, <2>3, <3>2 DEF TrackInv, ReleaseOK, Releases
    <3> QED
      BY <3>1, <3>2
  <2>8. \A c \in Backup : dir'[c] = "none" => record'[c].retained = {}
    BY <2>2 DEF TrackInv
  <2>9. \A c \in Backup : \A t \in shadow'[c] : t \in record'[c].retained \/ Tracked(c, t)'
    BY <1>1, <2>2, <2>3, <2>7 DEF TrackInv
  <2>10. \A c \in Backup : c # b => Steady(c)
    BY <2>2, SteadySame
  <2>11. \A c \in Backup : \A t \in shadow'[c] : Tracked(c, t)' \/ (t \in shadow[c] /\ ~Tracked(c, t))
    BY <1>1, <2>3
  <2> QED
    BY <1>1, <1>2, <2>6, <2>8, <2>9, <2>10, <2>11, TrackMove
<1> QED
    BY <1>3, <1>4

(* A create takes tables out of its registry, and out of the shadow unless *)
(* it is known that they stay: CreateUndo, UnfreezeRest, TaskPanics,       *)
(* CancelCreate and KillCreate. *)
LEMMA TrackRegistry ==
    ASSUME TypeInv, TypeInv', LockInv, TrackInv, NEW o \in Op, Others(o), NEW b \in Backup, Holds(o, b),
           op[o].kind = "create", op[o].b = b, \A c \in Backup : c # b => record'[c] = record[c],
           \A t \in record[b].retained : t \in record'[b].retained \/ Late(b, t),
           \A c \in Causes : leaked[c] \subseteq leaked'[c],
           \A c \in Backup : c # b => shadow'[c] = shadow[c] /\ dir'[c] = dir[c],
           dir'[b] = "none" => record'[b].retained = {},
           \A t \in shadow'[b] : \/ t \in shadow[b] /\ t \notin op[o].reg
                                 \/ \E c \in Causes : <<b, t>> \in leaked'[c],
           CreateOK(op[o])', ReleaseOK(op[o])'
    PROVE  TrackInv'
<1>1. \A c \in Backup : \A t : Tracked(c, t) =>
         Tracked(c, t)' \/ (op[o].kind = "create" /\ op[o].b = c /\ t \in op[o].reg)
    BY TrackedElse
<1>6. \A t : (\E c \in Causes : <<b, t>> \in leaked'[c]) => Tracked(b, t)'
    BY DEF Tracked
<1>7. \A t : Late(b, t) => Tracked(b, t)'
    BY LateKept
<1>2. \A t \in shadow'[b] : t \in record'[b].retained \/ Tracked(b, t)'
    BY <1>1, <1>6, <1>7 DEF TrackInv
<1>8. \A c \in Backup : c # b => Steady(c)
    BY SteadySame
<1>3. \A c \in Backup : c # b =>
         \A t \in shadow'[c] : Tracked(c, t)' \/ (t \in shadow[c] /\ ~Tracked(c, t))
    BY <1>1
<1>4. \A c \in Backup : \A t \in shadow'[c] : t \in record'[c].retained \/ Tracked(c, t)'
    BY <1>1, <1>2 DEF TrackInv
<1>5. \A c \in Backup : dir'[c] = "none" => record'[c].retained = {}
    BY DEF TrackInv
<1> QED
    BY <1>3, <1>4, <1>5, <1>8, TrackMove

LEMMA TrackUndo ==
    ASSUME TypeInv, TypeInv', LockInv, TrackInv, NEW o \in Op, CreateUndo(o) \/ UnfreezeRest(o)
    PROVE  TrackInv'
<1>1. /\ Others(o) /\ op[o].kind = "create" /\ op[o].b \in Backup
      /\ \/ /\ op[o].pc = "undo" /\ op'[o].pc = "reap" /\ dir' = [dir EXCEPT ![op[o].b] = "none"]
            /\ record'[op[o].b] = NoRecord
         \/ op[o].pc = "rest" /\ op'[o].pc = "tail" /\ dir' = dir /\ record' = record
      /\ \A c \in Backup : c # op[o].b => record'[c] = record[c]
      /\ \A c \in Causes : leaked[c] \subseteq leaked'[c]
      /\ op'[o].b = op[o].b /\ op'[o].claimed = op[o].claimed /\ op'[o].reg = {}
    BY UndoStep DEF Keeps
<1>2. PICK failed \in SUBSET op[o].reg :
        /\ shadow' = [shadow EXCEPT ![op[o].b] = @ \ (op[o].reg \ failed)]
        /\ \A t \in failed : <<op[o].b, t>> \in leaked'["unfreeze"]
    BY UndoStep
<1>3. PICK b \in Backup : b = op[o].b
    BY <1>1
<1>4. /\ shadow'[b] = shadow[b] \ (op[o].reg \ failed)
      /\ \A c \in Backup : c # b => shadow'[c] = shadow[c] /\ dir'[c] = dir[c]
      /\ op[o].pc = "undo" => dir'[b] = "none"
    BY <1>1, <1>2, <1>3 DEF TypeInv, StoreType
<1>5. \A t \in shadow'[b] : \/ t \in shadow[b] /\ t \notin op[o].reg
                            \/ \E c \in Causes : <<b, t>> \in leaked'[c]
    BY <1>2, <1>3, <1>4 DEF Causes
<1>6. Holds(o, b)
    BY <1>1, <1>3, CreatorHolds DEF Creating
<1>7. /\ \A t \in record[b].retained : t \in record'[b].retained \/ Late(b, t)
      /\ dir'[b] = "none" => record'[b].retained = {}
    BY <1>1, <1>3 DEF TrackInv, CreateOK, NoRecord
<1>8. CreateOK(op[o])' /\ ReleaseOK(op[o])'
  <2>1. CASE op[o].pc = "undo"
    BY <1>1, <2>1 DEF CreateOK, ReleaseOK, Releases
  <2>2. CASE op[o].pc = "rest"
    <3>1. /\ op'[o].pc = "tail" /\ Lists(b, op[o].claimed) /\ op'[o].b = b /\ record' = record
      BY <1>1, <1>3, <2>2 DEF TrackInv, CreateOK
    <3>2. \A t : Late(b, t) => Late(b, t)'
      BY <1>1, LateKept
    <3>3. Lists(b, op[o].claimed)'
      BY <1>1, <3>1, <3>2 DEF Lists
    <3> QED
      BY <3>1, <3>3 DEF CreateOK, ReleaseOK, Releases, Lists, Late
  <2> QED
    BY <1>1, <2>1, <2>2
<1> QED
    BY <1>1, <1>3, <1>4, <1>5, <1>6, <1>7, <1>8, TrackRegistry

LEMMA TrackAbort ==
    ASSUME TypeInv, TypeInv', LockInv, TrackInv, NEW o \in Op,
           TaskPanics(o) \/ CancelCreate(o) \/ KillCreate(o)
    PROVE  TrackInv'
<1>1. /\ Others(o) /\ op[o].kind = "create" /\ op[o].b \in Backup /\ record' = record /\ dir' = dir
      /\ \A c \in Causes : leaked[c] \subseteq leaked'[c]
      /\ op'[o].pc \in {"idle", "orphan"}
    BY PanicStep, CancelStep, KillStep, Labelled
<1>2. PICK b \in Backup : b = op[o].b
    BY <1>1
<1>3. /\ \A c \in Backup : c # b => shadow'[c] = shadow[c]
      /\ \A t \in shadow'[b] : \/ t \in shadow[b] /\ t \notin op[o].reg
                               \/ \E c \in Causes : <<b, t>> \in leaked'[c]
  <2>1. CASE TaskPanics(o)
    <3>1. PICK failed \in SUBSET op[o].reg :
             /\ shadow' = [shadow EXCEPT ![op[o].b] = @ \ (op[o].reg \ failed)]
             /\ \A t \in failed : <<op[o].b, t>> \in leaked'["unfreeze"]
      BY <2>1, PanicStep
    <3>2. /\ shadow'[b] = shadow[b] \ (op[o].reg \ failed)
          /\ \A c \in Backup : c # b => shadow'[c] = shadow[c]
      BY <1>2, <3>1 DEF TypeInv, StoreType
    <3> QED
      BY <1>2, <3>1, <3>2 DEF Causes
  <2>2. CASE CancelCreate(o)
    <3>1. PICK late \in SUBSET Table :
             /\ shadow' = [shadow EXCEPT ![op[o].b] = (@ \ op[o].reg) \cup late]
             /\ \A t \in late : <<op[o].b, t>> \in leaked'["detached"]
      BY <2>2, CancelStep
    <3>2. /\ shadow'[b] = (shadow[b] \ op[o].reg) \cup late
          /\ \A c \in Backup : c # b => shadow'[c] = shadow[c]
      BY <1>2, <3>1 DEF TypeInv, StoreType
    <3> QED
      BY <1>2, <3>1, <3>2 DEF Causes
  <2>3. CASE KillCreate(o)
    <3>1. shadow' = shadow /\ \A t \in op[o].reg : <<b, t>> \in leaked'["kill"]
      BY <1>2, <2>3, KillStep
    <3> QED
      BY <3>1 DEF Causes
  <2> QED
    BY <2>1, <2>2, <2>3
<1>4. Holds(o, b)
  <2>1. ~op[o].cancelled /\ op[o].pc # "idle"
    BY OpType DEF TaskPanics, CancelCreate, KillCreate, At, Shape, Releases
  <2> QED
    BY <1>1, <1>2, <2>1 DEF Holds
<1>5. CreateOK(op[o])' /\ ReleaseOK(op[o])'
    BY <1>1 DEF CreateOK, ReleaseOK, Releases
<1>6. dir'[b] = "none" => record[b].retained = {}
    BY <1>1 DEF TrackInv
<1> QED
    BY <1>1, <1>2, <1>3, <1>4, <1>5, <1>6, TrackRegistry

LEMMA TrackDir ==
    ASSUME TypeInv, TypeInv', LockInv, TrackInv, NEW o \in Op, CreateDir(o)
    PROVE  TrackInv'
<1>1. /\ Others(o) /\ Keeps(o) /\ op'[o].reg = op[o].reg
      /\ op[o].kind = "create" /\ op[o].pc = "reap" /\ op'[o].pc = "freeze"
      /\ op[o].b \in Backup /\ dir[op[o].b] = "none" /\ dir' = [dir EXCEPT ![op[o].b] = "partial"]
      /\ UNCHANGED <<shadow, record, leaked>>
    BY DirStep
<1>2. PICK b \in Backup : b = op[o].b
    BY <1>1
<1>3. record[b].retained = {} /\ dir'[b] = "partial" /\ \A c \in Backup : c # b => dir'[c] = dir[c]
    BY <1>1, <1>2 DEF TrackInv, TypeInv, StoreType
<1>4. \A c \in Backup : \A t : Tracked(c, t) => Tracked(c, t)'
    BY <1>1, TrackedKept DEF Keeps
<1>5. CreateOK(op[o])' /\ ReleaseOK(op[o])'
    BY <1>1, <1>2, <1>3 DEF CreateOK, ReleaseOK, Releases, Keeps
<1>6. \A c \in Backup : Steady(c)
    BY <1>1, SteadySame
<1> QED
    BY <1>1, <1>3, <1>4, <1>5, <1>6, TrackMove DEF TrackInv

LEMMA TrackFrozen ==
    ASSUME TypeInv, TypeInv', LockInv, TrackInv, NEW o \in Op, NEW u \in Table, Freezes(o, u)
    PROVE  TrackInv'
<1>1. /\ Others(o) /\ Keeps(o) /\ op[o].kind = "create" /\ op[o].pc \in {"freeze", "orphan"}
      /\ op'[o].pc = op[o].pc /\ op[o].b \in Backup /\ shadow' = [shadow EXCEPT ![op[o].b] = @ \cup {u}]
      /\ op[o].reg \subseteq op'[o].reg
      /\ u \in op'[o].reg \/ \E c \in Causes : <<op[o].b, u>> \in leaked'[c]
      /\ \A c \in Causes : leaked[c] \subseteq leaked'[c]
      /\ UNCHANGED <<dir, record>>
    BY FrozenStep
<1>2. PICK b \in Backup : b = op[o].b
    BY <1>1
<1>3. shadow'[b] = shadow[b] \cup {u} /\ \A c \in Backup : c # b => shadow'[c] = shadow[c]
    BY <1>1, <1>2 DEF TypeInv, StoreType
<1>4. \A c \in Backup : \A t : Tracked(c, t) => Tracked(c, t)'
    BY <1>1, TrackedKept DEF Keeps
<1>5. Tracked(b, u)'
    BY <1>1, <1>2 DEF Tracked, Keeps
<1>6. CreateOK(op[o])' /\ ReleaseOK(op[o])'
  <2>1. \A t : Late(b, t) => Late(b, t)'
    BY <1>1, LateKept
  <2>2. op[o].pc = "freeze" => \A t \in record[b].retained : Late(b, t)'
    BY <1>2, <2>1 DEF TrackInv, CreateOK
  <2> QED
    BY <1>1, <1>2, <2>2 DEF CreateOK, ReleaseOK, Releases, Keeps, Late
<1>7. \A c \in Backup : Steady(c)
    BY <1>1, SteadySame
<1> QED
    BY <1>1, <1>3, <1>4, <1>5, <1>6, <1>7, TrackMove DEF TrackInv

LEMMA TrackSplit ==
    ASSUME TypeInv, TypeInv', LockInv, TrackInv, NEW o \in Op, SplitFreeze(o)
    PROVE  TrackInv'
<1>1. /\ Others(o) /\ op[o].kind = "create" /\ op[o].pc = "split" /\ op'[o].pc = "rest"
      /\ op'[o].kind = op[o].kind /\ op'[o].b = op[o].b
      /\ op[o].b \in Backup /\ UNCHANGED <<shadow, leaked>>
      /\ \/ record' = record /\ dir' = dir /\ op'[o].reg = op[o].reg /\ op'[o].claimed = {}
         \/ \E kept \in SUBSET op[o].reg :
              /\ kept # {} /\ op'[o].reg = op[o].reg \ kept /\ op'[o].claimed = kept
              /\ record' = [record EXCEPT ![op[o].b] = new(ProcOf[o], kept)]
              /\ dir' = [dir EXCEPT ![op[o].b] = IF @ = "none" THEN "partial" ELSE @]
    BY SplitStep
<1>2. PICK b \in Backup : b = op[o].b
    BY <1>1
<1>3. /\ \A t \in record[b].retained : Late(b, t)
      /\ \A t : (Late(b, t)' <=> Late(b, t)) /\ (Late(b, t) => Tracked(b, t)')
    BY <1>1, <1>2, LateKept DEF TrackInv, CreateOK, Late
<1>4. Holds(o, b)
    BY <1>1, <1>2, CreatorHolds DEF Creating
<1>5. CASE record' = record /\ dir' = dir /\ op'[o].reg = op[o].reg /\ op'[o].claimed = {}
  <2>1. Lists(b, op[o].claimed)'
    BY <1>3, <1>5 DEF Lists
  <2>2. CreateOK(op[o])' /\ ReleaseOK(op[o])'
    BY <1>1, <1>2, <1>3, <1>5, <2>1 DEF CreateOK, ReleaseOK, Releases, Lists, Late
  <2> QED
    BY <1>1, <1>5, <2>2, TrackSame
<1>6. ASSUME NEW kept \in SUBSET op[o].reg, kept # {}, op'[o].reg = op[o].reg \ kept,
             op'[o].claimed = kept,
             record' = [record EXCEPT ![op[o].b] = new(ProcOf[o], kept)],
             dir' = [dir EXCEPT ![op[o].b] = IF @ = "none" THEN "partial" ELSE @]
      PROVE  TrackInv'
  <2>1. dir'[b] # "none" /\ \A c \in Backup : c # b => dir'[c] = dir[c]
    BY <1>2, <1>6 DEF TypeInv, StoreType
  <2>2. record'[b].retained = kept /\ \A c \in Backup : c # b => record'[c] = record[c]
    BY <1>2, <1>6 DEF TypeInv, StoreType, new
  <2>3. \A c \in Backup : \A t : Tracked(c, t) =>
           Tracked(c, t)' \/ (op[o].kind = "create" /\ op[o].b = c /\ t \in op[o].reg)
    BY <1>1, TrackedElse
  <2>4. \A t \in op[o].reg : t \in kept \/ Tracked(b, t)'
    BY <1>1, <1>2, <1>6 DEF Tracked
  <2>9. Lists(b, op[o].claimed)'
    BY <1>6, <2>2 DEF Lists
  <2>5. CreateOK(op[o])' /\ ReleaseOK(op[o])'
    BY <1>1, <1>2, <1>6, <2>2, <2>9 DEF CreateOK, ReleaseOK, Releases, Lists, Late
  <2>6. \A c \in Backup : \A t \in shadow'[c] : t \in record'[c].retained \/ Tracked(c, t)'
    BY <1>1, <1>2, <1>3, <2>2, <2>3, <2>4 DEF TrackInv
  <2>7. \A c \in Backup : c # b =>
           \A t \in shadow'[c] : Tracked(c, t)' \/ (t \in shadow[c] /\ ~Tracked(c, t))
    BY <1>1, <1>2, <2>3
  <2>8. \A c \in Backup : dir'[c] = "none" => record'[c].retained = {}
    BY <2>1, <2>2 DEF TrackInv
  <2>10. \A c \in Backup : c # b => Steady(c)
    BY <1>1, <2>2, SteadySame
  <2> QED
    BY <1>1, <1>4, <2>5, <2>6, <2>7, <2>8, <2>10, TrackMove
<1> QED
    BY <1>1, <1>5, <1>6

LEMMA TrackTail ==
    ASSUME TypeInv, TypeInv', LockInv, TrackInv, NEW o \in Op, CreateTail(o) \/ UploadFails(o)
    PROVE  TrackInv'
<1>1. /\ Others(o) /\ op'[o] = Idle /\ op[o].reg = {} /\ op[o].b \in Backup
      /\ \/ op[o].pc = "tail" /\ dir' = [dir EXCEPT ![op[o].b] = "complete"]
         \/ dir' = dir
      /\ record'[op[o].b].retained = record[op[o].b].retained
      /\ \A b \in Backup : b # op[o].b => record'[b] = record[b]
      /\ \A c \in Causes : leaked[c] \subseteq leaked'[c]
      /\ shadow' = shadow
    BY TailStep
<1>2. PICK b \in Backup : b = op[o].b
    BY <1>1
<1>3. \A c \in Backup : \A t : Tracked(c, t) => Tracked(c, t)'
    BY <1>1, TrackedKept
<1>4. CreateOK(op[o])' /\ ReleaseOK(op[o])'
    BY <1>1, Labelled DEF CreateOK, ReleaseOK, Creating, Releases
<1>5. \A c \in Backup : record'[c].retained = record[c].retained
    BY <1>1
<1>6. CASE dir' = dir
    BY <1>1, <1>4, <1>5, <1>6, TrackSame
<1>7. CASE op[o].pc = "tail" /\ dir' = [dir EXCEPT ![op[o].b] = "complete"]
  <2>1. dir'[b] = "complete" /\ \A c \in Backup : c # b => dir'[c] = dir[c]
    BY <1>2, <1>7 DEF TypeInv, StoreType
  <2>2. \A c \in Backup : Steady(c)
    BY <1>1, <1>5, SteadySame
  <2> QED
    BY <1>1, <1>3, <1>4, <1>5, <2>1, <2>2, TrackMove DEF TrackInv
<1> QED
    BY <1>1, <1>6, <1>7

LEMMA TrackSweep ==
    ASSUME TypeInv, TypeInv', LockInv, TrackInv, NEW o \in Op, CreateSweep(o) \/ clean_shadow(o)
    PROVE  TrackInv'
<1>1. /\ Others(o) /\ op'[o] = Idle /\ op[o].reg = {}
      /\ \A c \in Backup : shadow'[c] = shadow[c] \/ shadow'[c] = {}
      /\ UNCHANGED <<dir, record, leaked>>
    BY SweepStep
<1>2. \A c \in Backup : \A t : Tracked(c, t) => Tracked(c, t)'
    BY <1>1, TrackedKept
<1>3. CreateOK(op[o])' /\ ReleaseOK(op[o])'
    BY <1>1, Labelled DEF CreateOK, ReleaseOK, Creating, Releases
<1>4. \A c \in Backup : Steady(c)
    BY <1>1, SteadySame
<1> QED
    BY <1>1, <1>2, <1>3, <1>4, TrackMove DEF TrackInv

LEMMA TrackUpload ==
    ASSUME TypeInv, TypeInv', LockInv, TrackInv, NEW o \in Op,
           UploadClaim(o) \/ Finishes(o) \/ KillUpload(o)
    PROVE  TrackInv'
<1>1. CASE UploadClaim(o)
  <2>1. /\ Others(o) /\ op'[o].reg = op[o].reg /\ op'[o].kind = op[o].kind /\ op'[o].b = op[o].b
        /\ op'[o].pc = "copy"
        /\ \A c \in Backup : record'[c].retained = record[c].retained
        /\ UNCHANGED <<shadow, dir, leaked>>
    BY <1>1, ClaimStep
  <2>2. CreateOK(op[o])' /\ ReleaseOK(op[o])'
    BY <2>1 DEF CreateOK, ReleaseOK, Creating, Releases
  <2> QED
    BY <2>1, <2>2, TrackSame
<1>2. CASE Finishes(o)
  <2>1. CreateOK(op[o])' /\ ReleaseOK(op[o])'
    BY <1>2 DEF Finishes, CreateOK, ReleaseOK, Creating, Releases
  <2> QED
    BY <1>2, <2>1, TrackSame DEF Finishes, Keeps
<1>3. CASE KillUpload(o)
  <2>1. /\ Others(o) /\ op'[o].reg = op[o].reg /\ op'[o].kind = op[o].kind /\ op'[o].b = op[o].b
        /\ op'[o].cancelled /\ op'[o].pc \in {"copy", "unfreeze", "write", "cleanup"}
        /\ UNCHANGED <<shadow, dir, record, leaked>>
    BY <1>3, KillUploadStep
  <2>3. CreateOK(op[o])' /\ ReleaseOK(op[o])'
    BY <2>1 DEF CreateOK, ReleaseOK
  <2> QED
    BY <2>1, <2>3, TrackSame
<1> QED
    BY <1>1, <1>2, <1>3

LEMMA TrackRemove ==
    ASSUME TypeInv, TypeInv', LockInv, TrackInv, NEW o \in Op,
           (DeleteLocal(o) \/ UploadDone(o)) \/ Drops(o)
    PROVE  TrackInv'
<1>1. PICK b \in Backup : Removes(b)
    BY DeleteStep DEF Drops
<1>2. /\ Others(o) /\ op'[o].pc \in {"idle", "broken"}
      /\ op[o].reg = {} \/ (op'[o].reg = op[o].reg /\ op'[o].kind = op[o].kind /\ op'[o].b = op[o].b)
    BY DeleteStep, Labelled DEF Drops, Keeps
<1>3. /\ shadow' = shadow /\ leaked' = leaked
      /\ \A c \in Backup : /\ record'[c].retained = record[c].retained
                           /\ c # b => dir'[c] = dir[c]
      /\ dir'[b] = dir[b] \/ record[b].retained = {}
  <2>1. CASE UNCHANGED <<dir, record>>
    BY <1>1, <2>1 DEF Removes
  <2>2. CASE /\ ~record[b].some /\ dir' = [dir EXCEPT ![b] = "none"]
             /\ \A c \in Backup : record'[c].retained = record[c].retained
    BY <1>1, <2>2 DEF Removes, TypeInv, StoreType
  <2> QED
    BY <1>1, <2>1, <2>2 DEF Removes
<1>4. \A c \in Backup : \A t : Tracked(c, t) => Tracked(c, t)'
    BY <1>2, <1>3, TrackedKept
<1>5. CreateOK(op[o])' /\ ReleaseOK(op[o])'
    BY <1>2 DEF CreateOK, ReleaseOK, Creating, Releases
<1>6. \A c \in Backup : dir'[c] = "none" => record'[c].retained = {}
    BY <1>3 DEF TrackInv
<1>7. \A c \in Backup : Steady(c)
    BY <1>3, SteadySame
<1>8. \A c \in Backup : \A t \in shadow'[c] : t \in record'[c].retained \/ Tracked(c, t)'
    BY <1>3, <1>4 DEF TrackInv
<1> QED
    BY <1>2, <1>3, <1>4, <1>5, <1>6, <1>7, <1>8, TrackMove

LEMMA TrackCrash ==
    ASSUME TypeInv, TypeInv', TrackInv, NEW p \in Proc, Crash(p)
    PROVE  TrackInv'
<1>1. /\ \A o \in Op : op'[o] = IF ProcOf[o] = p THEN Idle ELSE op[o]
      /\ \A c \in Causes : leaked[c] \subseteq leaked'[c]
      /\ \A o \in Op : op[o].kind = "create" /\ ProcOf[o] = p =>
           \A t \in op[o].reg : <<op[o].b, t>> \in leaked'["crash"]
      /\ \A b \in Backup : /\ shadow[b] \subseteq shadow'[b]
                           /\ \A t \in shadow'[b] \ shadow[b] : <<b, t>> \in leaked'["crash"]
      /\ UNCHANGED <<dir, record>>
    BY CrashStep
<1>2. ASSUME NEW b \in Backup, NEW t, Tracked(b, t)
      PROVE  Tracked(b, t)'
  <2>1. CASE \E c \in Causes : <<b, t>> \in leaked[c]
    BY <1>1, <2>1 DEF Tracked
  <2>2. CASE \E q \in Op : op[q].kind = "create" /\ op[q].b = b /\ t \in op[q].reg
    <3>1. PICK q \in Op : op[q].kind = "create" /\ op[q].b = b /\ t \in op[q].reg
      BY <2>2
    <3>2. CASE ProcOf[q] = p
      BY <1>1, <3>1, <3>2 DEF Tracked, Causes
    <3>3. CASE ProcOf[q] # p
      <4>1. op'[q] = op[q]
        BY <1>1, <3>3
      <4> QED
        BY <3>1, <4>1 DEF Tracked
    <3> QED
      BY <3>2, <3>3
  <2> QED
    BY <1>2, <2>1, <2>2 DEF Tracked
<1>3. \A b \in Backup : \A t \in shadow'[b] : t \in shadow[b] \/ Tracked(b, t)'
    BY <1>1 DEF Tracked, Causes
<1>4. ASSUME NEW o \in Op
      PROVE  CreateOK(op[o])' /\ ReleaseOK(op[o])'
  <2>1. CASE ProcOf[o] = p
    <3>1. op'[o].pc = "idle"
      BY <1>1, <2>1, Labelled
    <3> QED
      BY <3>1 DEF CreateOK, ReleaseOK, Creating, Releases
  <2>2. CASE ProcOf[o] # p
    <3>1. op'[o] = op[o] /\ CreateOK(op[o]) /\ ReleaseOK(op[o])
      BY <1>1, <2>2 DEF TrackInv
    <3>2. \A b \in Backup : Steady(b)
      BY <1>1, SteadySame
    <3>3. \A b \in Backup : \A t \in shadow'[b] : Tracked(b, t)' \/ (t \in shadow[b] /\ ~Tracked(b, t))
      BY <1>2, <1>3
    <3> QED
      BY <3>1, <3>2, <3>3, CreateKept, ReleaseKept
  <2> QED
    BY <2>1, <2>2
<1>5. \A b \in Backup : \A t \in shadow'[b] : t \in record'[b].retained \/ Tracked(b, t)'
    BY <1>1, <1>2, <1>3 DEF TrackInv
<1> QED
    BY <1>1, <1>4, <1>5 DEF TrackInv

LEMMA TrackSteps ==
    ASSUME TypeInv, TypeInv', LockInv, TrackInv, NEW o \in Op, Steps(o)
    PROVE  TrackInv'
<1>1. CASE \E kind \in Kinds, b \in Backup \cup {Global} : Start(o, kind, b)
  <2>1. /\ Others(o) /\ op[o].pc = "idle" /\ op'[o].pc = "begin"
        /\ UNCHANGED <<shadow, dir, record, leaked>>
    BY <1>1, StartStep
  <2>2. op[o].reg = {}
    BY <2>1, OpType DEF Shape
  <2>3. CreateOK(op[o])' /\ ReleaseOK(op[o])'
    BY <2>1 DEF CreateOK, ReleaseOK, Creating, Releases
  <2> QED
    BY <2>1, <2>2, <2>3, TrackSame
<1> QED
    BY <1>1, TrackUnfreeze, TrackWrite, TrackQuiet, TrackDir, TrackFrozen, TrackUndo, TrackSweep,
       TrackSplit, TrackTail, TrackAbort, TrackUpload, TrackRemove DEF Steps

LEMMA TrackNext ==
    ASSUME TypeInv, LockInv, TrackInv, [Next]_vars
    PROVE  TrackInv'
<1>1. CASE Next
  <2>0. TypeInv'
    BY <1>1, NextKinds
  <2>1. CASE \E o \in Op : Steps(o)
    BY <2>0, <2>1, TrackSteps
  <2>2. ASSUME NEW b \in Backup, Expire(b)
        PROVE  TrackInv'
    <3>1. /\ \A c \in Backup : record'[c].retained = record[c].retained
          /\ UNCHANGED <<shadow, dir, op, leaked>>
      BY <2>2, ExpireStep
    <3>2. \A c \in Backup : \A t : Tracked(c, t)' <=> Tracked(c, t)
      BY <3>1 DEF Tracked
    <3>3. \A c \in Backup : Steady(c)
      BY <3>1, SteadySame
    <3>4. \A o \in Op : CreateOK(op[o])' /\ ReleaseOK(op[o])'
      BY <2>0, <3>1, <3>2, <3>3, CreateKept, ReleaseKept DEF TrackInv
    <3> QED
      BY <3>1, <3>2, <3>4 DEF TrackInv
  <2> QED
    BY <1>1, <2>0, <2>1, <2>2, TrackCrash, NextKinds
<1>2. CASE UNCHANGED vars
    BY <1>2 DEF TrackInv, CreateOK, ReleaseOK, Lists, Late, Tracked, vars
<1> QED
    BY <1>1, <1>2

LEMMA TrackInit ==
    ASSUME Init
    PROVE  TrackInv
<1>1. \A o \in Op : op[o].pc = "idle"
    BY Labelled DEF Init
<1>2. \A b \in Backup : record[b].retained = {} /\ shadow[b] = {}
    BY DEF Init, NoRecord
<1> QED
    BY <1>1, <1>2 DEF TrackInv, CreateOK, ReleaseOK, Creating, Releases

(* Whatever fails, is killed or dies, every frozen table is in the record, *)
(* in the registry of a running create, or lost for one of the named       *)
(* causes.                                                                 *)
THEOREM NoneStranded == Spec => []NothingStranded
<1>1. Init => TrackInv
    BY TrackInit
<1>2. (TypeInv /\ LockInv) /\ TrackInv /\ [Next]_vars => TrackInv'
    BY TrackNext
<1>3. TrackInv => NothingStranded
    BY DEF TrackInv, NothingStranded, StrandedOnlyBy, Tracked
<1> QED
    BY <1>1, <1>2, <1>3, Base, PTL DEF Spec

-----------------------------------------------------------------------------
(* What is copied stays frozen *)

(* What another operation's step must leave of what o copies. *)
StillPinned(o, x) ==
    \A b \in Backup : b = op[o].b =>
        /\ op[o].claimed \subseteq record'[b].retained \cap shadow'[b]
        /\ o \notin waived' => record'[b].owner = ProcOf[o]
        /\ op'[x].pc \in Releases => op'[x].rel # b
        /\ op'[x].pc \in Creating => op'[x].b # b

LEMMA PinFacts ==
    ASSUME TypeInv, PinInv, NEW o \in Op, Copying(o)
    PROVE  /\ op[o].b \in Backup /\ op[o].kind = "upload" /\ op[o].pc = "copy"
           /\ record[op[o].b].some /\ record[op[o].b].retained # {}
           /\ op[o].claimed \subseteq record[op[o].b].retained /\ op[o].claimed \subseteq shadow[op[o].b]
           /\ o \notin waived => record[op[o].b].owner = ProcOf[o] /\ ProcOf[o] \in up
           /\ op[o].cancelled => o \notin waived
           /\ ~op[o].cancelled => Holds(o, op[o].b)
           /\ \A q \in Op : op[q].pc \in Releases => op[q].rel # op[o].b
           /\ \A q \in Op : op[q].pc \in Creating => op[q].b # op[o].b
<1>1. /\ op[o].kind = "upload" /\ op[o].pc = "copy" /\ op[o].claimed # {}
      /\ op[o].cancelled => o \notin waived
    BY DEF Copying, At
<1>2. op[o].b \in Backup /\ ProcOf[o] \in up
    BY <1>1, OpType DEF Shape
<1>3. record[op[o].b].some <=> record[op[o].b].retained # {}
    BY <1>2 DEF TypeInv, StoreType
<1>4. /\ op[o].claimed \subseteq record[op[o].b].retained \cap shadow[op[o].b]
      /\ o \notin waived => record[op[o].b].owner = ProcOf[o]
      /\ \A q \in Op : op[q].pc \in Releases => op[q].rel # op[o].b
      /\ \A q \in Op : op[q].pc \in Creating => op[q].b # op[o].b
    BY DEF PinInv, PinOK
<1> QED
    BY <1>1, <1>2, <1>3, <1>4 DEF Holds

LEMMA PinMove ==
    ASSUME TypeInv, PinInv, NEW x \in Op, Others(x), PinOK(x)',
           copied \ {x} \subseteq copied', waived \ {x} \subseteq waived',
           \A o \in Op : o # x /\ Copying(o) /\ Copying(o)' => StillPinned(o, x)
    PROVE  PinInv'
<1>1. SUFFICES ASSUME NEW o \in Op, o # x, Copying(o)'
               PROVE  PinOK(o)'
    BY DEF PinInv, PinOK
<1>2. op'[o] = op[o] /\ Copying(o)
    BY <1>1 DEF Copying, At, Others
<1>3. PICK b \in Backup : b = op[o].b
    BY <1>2, PinFacts
<1>4. /\ op[o].claimed \subseteq record'[b].retained \cap shadow'[b]
      /\ o \notin waived' => record'[b].owner = ProcOf[o]
      /\ op'[x].pc \in Releases => op'[x].rel # b
      /\ op'[x].pc \in Creating => op'[x].b # b
    BY <1>1, <1>2, <1>3 DEF StillPinned
<1>5. \A q \in Op : /\ op'[q].pc \in Releases => op'[q].rel # b
                    /\ op'[q].pc \in Creating => op'[q].b # b
    BY <1>2, <1>3, <1>4, PinFacts DEF Others
<1> QED
    BY <1>2, <1>3, <1>4, <1>5 DEF PinOK

LEMMA PinAway ==
    ASSUME NEW x \in Op, op'[x].pc # "copy"
    PROVE  PinOK(x)'
BY DEF PinOK, Copying, At

(* A step that keeps what is recorded and who owns it, and freezes only:   *)
(* nothing that is pinned changes, unless x begins to release or create.   *)
LEMMA PinSame ==
    ASSUME TypeInv, PinInv, NEW x \in Op, Others(x), op'[x].pc # "copy",
           copied \ {x} \subseteq copied', waived \ {x} \subseteq waived',
           \A b \in Backup :
              \/ /\ record'[b].retained = record[b].retained /\ record'[b].owner = record[b].owner
                 /\ shadow[b] \subseteq shadow'[b]
              \/ op[x].pc \in Releases /\ op[x].rel = b
              \/ op[x].pc \in Creating /\ op[x].b = b
              \/ ~record[b].some,
           op'[x].pc \in Releases => op[x].pc \in Releases /\ op'[x].rel = op[x].rel,
           op'[x].pc \in Creating =>
              op'[x].b = op[x].b /\ (op[x].pc \in Creating \/ ~record[op[x].b].some)
    PROVE  PinInv'
<1>1. ASSUME NEW o \in Op, o # x, Copying(o)
      PROVE  StillPinned(o, x)
  <2>1. PICK b \in Backup : b = op[o].b
    BY <1>1, PinFacts
  <2>2. /\ record[b].some /\ (op[x].pc \in Releases => op[x].rel # b)
        /\ (op[x].pc \in Creating => op[x].b # b)
        /\ op[o].claimed \subseteq record[b].retained /\ op[o].claimed \subseteq shadow[b]
        /\ o \notin waived => record[b].owner = ProcOf[o]
    BY <1>1, <2>1, PinFacts
  <2>3. /\ record'[b].retained = record[b].retained /\ record'[b].owner = record[b].owner
        /\ shadow[b] \subseteq shadow'[b]
    BY <2>2
  <2>4. o \notin waived' => o \notin waived
    BY <1>1
  <2> QED
    BY <2>1, <2>2, <2>3, <2>4 DEF StillPinned
<1> QED
    BY <1>1, PinAway, PinMove

LEMMA PinLets ==
    ASSUME TypeInv, LockInv, TrackInv, PinInv, NEW x \in Op, NEW b \in Backup, Lets(x, b)
    PROVE  PinInv'
<1>1. /\ Others(x) /\ op'[x].pc = "unfreeze" /\ op'[x].rel = b /\ shadow' = shadow
      /\ copied \subseteq copied' /\ waived \subseteq waived'
    BY DEF Lets
<1>2. ASSUME NEW o \in Op, o # x, Copying(o), Copying(o)', op[o].b = b
      PROVE  FALSE
  <2>1. /\ record[b].some /\ (~op[o].cancelled => Holds(o, b)) /\ op'[o] = op[o]
        /\ op[o].cancelled => o \notin waived /\ record[b].owner = ProcOf[o] /\ ProcOf[o] \in up
        /\ o \notin copied' /\ (op[o].cancelled => o \notin waived') /\ o \in Copiers(b)
        /\ (op[x].pc \in Creating => op[x].b # b)
    BY <1>1, <1>2, PinFacts DEF Others, Copying, Copiers, At
  <2>2. CASE op[x].kind = "create" /\ op[x].pc = "reread" /\ op[x].rel = b /\ status_inner(b, FALSE) = "Reapable"
    <3>1. ~op[x].cancelled
      BY <2>2, OpType DEF Shape, Releases
    <3>2. Holds(x, b)
      BY <2>2, <3>1 DEF Holds
    <3>3. op[o].cancelled
      BY <1>2, <2>1, <3>2, Exclusive
    <3>4. record[b].owner \in up
      BY <2>1, <3>3
    <3> QED
      BY <2>1, <2>2, <3>4 DEF status_inner, owner_is_live
  <2>3. CASE op[x].pc = "tail" /\ op[x].b = b
    BY <2>1, <2>3 DEF Creating
  <2>4. CASE copied' = copied \cup Copiers(b)
    BY <2>1, <2>4
  <2>5. CASE /\ \/ op[x].kind = "release" /\ op[x].pc = "begin" /\ op[x].b = b
                \/ op[x].kind = "clean_broken" /\ op[x].pc = "broken"
             /\ waived' = waived \cup Copiers(b)
    <3>1. ~op[x].cancelled
      BY <2>5, OpType DEF Shape, Releases
    <3>2. Holds(x, b)
      BY <2>5, <3>1 DEF Holds
    <3>3. op[o].cancelled
      BY <1>2, <2>1, <3>2, Exclusive
    <3> QED
      BY <2>1, <2>5, <3>3
  <2> QED
    BY <2>2, <2>3, <2>4, <2>5 DEF Lets
<1>3. \A c \in Backup : c # b => record'[c] = record[c]
    BY DEF Lets, TypeInv, StoreType
<1>4. ASSUME NEW o \in Op, o # x, Copying(o), Copying(o)'
      PROVE  StillPinned(o, x)
  <2>1. PICK c \in Backup : c = op[o].b
    BY <1>4, PinFacts
  <2>2. c # b
    BY <1>2, <1>4, <2>1
  <2>3. record'[c] = record[c] /\ op'[x].pc \notin Creating
    BY <1>1, <1>3, <2>2 DEF Creating
  <2> QED
    BY <1>1, <1>4, <2>1, <2>2, <2>3, PinFacts DEF StillPinned
<1> QED
    BY <1>1, <1>4, PinAway, PinMove

LEMMA PinClaim ==
    ASSUME TypeInv, LockInv, TrackInv, PinInv, NEW x \in Op, UploadClaim(x)
    PROVE  PinInv'
<1>1. /\ Others(x) /\ op[x].kind = "upload" /\ op'[x].b = op[x].b /\ op[x].b \in Backup
      /\ op'[x].cancelled = op[x].cancelled /\ op[x].pc = "begin" /\ op'[x].pc = "copy"
      /\ op'[x].claimed = Pinned(op[x].b, ProcOf[x])
      /\ copied' = CopiedBeside(x) /\ waived \ {x} \subseteq waived'
      /\ x \notin waived' => record'[op[x].b].owner = ProcOf[x]
      /\ \A c \in Backup :
           /\ record'[c].retained = record[c].retained
           /\ \/ record'[c].owner = record[c].owner
              \/ /\ c = op[x].b /\ Usable(c, ProcOf[x]) /\ record'[c].owner = ProcOf[x]
      /\ shadow' = shadow
    BY ClaimStep
<1>2. PICK b \in Backup : b = op[x].b
    BY <1>1
<1>3. ~op[x].cancelled
    BY <1>1, OpType DEF Shape, Releases
<1>4. Holds(x, b)
    BY <1>1, <1>2, <1>3 DEF Holds
<1>5. \A q \in Op : q # x => /\ op[q].pc \in Releases /\ op[q].rel = b => op[q].kind = "upload"
                             /\ op[q].pc \in Creating => op[q].b # b
  <2>1. SUFFICES ASSUME NEW q \in Op, q # x
                 PROVE  /\ op[q].pc \in Releases /\ op[q].rel = b => op[q].kind = "upload"
                        /\ op[q].pc \in Creating => op[q].b # b
    OBVIOUS
  <2>2. op[q].pc \in Creating => op[q].b # b
    BY <1>4, <2>1, Exclusive, CreatorHolds
  <2>3. CASE op[q].cancelled
    <3>1. op[q].pc \in Releases => op[q].kind = "upload"
      BY <2>3, OpType DEF Shape, Releases
    <3> QED
      BY <2>2, <3>1
  <2>4. CASE ~op[q].cancelled
    BY <1>4, <2>1, <2>2, <2>4, Exclusive, ReleaserHolds
  <2> QED
    BY <2>3, <2>4
<1>6. PinOK(x)'
  <2>1. SUFFICES ASSUME Copying(x)' PROVE PinOK(x)'
    BY DEF PinOK
  <2>2. Pinned(b, ProcOf[x]) # {}
    BY <1>1, <1>2, <2>1 DEF Copying
  <2>3. Usable(b, ProcOf[x]) /\ op'[x].claimed = record[b].retained \cap shadow[b]
    BY <1>1, <1>2, <2>2 DEF Pinned
  <2>4. /\ x \notin waived' => record'[b].owner = ProcOf[x]
        /\ op'[x].claimed \subseteq record'[b].retained \cap shadow'[b]
    BY <1>1, <1>2, <2>3
  <2>6. \A q \in Op : ~(op[q].kind = "upload" /\ op[q].rel = b)
    BY <1>1, <1>2, <2>1 DEF Copying, CopiedBeside
  <2>5. \A q \in Op : /\ op'[q].pc \in Releases => op'[q].rel # b
                      /\ op'[q].pc \in Creating => op'[q].b # b
    BY <1>1, <1>5, <2>6 DEF Others, Releases, Creating
  <2> QED
    BY <1>1, <1>2, <2>4, <2>5 DEF PinOK
<1>7. ASSUME NEW o \in Op, o # x, Copying(o)
      PROVE  StillPinned(o, x)
  <2>1. PICK c \in Backup : c = op[o].b
    BY <1>7, PinFacts
  <2>2. /\ op[o].claimed \subseteq record[c].retained /\ op[o].claimed \subseteq shadow[c]
        /\ o \notin waived => record[c].owner = ProcOf[o] /\ ProcOf[o] \in up
        /\ op[o].cancelled => o \notin waived
        /\ ~op[o].cancelled => Holds(o, c)
    BY <1>7, <2>1, PinFacts
  <2>3. op'[x].pc \notin Releases /\ op'[x].pc \notin Creating
    BY <1>1 DEF Releases, Creating
  <2>4. o \notin waived' => record'[c].owner = ProcOf[o]
    <3>1. CASE c # b
      BY <1>1, <1>2, <1>7, <2>2, <3>1
    <3>2. CASE c = b
      <4>1. op[o].cancelled
        BY <1>4, <1>7, <2>2, <3>2, Exclusive
      <4>2. record[b].owner = ProcOf[o] /\ ProcOf[o] \in up
        BY <2>2, <3>2, <4>1
      <4>3. Usable(b, ProcOf[x]) => ProcOf[x] = ProcOf[o]
        BY <4>2 DEF Usable, owner_is_live
      <4> QED
        BY <1>1, <1>2, <3>2, <4>2, <4>3
    <3> QED
      BY <3>1, <3>2
  <2> QED
    BY <1>1, <2>1, <2>2, <2>3, <2>4 DEF StillPinned
<1>8. copied \ {x} \subseteq copied' /\ waived \ {x} \subseteq waived'
    BY <1>1 DEF CopiedBeside
<1> QED
    BY <1>1, <1>6, <1>7, <1>8, PinMove

LEMMA PinFails ==
    ASSUME TypeInv, PinInv, NEW x \in Op, CreateTail(x) \/ UploadFails(x)
    PROVE  PinInv'
<1>1. /\ Others(x) /\ op'[x].pc = "idle" /\ shadow' = shadow /\ copied' = copied
      /\ \/ op[x].pc = "tail" /\ waived' = waived
         \/ op[x].pc = "copy" /\ waived' = waived \cup Copiers(op[x].b)
      /\ op[x].b \in Backup
      /\ record'[op[x].b].retained = record[op[x].b].retained
      /\ \A b \in Backup : b # op[x].b => record'[b] = record[b]
    BY TailStep, Labelled
<1>2. ASSUME NEW o \in Op, o # x, Copying(o), Copying(o)'
      PROVE  StillPinned(o, x)
  <2>1. PICK c \in Backup : c = op[o].b
    BY <1>2, PinFacts
  <2>2. /\ op[o].claimed \subseteq record[c].retained /\ op[o].claimed \subseteq shadow[c]
        /\ o \notin waived => record[c].owner = ProcOf[o]
        /\ op[x].pc \in Creating => op[x].b # c
    BY <1>2, <2>1, PinFacts
  <2>3. op'[x].pc \notin Releases /\ op'[x].pc \notin Creating
    BY <1>1 DEF Releases, Creating
  <2>4. record'[c].retained = record[c].retained
    BY <1>1, <2>1
  <2>5. o \notin waived' => record'[c].owner = ProcOf[o]
    <3>1. CASE c # op[x].b
      BY <1>1, <2>2, <3>1
    <3>2. CASE c = op[x].b
      <4>1. waived' = waived \cup Copiers(c)
        BY <1>1, <2>2, <3>2 DEF Creating
      <4>2. o \in Copiers(c)
        BY <1>2, <2>1 DEF Copying, Copiers
      <4> QED
        BY <4>1, <4>2
    <3> QED
      BY <3>1, <3>2
  <2> QED
    BY <1>1, <2>1, <2>2, <2>3, <2>4, <2>5 DEF StillPinned
<1>3. copied \ {x} \subseteq copied' /\ waived \ {x} \subseteq waived' /\ op'[x].pc # "copy"
    BY <1>1
<1> QED
    BY <1>1, <1>2, <1>3, PinAway, PinMove

LEMMA PinKill ==
    ASSUME TypeInv, PinInv, NEW x \in Op, KillUpload(x)
    PROVE  PinInv'
<1>1. /\ Others(x) /\ op[x].kind = "upload" /\ op'[x].kind = "upload" /\ op'[x].b = op[x].b
      /\ op'[x].claimed = op[x].claimed /\ op'[x].pc = op[x].pc /\ ~op[x].cancelled
      /\ op'[x].cancelled /\ op[x].pc \in {"copy", "unfreeze", "write", "cleanup"}
      /\ op'[x].rel = op[x].rel
      /\ UNCHANGED <<copied, waived, shadow, record>>
    BY KillUploadStep DEF KeepsRelease
<1>5. CASE op[x].pc # "copy"
    BY <1>1, <1>5, PinSame DEF Creating
<1>6. SUFFICES ASSUME op[x].pc = "copy" PROVE PinInv'
    BY <1>5
<1>2. op[x].pc = "copy" /\ op'[x].pc \notin Releases \cup Creating
    BY <1>1, <1>6 DEF Releases, Creating
<1>3. PinOK(x)'
  <2>1. SUFFICES ASSUME Copying(x)' PROVE PinOK(x)'
    BY DEF PinOK
  <2>2. Copying(x)
    BY <1>1, <1>2, <2>1 DEF Copying, At
  <2>3. PICK b \in Backup : b = op[x].b
    BY <2>2, PinFacts
  <2>4. \A q \in Op : /\ op'[q].pc \in Releases => op'[q].rel # b
                      /\ op'[q].pc \in Creating => op'[q].b # b
    BY <1>1, <1>2, <2>2, <2>3, PinFacts DEF Others
  <2> QED
    BY <1>1, <2>2, <2>3, <2>4, PinFacts DEF PinOK
<1>4. ASSUME NEW o \in Op, o # x, Copying(o)
      PROVE  StillPinned(o, x)
    BY <1>1, <1>2, <1>4, PinFacts DEF StillPinned
<1> QED
    BY <1>1, <1>3, <1>4, PinMove

LEMMA PinRest ==
    ASSUME TypeInv, LockInv, TrackInv, PinInv, NEW x \in Op,
           \/ \E kind \in Kinds, b \in Backup \cup {Global} : Start(x, kind, b)
           \/ Unfreeze(x) \/ (WriteRecord(x) \/ WriteFails(x)) \/ Idles(x) \/ Paces(x) \/ CreateDir(x)
           \/ (\E t \in Table : Freezes(x, t)) \/ (CreateUndo(x) \/ UnfreezeRest(x))
           \/ (CreateSweep(x) \/ clean_shadow(x)) \/ SplitFreeze(x)
           \/ TaskPanics(x) \/ CancelCreate(x) \/ KillCreate(x) \/ Finishes(x)
           \/ (DeleteLocal(x) \/ UploadDone(x)) \/ Drops(x)
    PROVE  PinInv'
<1>1. CASE \E kind \in Kinds, b \in Backup \cup {Global} : Start(x, kind, b)
  <2>1. Others(x) /\ op'[x].pc = "begin" /\ UNCHANGED <<copied, waived, shadow, record>>
    BY <1>1, StartStep
  <2> QED
    BY <2>1, PinSame DEF Releases, Creating
<1>2. CASE Unfreeze(x)
  <2>1. /\ Others(x) /\ op[x].pc = "unfreeze" /\ op'[x].pc = "write" /\ op'[x].rel = op[x].rel
        /\ \A b \in Backup : b # op[x].rel => shadow'[b] = shadow[b]
    BY <1>2, UnfreezeStep DEF TypeInv, StoreType
  <2>2. UNCHANGED <<copied, waived, record>>
    BY <1>2 DEF Unfreeze, unfreeze_all_checked
  <2> QED
    BY <2>1, <2>2, PinSame DEF Releases, Creating
<1>3. CASE WriteRecord(x) \/ WriteFails(x)
  <2>1. /\ Others(x) /\ op[x].pc = "write" /\ op'[x].pc \in {"reap", "failed", "cleanup", "broken"}
        /\ UNCHANGED <<copied, waived, shadow>>
    BY <1>3, WriteGoes
  <2>2. \A b \in Backup : b # op[x].rel => record'[b] = record[b]
    BY <1>3, WriteStep, WriteFailsStep
  <2> QED
    BY <2>1, <2>2, PinSame DEF Releases, Creating
<1>4. CASE Idles(x)
  <2>1. Others(x) /\ op'[x].pc = "idle" /\ UNCHANGED <<copied, waived, shadow, record>>
    BY <1>4, Labelled DEF Idles, Quiet
  <2> QED
    BY <2>1, PinSame DEF Releases, Creating
<1>5. CASE Paces(x)
  <2>1. /\ Others(x) /\ op'[x].b = op[x].b /\ UNCHANGED <<copied, waived, shadow, record>>
        /\ op'[x].pc \in {"reap", "reread", "freeze", "orphan", "split", "undo", "broken"}
        /\ op'[x].pc \in Creating => op[x].pc = "freeze"
    BY <1>5 DEF Paces, Quiet, Keeps
  <2> QED
    BY <2>1, PinSame DEF Releases, Creating
<1>6. CASE CreateDir(x)
  <2>1. /\ Others(x) /\ op'[x].b = op[x].b /\ op'[x].pc = "freeze" /\ op[x].b \in Backup
        /\ dir[op[x].b] = "none" /\ UNCHANGED <<copied, waived, shadow, record>>
    BY <1>6, DirStep DEF Keeps
  <2>2. ~record[op[x].b].some
    BY <2>1 DEF TrackInv, TypeInv, StoreType
  <2> QED
    BY <2>1, <2>2, PinSame DEF Releases, Creating
<1>7. CASE \E t \in Table : Freezes(x, t)
  <2>1. PICK t \in Table : Freezes(x, t)
    BY <1>7
  <2>2. /\ Others(x) /\ Keeps(x) /\ op[x].pc \in {"freeze", "orphan"} /\ op'[x].pc = op[x].pc
        /\ shadow' = [shadow EXCEPT ![op[x].b] = @ \cup {t}]
        /\ UNCHANGED <<copied, waived, record>>
    BY <2>1, FrozenStep
  <2>3. \A b \in Backup : shadow[b] \subseteq shadow'[b]
    BY <2>2 DEF TypeInv, StoreType
  <2> QED
    BY <2>2, <2>3, PinSame DEF Keeps, Releases, Creating
<1>8. CASE CreateUndo(x) \/ UnfreezeRest(x)
  <2>1. /\ Others(x) /\ op'[x].b = op[x].b /\ op[x].pc \in {"undo", "rest"} /\ op'[x].pc \in {"reap", "tail"}
        /\ \A b \in Backup : b # op[x].b => shadow'[b] = shadow[b] /\ record'[b] = record[b]
        /\ UNCHANGED <<copied, waived>>
    BY <1>8, UndoStep DEF Keeps, TypeInv, StoreType
  <2> QED
    BY <2>1, PinSame DEF Releases, Creating
<1>9. CASE CreateSweep(x) \/ clean_shadow(x)
  <2>1. /\ Others(x) /\ op'[x].pc = "idle"
        /\ \A c \in Backup :
             \/ shadow'[c] = shadow[c]
             \/ ~record[c].some
             \/ lock[c] = NoOp /\ \A q \in Op : op[q].b = c => q \in waived'
        /\ waived \subseteq waived'
        /\ UNCHANGED <<copied, record>>
    BY <1>9, SweepStep, Labelled
  <2>2. ASSUME NEW o \in Op, o # x, Copying(o), Copying(o)'
        PROVE  StillPinned(o, x)
    <3>1. PICK c \in Backup : c = op[o].b
      BY <2>2, PinFacts
    <3>2. /\ record[c].some /\ op[o].kind = "upload" /\ op[o].pc = "copy"
          /\ op[o].claimed \subseteq record[c].retained /\ op[o].claimed \subseteq shadow[c]
          /\ o \notin waived => record[c].owner = ProcOf[o]
      BY <2>2, <3>1, PinFacts
    <3>3. ~(lock[c] = NoOp /\ o \in waived')
      <4>1. CASE op[o].cancelled
        BY <2>1, <2>2, <4>1 DEF Copying, Others
      <4>2. CASE ~op[o].cancelled
        BY <3>1, <3>2, <4>2, FreezeAssumption DEF LockInv, Scope
      <4> QED
        BY <4>1, <4>2
    <3>4. shadow'[c] = shadow[c]
      BY <2>1, <3>1, <3>2, <3>3
    <3>5. op'[x].pc \notin Releases /\ op'[x].pc \notin Creating
      BY <2>1 DEF Releases, Creating
    <3> QED
      BY <2>1, <3>1, <3>2, <3>4, <3>5 DEF StillPinned
  <2> QED
    BY <2>1, <2>2, PinAway, PinMove
<1>10. CASE SplitFreeze(x)
  <2>1. /\ Others(x) /\ op'[x].b = op[x].b /\ op[x].pc = "split" /\ op'[x].pc = "rest"
        /\ \A b \in Backup : b # op[x].b => record'[b] = record[b]
        /\ UNCHANGED <<copied, waived, shadow>>
    BY <1>10, SplitStep DEF TypeInv, StoreType
  <2> QED
    BY <2>1, PinSame DEF Releases, Creating
<1>11. CASE TaskPanics(x) \/ CancelCreate(x)
  <2>1. /\ Others(x) /\ op[x].pc = "freeze" /\ op'[x].pc \in {"orphan", "idle"}
        /\ \A b \in Backup : b # op[x].b => shadow'[b] = shadow[b]
        /\ UNCHANGED <<copied, waived, record>>
    BY <1>11, PanicStep, CancelStep, Labelled DEF TypeInv, StoreType
  <2> QED
    BY <2>1, PinSame DEF Releases, Creating
<1>12. CASE KillCreate(x)
  <2>1. Others(x) /\ op'[x].pc \in {"orphan", "idle"} /\ UNCHANGED <<copied, waived, shadow, record>>
    BY <1>12, KillStep, Labelled
  <2> QED
    BY <2>1, PinSame DEF Releases, Creating
<1>13. CASE Finishes(x)
    BY <1>13, PinSame DEF Finishes, Releases, Creating
<1>14. CASE (DeleteLocal(x) \/ UploadDone(x)) \/ Drops(x)
  <2>1. /\ Others(x) /\ op'[x].pc \in {"idle", "broken"} /\ \E b \in Backup : Removes(b)
    BY <1>14, DeleteStep, Labelled DEF Drops
  <2>2. /\ UNCHANGED <<copied, waived, shadow>>
        /\ \A c \in Backup : record'[c] = record[c] \/ ~record[c].some
    BY <2>1 DEF Removes
  <2> QED
    BY <2>1, <2>2, PinSame DEF Releases, Creating
<1> QED
    BY <1>1, <1>2, <1>3, <1>4, <1>5, <1>6, <1>7, <1>8, <1>9, <1>10, <1>11, <1>12, <1>13, <1>14

LEMMA PinSteps ==
    ASSUME TypeInv, LockInv, TrackInv, PinInv, NEW x \in Op, Steps(x)
    PROVE  PinInv'
BY PinRest, PinLets, PinClaim, PinFails, PinKill DEF Steps

LEMMA PinNext ==
    ASSUME TypeInv, LockInv, TrackInv, PinInv, [Next]_vars
    PROVE  PinInv'
<1>1. CASE Next
  <2>1. CASE \E o \in Op : Steps(o)
    BY <2>1, PinSteps
  <2>2. ASSUME NEW b \in Backup, Expire(b)
        PROVE  PinInv'
    <3>1. /\ \A c \in Backup : record'[c].retained = record[c].retained /\ record'[c].owner = record[c].owner
          /\ UNCHANGED <<copied, waived, shadow, op>>
      BY <2>2, ExpireStep
    <3>2. ASSUME NEW o \in Op, Copying(o)'
          PROVE  PinOK(o)'
      <4>1. Copying(o)
        BY <3>1, <3>2 DEF Copying, At
      <4> QED
        BY <3>1, <4>1, PinFacts DEF PinOK
    <3> QED
      BY <3>2 DEF PinInv, PinOK
  <2>3. ASSUME NEW p \in Proc, Crash(p)
        PROVE  PinInv'
    <3>1. /\ \A o \in Op : op'[o] = IF ProcOf[o] = p THEN Idle ELSE op[o]
          /\ \A b \in Backup : shadow[b] \subseteq shadow'[b]
          /\ UNCHANGED <<copied, waived, record>>
      BY <2>3, CrashStep
    <3>2. ASSUME NEW o \in Op, Copying(o)'
          PROVE  PinOK(o)'
      <4>1. op'[o] = op[o]
        BY <3>1, <3>2, Labelled DEF Copying, At
      <4>2. Copying(o)
        BY <3>1, <3>2, <4>1 DEF Copying, At
      <4>3. PICK b \in Backup : b = op[o].b
        BY <4>2, PinFacts
      <4>4. \A q \in Op : /\ op'[q].pc \in Releases => op'[q].rel # b
                          /\ op'[q].pc \in Creating => op'[q].b # b
        <5>1. Idle.pc \notin Releases /\ Idle.pc \notin Creating
          BY Labelled DEF Releases, Creating
        <5> QED
          BY <3>1, <4>2, <4>3, <5>1, PinFacts
      <4>5. op[o].claimed \subseteq record'[b].retained \cap shadow'[b]
        BY <3>1, <4>2, <4>3, PinFacts
      <4> QED
        BY <3>1, <4>1, <4>2, <4>3, <4>4, <4>5, PinFacts DEF PinOK
    <3> QED
      BY <3>2 DEF PinInv, PinOK
  <2> QED
    BY <1>1, <2>1, <2>2, <2>3, NextKinds
<1>2. CASE UNCHANGED vars
    BY <1>2 DEF PinInv, PinOK, Copying, At, vars
<1> QED
    BY <1>1, <1>2

(* Whatever fails, is killed or dies: what an upload found pinned stays    *)
(* frozen while it copies, until another upload has copied everything or,  *)
(* for a killed one, an operator or another upload has let go.             *)
THEOREM CopiesPinned == Spec => []CopyPinned
<1>1. Init => TrackInv /\ PinInv
  <2>1. Init => \A o \in Op : op[o].kind = "idle"
    BY Labelled DEF Init
  <2> QED
    BY <2>1, TrackInit DEF PinInv, PinOK, Copying, At
<1>2. (TypeInv /\ LockInv) /\ (TrackInv /\ PinInv) /\ [Next]_vars => (TrackInv /\ PinInv)'
    BY TrackNext, PinNext
<1>3. PinInv => CopyPinned
    BY DEF PinInv, PinOK, Copying, CopyPinned
<1> QED
    BY <1>1, <1>2, <1>3, Base, PTL DEF Spec

-----------------------------------------------------------------------------
(* What is recorded is frozen *)

(* A step of o that takes from the shadow only what o alone may know of,   *)
(* or what is gone for a known reason.                                     *)
LEMMA FrozenMove ==
    ASSUME TypeInv, LockInv, FrozenInv, NEW o \in Op, Others(o), GoneKept,
           \A c \in Causes : leaked[c] \subseteq leaked'[c],
           \A b \in Backup : op'[o].b = b => \A t \in op'[o].reg : Pins(b, t)',
           \A b \in Backup :
              \/ Holds(o, b) /\ \A t \in record'[b].retained : Pins(b, t)' \/ Late(b, t)'
              \/ /\ \A t \in shadow[b] : Pins(b, t)'
                 /\ \A t \in record'[b].retained :
                      t \in record[b].retained \/ Pins(b, t)' \/ Late(b, t)',
           op'[o].reg # {} => op'[o].b \in Backup,
           \A b \in Backup : record[b].retained \subseteq Table
    PROVE  FrozenInv'
<1>1. \A b \in Backup : \A t \in Table : (\A u \in shadow[b] : Pins(b, u)') /\ Pins(b, t) => Pins(b, t)'
    BY DEF Pins, GoneKept
<1>2. \A b \in Backup : \A t \in record'[b].retained : Pins(b, t)' \/ Late(b, t)'
  <2>1. \A b, t : Late(b, t) => Late(b, t)'
    BY LateKept
  <2> QED
    BY <1>1, <2>1 DEF FrozenInv
<1>3. ASSUME NEW q \in Op, NEW t \in op'[q].reg
      PROVE  Pins(op[q].b, t)'
  <2>1. CASE q = o
    <3>1. PICK b \in Backup : b = op'[o].b
      BY <1>3, <2>1
    <3>2. Pins(b, t)'
      BY <1>3, <2>1, <3>1
    <3> QED
      BY <2>1, <3>1, <3>2 DEF Pins
  <2>2. CASE q # o
    <3>1. op'[q] = op[q] /\ t \in op[q].reg /\ t \in Table
      BY <1>3, <2>2, OpType DEF Others
    <3>2. op[q].pc \in Creating
      BY <3>1, OpType DEF Shape, Creating
    <3>3. PICK b \in Backup : b = op[q].b
      BY <3>2, CreatorHolds
    <3>4. ~Holds(o, b)
      BY <2>2, <3>2, <3>3, CreatorHolds, Exclusive
    <3>5. Pins(b, t)
      BY <3>1, <3>3 DEF FrozenInv
    <3>6. Pins(b, t)'
      BY <1>1, <3>1, <3>4, <3>5
    <3> QED
      BY <3>1, <3>3, <3>6 DEF Pins
  <2> QED
    BY <2>1, <2>2
<1> QED
    BY <1>2, <1>3 DEF FrozenInv

LEMMA RetainedType ==
    ASSUME TypeInv
    PROVE  /\ \A b \in Backup : record[b].retained \subseteq Table /\ shadow[b] \subseteq Table
           /\ \A o \in Op : op[o].reg \subseteq Table /\ (op[o].reg # {} => op[o].b \in Backup)
           /\ \A o \in Op : op[o].pc \notin Creating => op[o].reg = {}
BY OpType DEF TypeInv, StoreType, Record, Shape, Creating

(* A step that unfreezes nothing and keeps what is recorded. *)
LEMMA FrozenSame ==
    ASSUME TypeInv, LockInv, FrozenInv, NEW o \in Op, Others(o), GoneKept,
           \A c \in Causes : leaked[c] \subseteq leaked'[c],
           op'[o].reg = {} \/ (op'[o].reg \subseteq op[o].reg /\ op'[o].b = op[o].b),
           \A b \in Backup : /\ \A t \in shadow[b] : Pins(b, t)'
                             /\ record'[b].retained = record[b].retained
    PROVE  FrozenInv'
<1>1. \A b \in Backup : op'[o].b = b => \A t \in op'[o].reg : Pins(b, t)'
  <2>1. SUFFICES ASSUME NEW b \in Backup, op'[o].b = b, NEW t \in op'[o].reg PROVE Pins(b, t)'
    OBVIOUS
  <2>2. t \in op[o].reg /\ op[o].b = b /\ t \in Table
    BY <2>1, RetainedType
  <2>3. Pins(b, t)
    BY <2>2 DEF FrozenInv
  <2> QED
    BY <2>2, <2>3 DEF Pins, GoneKept
<1> QED
    BY <1>1, RetainedType, FrozenMove

LEMMA GoneStays ==
    ASSUME gone \subseteq gone'
    PROVE  GoneKept
BY DEF GoneKept

(* Steps that leave the shadow alone. *)
LEMMA FrozenStill ==
    ASSUME TypeInv, LockInv, FrozenInv, NEW o \in Op, Others(o), UNCHANGED <<shadow, gone>>,
           \A c \in Causes : leaked[c] \subseteq leaked'[c],
           op'[o].reg = {} \/ (op'[o].reg \subseteq op[o].reg /\ op'[o].b = op[o].b),
           \A b \in Backup : record'[b].retained = record[b].retained
    PROVE  FrozenInv'
<1>1. \A b \in Backup : \A t \in shadow[b] : Pins(b, t)'
    BY DEF Pins
<1> QED
    BY <1>1, GoneStays, FrozenSame

LEMMA FrozenQuiet ==
    ASSUME TypeInv, LockInv, FrozenInv, NEW o \in Op,
           \/ \E kind \in Kinds, b \in Backup \cup {Global} : Start(o, kind, b)
           \/ WriteFails(o) \/ Idles(o) \/ Paces(o) \/ (\E b \in Backup : Lets(o, b)) \/ CreateDir(o)
           \/ (CreateTail(o) \/ UploadFails(o)) \/ KillCreate(o) \/ UploadClaim(o)
           \/ Finishes(o) \/ KillUpload(o) \/ (DeleteLocal(o) \/ UploadDone(o)) \/ Drops(o)
    PROVE  FrozenInv'
<1>1. CASE \E kind \in Kinds, b \in Backup \cup {Global} : Start(o, kind, b)
    BY <1>1, StartStep, FrozenStill
<1>2. CASE WriteFails(o)
    BY <1>2, WriteGoes, WriteFailsStep, FrozenStill DEF Keeps
<1>3. CASE Idles(o)
    BY <1>3, Labelled, FrozenStill DEF Idles, Quiet
<1>4. CASE Paces(o)
    BY <1>4, FrozenStill DEF Paces, Quiet, Keeps
<1>5. CASE \E b \in Backup : Lets(o, b)
  <2>1. PICK b \in Backup : Lets(o, b)
    BY <1>5
  <2>2. \A c \in Backup : record'[c].retained = record[c].retained
    <3>1. CASE record' = record
      BY <3>1
    <3>2. CASE record' = [record EXCEPT ![b] = adopt(record[b], ProcOf[o])]
      <4> DEFINE r == adopt(record[b], ProcOf[o])
      <4>1. r.retained = record[b].retained
        BY OpType, RecordValues
      <4>2. record'[b] = r /\ \A c \in Backup : c # b => record'[c] = record[c]
        BY <3>2 DEF TypeInv, StoreType
      <4> HIDE DEF r
      <4> QED
        BY <4>1, <4>2
    <3> QED
      BY <2>1, <3>1, <3>2 DEF Lets
  <2> QED
    BY <2>1, <2>2, FrozenStill DEF Lets, Keeps
<1>6. CASE CreateDir(o)
    BY <1>6, DirStep, FrozenStill DEF Keeps
<1>7. CASE CreateTail(o) \/ UploadFails(o)
  <2>1. /\ Others(o) /\ op'[o] = Idle /\ \A c \in Causes : leaked[c] \subseteq leaked'[c]
        /\ \A b \in Backup : record'[b].retained = record[b].retained
        /\ UNCHANGED <<shadow, gone>>
    BY <1>7, TailStep
  <2> QED
    BY <2>1, Labelled, FrozenStill
<1>8. CASE KillCreate(o)
    BY <1>8, KillStep, FrozenStill
<1>9. CASE UploadClaim(o)
    BY <1>9, ClaimStep, FrozenStill
<1>10. CASE Finishes(o)
    BY <1>10, FrozenStill DEF Finishes, Keeps
<1>11. CASE KillUpload(o)
    BY <1>11, KillUploadStep, FrozenStill
<1>12. CASE (DeleteLocal(o) \/ UploadDone(o)) \/ Drops(o)
  <2>1. /\ Others(o) /\ \E b \in Backup : Removes(b)
        /\ op'[o].reg = {} \/ (op'[o].reg \subseteq op[o].reg /\ op'[o].b = op[o].b)
    BY <1>12, DeleteStep, Labelled DEF Drops, Keeps
  <2>2. /\ UNCHANGED <<shadow, gone, leaked>>
        /\ \A c \in Backup : record'[c].retained = record[c].retained
    BY <2>1 DEF Removes
  <2> QED
    BY <2>1, <2>2, FrozenStill
<1> QED
    BY <1>1, <1>2, <1>3, <1>4, <1>5, <1>6, <1>7, <1>8, <1>9, <1>10, <1>11, <1>12

LEMMA FrozenUnfreeze ==
    ASSUME TypeInv, LockInv, FrozenInv, NEW o \in Op, Unfreeze(o)
    PROVE  FrozenInv'
<1>1. /\ Others(o) /\ op'[o].reg = op[o].reg /\ op'[o].b = op[o].b /\ op[o].rel \in Backup
      /\ record' = record /\ leaked' = leaked
    BY UnfreezeStep DEF Keeps, Unfreeze, unfreeze_all_checked
<1>2. PICK failed \in SUBSET op[o].held :
        /\ shadow' = [shadow EXCEPT ![op[o].rel] = @ \ (op[o].held \ failed)]
        /\ gone' = gone \cup ({op[o].rel} \X (op[o].held \ failed))
    BY UnfreezeStep
<1>3. \A b \in Backup : \A t \in shadow[b] : Pins(b, t)'
    BY <1>1, <1>2 DEF Pins, TypeInv, StoreType
<1> QED
    BY <1>1, <1>2, <1>3, GoneStays, FrozenSame

(* A record that is rewritten lists what it listed before, or what a       *)
(* killed upload knows.                                                    *)
LEMMA FrozenWrite ==
    ASSUME TypeInv, LockInv, TrackInv, FrozenInv, NEW o \in Op, WriteRecord(o)
    PROVE  FrozenInv'
<1>1. /\ Others(o) /\ op'[o].reg = op[o].reg /\ op'[o].b = op[o].b /\ op[o].pc = "write"
      /\ op[o].rel \in Backup /\ UNCHANGED <<shadow, gone>>
    BY WriteGoes DEF Keeps
<1>2. PICK b \in Backup : b = op[o].rel
    BY <1>1
<1>3. /\ \A c \in Backup : c # b => record'[c] = record[c]
      /\ record'[b].retained = op[o].failed
      /\ \A c \in Causes : leaked[c] \subseteq leaked'[c]
      /\ op[o].cancelled => \A t \in op[o].failed : Late(b, t)'
    BY <1>2, WriteStep DEF Late
<1>4. \A t \in op[o].failed : t \in record[b].retained \/ Late(b, t)'
  <2>1. CASE op[o].cancelled
    BY <1>3, <2>1
  <2>2. CASE ~op[o].cancelled
    <3>1. op[o].failed \subseteq op[o].held /\ op[o].failed \subseteq Table
      BY OpType DEF Shape
    <3>2. Lists(b, op[o].held)
      BY <1>1, <1>2, <2>2 DEF TrackInv, ReleaseOK, Releases
    <3>3. \A t : Late(b, t) => Late(b, t)'
      BY <1>3, LateKept
    <3> QED
      BY <3>1, <3>2, <3>3 DEF Lists
  <2> QED
    BY <2>1, <2>2
<1>5. op[o].reg = {}
    BY <1>1, RetainedType DEF Creating
<1>6. \A c \in Backup : \A t \in shadow[c] : Pins(c, t)'
    BY <1>1 DEF Pins
<1>7. GoneKept
    BY <1>1, GoneStays
<1>8. \A c \in Backup : \A t \in record'[c].retained :
         t \in record[c].retained \/ Pins(c, t)' \/ Late(c, t)'
    BY <1>3, <1>4
<1> QED
    BY <1>1, <1>3, <1>5, <1>6, <1>7, <1>8, RetainedType, FrozenMove

LEMMA FrozenFreezes ==
    ASSUME TypeInv, LockInv, FrozenInv, NEW o \in Op, NEW u \in Table, Freezes(o, u)
    PROVE  FrozenInv'
<1>1. /\ Others(o) /\ op'[o].b = op[o].b /\ op[o].b \in Backup
      /\ shadow' = [shadow EXCEPT ![op[o].b] = @ \cup {u}]
      /\ op'[o].reg \subseteq op[o].reg \cup {u}
      /\ \A c \in Causes : leaked[c] \subseteq leaked'[c]
      /\ GoneKept /\ record' = record
    BY FrozenStep DEF Keeps
<1>2. PICK b \in Backup : b = op[o].b
    BY <1>1
<1>3. u \in shadow'[b] /\ \A c \in Backup : shadow[c] \subseteq shadow'[c]
    BY <1>1, <1>2 DEF TypeInv, StoreType
<1>4. \A c \in Backup : \A t \in shadow[c] : Pins(c, t)'
    BY <1>3 DEF Pins
<1>5. \A t \in op'[o].reg : Pins(b, t)'
  <2>1. SUFFICES ASSUME NEW t \in op'[o].reg PROVE Pins(b, t)'
    OBVIOUS
  <2>2. CASE t = u
    BY <1>3, <2>2 DEF Pins
  <2>3. CASE t # u
    <3>1. t \in op[o].reg /\ t \in Table
      BY <1>1, <2>1, <2>3, RetainedType
    <3>2. Pins(b, t)
      BY <1>2, <3>1 DEF FrozenInv
    <3> QED
      BY <1>1, <1>3, <3>1, <3>2 DEF Pins, GoneKept
  <2> QED
    BY <2>2, <2>3
<1> QED
    BY <1>1, <1>2, <1>4, <1>5, RetainedType, FrozenMove

(* What create unfreezes or abandons of its registry is not recorded: or a *)
(* killed upload recorded it late.                                         *)
LEMMA FrozenRegistry ==
    ASSUME TypeInv, LockInv, TrackInv, FrozenInv, NEW o \in Op,
           (CreateUndo(o) \/ UnfreezeRest(o)) \/ TaskPanics(o) \/ CancelCreate(o)
    PROVE  FrozenInv'
<1>1. /\ Others(o) /\ op[o].pc \in {"undo", "rest", "freeze"} /\ op'[o].reg = {} /\ op[o].b \in Backup
      /\ \A c \in Causes : leaked[c] \subseteq leaked'[c]
      /\ \A c \in Backup : c # op[o].b => record'[c] = record[c]
      /\ record'[op[o].b].retained \subseteq record[op[o].b].retained
      /\ op[o].pc = "undo" => record'[op[o].b].retained = {}
      /\ GoneKept
  <2>1. CASE CreateUndo(o) \/ UnfreezeRest(o)
    <3>1. gone' = gone
      BY <2>1, UndoStep
    <3>2. NoRecord.retained = {}
      BY DEF NoRecord
    <3> QED
      BY <2>1, <3>1, <3>2, UndoStep, GoneStays
  <2>2. CASE TaskPanics(o)
    BY <2>2, PanicStep, GoneStays
  <2>3. CASE CancelCreate(o)
    BY <2>3, CancelStep, Labelled
  <2> QED
    BY <2>1, <2>2, <2>3
<1>2. PICK b \in Backup : b = op[o].b
    BY <1>1
<1>3. /\ \A c \in Backup : c # b => shadow'[c] = shadow[c]
      /\ \A t \in shadow[b] : t \in shadow'[b] \/ t \in op[o].reg
  <2>1. CASE (CreateUndo(o) \/ UnfreezeRest(o)) \/ TaskPanics(o)
    <3>1. PICK failed \in SUBSET op[o].reg :
            shadow' = [shadow EXCEPT ![op[o].b] = @ \ (op[o].reg \ failed)]
      BY <2>1, UndoStep, PanicStep
    <3> QED
      BY <1>2, <3>1 DEF TypeInv, StoreType
  <2>2. CASE CancelCreate(o)
    <3>1. PICK late \in SUBSET Table :
            shadow' = [shadow EXCEPT ![op[o].b] = (@ \ op[o].reg) \cup late]
      BY <2>2, CancelStep
    <3> QED
      BY <1>2, <3>1 DEF TypeInv, StoreType
  <2> QED
    BY <2>1, <2>2
<1>4. Holds(o, b)
    BY <1>1, <1>2, CreatorHolds DEF Creating
<1>5. ASSUME NEW t \in record'[b].retained
      PROVE  Pins(b, t)' \/ Late(b, t)'
  <2>1. t \in record[b].retained /\ t \in Table /\ op[o].pc # "undo"
    BY <1>1, <1>2, <1>5, RetainedType
  <2>2. \A s : Late(b, s) => Late(b, s)'
    BY <1>1, LateKept
  <2>3. t \in op[o].reg => Late(b, t)
    BY <1>1, <1>2, <2>1 DEF TrackInv, CreateOK
  <2>4. Pins(b, t) \/ Late(b, t)
    BY <2>1 DEF FrozenInv
  <2> QED
    BY <1>1, <1>3, <2>1, <2>2, <2>3, <2>4 DEF Pins, GoneKept
<1>6. \A c \in Backup : c # b => \A t \in shadow[c] : Pins(c, t)'
    BY <1>3 DEF Pins
<1> QED
    BY <1>1, <1>2, <1>4, <1>5, <1>6, RetainedType, FrozenMove

LEMMA FrozenSweep ==
    ASSUME TypeInv, LockInv, FrozenInv, NEW o \in Op, CreateSweep(o) \/ clean_shadow(o)
    PROVE  FrozenInv'
<1>1. /\ Others(o) /\ op'[o] = Idle
      /\ \/ op[o].kind = "create" /\ op[o].pc = "reap"
         \/ op[o].kind = "clean" /\ op[o].pc = "begin"
      /\ \A c \in Backup :
           \/ shadow'[c] = shadow[c]
           \/ /\ ~record[c].some
              /\ (op[o].kind = "create" /\ op[o].b = c) \/ op[o].kind = "clean"
           \/ \A t \in Table : <<c, t>> \in gone'
      /\ gone \subseteq gone' /\ record' = record /\ leaked' = leaked
    BY SweepStep
<1>2. op'[o].reg = {} /\ ~op[o].cancelled
    BY <1>1, OpType, Labelled DEF Shape, Releases
<1>3. GoneKept
    BY <1>1, GoneStays
<1>4. ASSUME NEW c \in Backup
      PROVE  \/ Holds(o, c) /\ \A t \in record'[c].retained : Pins(c, t)' \/ Late(c, t)'
             \/ /\ \A t \in shadow[c] : Pins(c, t)'
                /\ \A t \in record'[c].retained :
                     t \in record[c].retained \/ Pins(c, t)' \/ Late(c, t)'
  <2>1. CASE shadow'[c] = shadow[c]
    BY <1>1, <2>1 DEF Pins
  <2>2. CASE \A t \in Table : <<c, t>> \in gone'
    BY <1>1, <2>2, RetainedType DEF Pins
  <2>3. CASE /\ ~record[c].some
             /\ (op[o].kind = "create" /\ op[o].b = c) \/ op[o].kind = "clean"
    <3>1. record'[c].retained = {}
      BY <1>1, <2>3 DEF TypeInv, StoreType
    <3>2. Holds(o, c)
      BY <1>1, <1>2, <2>3 DEF Holds
    <3> QED
      BY <3>1, <3>2
  <2> QED
    BY <1>1, <2>1, <2>2, <2>3
<1> QED
    BY <1>1, <1>2, <1>3, <1>4, RetainedType, FrozenMove

LEMMA FrozenSplit ==
    ASSUME TypeInv, LockInv, FrozenInv, NEW o \in Op, SplitFreeze(o)
    PROVE  FrozenInv'
<1>1. /\ Others(o) /\ op'[o].b = op[o].b /\ op[o].b \in Backup /\ op'[o].reg \subseteq op[o].reg
      /\ UNCHANGED <<shadow, gone, leaked>>
      /\ \/ record' = record
         \/ \E kept \in SUBSET op[o].reg :
              record' = [record EXCEPT ![op[o].b] = new(ProcOf[o], kept)]
    BY SplitStep
<1>2. PICK b \in Backup : b = op[o].b
    BY <1>1
<1>3. /\ \A c \in Backup : c # b => record'[c] = record[c]
      /\ \A t \in record'[b].retained : t \in record[b].retained \/ t \in op[o].reg
  <2>1. CASE record' = record
    BY <2>1
  <2>2. ASSUME NEW kept \in SUBSET op[o].reg,
               record' = [record EXCEPT ![b] = new(ProcOf[o], kept)]
        PROVE  /\ \A c \in Backup : c # b => record'[c] = record[c]
               /\ record'[b].retained = kept
    <3>1. record'[b] = new(ProcOf[o], kept) /\ \A c \in Backup : c # b => record'[c] = record[c]
      BY <2>2 DEF TypeInv, StoreType
    <3> QED
      BY <3>1 DEF new
  <2> QED
    BY <1>1, <1>2, <2>1, <2>2
<1>4. \A c \in Backup : \A t : Pins(c, t) => Pins(c, t)'
    BY <1>1 DEF Pins
<1>5. \A t \in op[o].reg : Pins(b, t)'
    BY <1>2, <1>4 DEF FrozenInv
<1>6. \A c \in Backup : \A t \in shadow[c] : Pins(c, t)'
    BY <1>1 DEF Pins
<1> QED
    BY <1>1, <1>2, <1>3, <1>5, <1>6, GoneStays, RetainedType, FrozenMove

LEMMA FrozenSteps ==
    ASSUME TypeInv, LockInv, TrackInv, FrozenInv, NEW o \in Op, Steps(o)
    PROVE  FrozenInv'
BY FrozenQuiet, FrozenUnfreeze, FrozenWrite, FrozenFreezes, FrozenRegistry, FrozenSweep,
   FrozenSplit DEF Steps

LEMMA FrozenNext ==
    ASSUME TypeInv, LockInv, TrackInv, FrozenInv, [Next]_vars
    PROVE  FrozenInv'
<1>1. CASE Next
  <2>1. CASE \E o \in Op : Steps(o)
    BY <2>1, FrozenSteps
  <2>2. ASSUME NEW b \in Backup, Expire(b)
        PROVE  FrozenInv'
    <3>1. /\ \A c \in Backup : record'[c].retained = record[c].retained
          /\ UNCHANGED <<shadow, gone, op, leaked>>
      BY <2>2, ExpireStep
    <3> QED
      BY <3>1 DEF FrozenInv, Pins, Late
  <2>3. ASSUME NEW p \in Proc, Crash(p)
        PROVE  FrozenInv'
    <3>1. /\ \A o \in Op : op'[o] = IF ProcOf[o] = p THEN Idle ELSE op[o]
          /\ \A b \in Backup : shadow[b] \subseteq shadow'[b]
          /\ \A c \in Causes : leaked[c] \subseteq leaked'[c]
          /\ GoneKept /\ record' = record
      BY <2>3, CrashStep
    <3>2. \A b \in Backup, t \in Table : Pins(b, t) => Pins(b, t)'
      BY <3>1 DEF Pins, GoneKept
    <3>3. \A b \in Backup : \A t \in record'[b].retained : Pins(b, t)' \/ Late(b, t)'
      <4>1. \A b, t : Late(b, t) => Late(b, t)'
        BY <3>1, LateKept
      <4> QED
        BY <3>1, <3>2, <4>1, RetainedType DEF FrozenInv
    <3>4. ASSUME NEW o \in Op, NEW t \in op'[o].reg
          PROVE  Pins(op[o].b, t)'
      <4>1. op'[o] = op[o] /\ t \in op[o].reg
        BY <3>1, <3>4, Labelled
      <4>2. PICK b \in Backup : b = op[o].b
        BY <4>1, RetainedType
      <4>3. Pins(b, t)'
        BY <3>2, <4>1, <4>2, RetainedType DEF FrozenInv
      <4> QED
        BY <4>1, <4>2, <4>3 DEF Pins
    <3> QED
      BY <3>3, <3>4 DEF FrozenInv
  <2> QED
    BY <1>1, <2>1, <2>2, <2>3, NextKinds
<1>2. CASE UNCHANGED vars
    BY <1>2 DEF FrozenInv, Pins, Late, vars
<1> QED
    BY <1>1, <1>2

(* Over every failing write, kill and crash: what a record lists is        *)
(* frozen, unless a release or a clean without a name has taken it, or a   *)
(* killed upload wrote the record late.                                    *)
THEOREM RecordedFrozen == Spec => []RecordedStaysFrozen
<1>1. Init => TrackInv /\ FrozenInv
  <2>1. Init => /\ \A o \in Op : op[o].reg = {}
                /\ \A b \in Backup : record[b].retained = {}
    BY Labelled DEF Init, NoRecord
  <2> QED
    BY <2>1, TrackInit DEF FrozenInv
<1>2. (TypeInv /\ LockInv) /\ (TrackInv /\ FrozenInv) /\ [Next]_vars => (TrackInv /\ FrozenInv)'
    BY TrackNext, FrozenNext
<1>3. FrozenInv => RecordedStaysFrozen
    BY DEF FrozenInv, Pins, Late, RecordedStaysFrozen
<1> QED
    BY <1>1, <1>2, <1>3, Base, PTL DEF Spec

=============================================================================
