------------------------- MODULE BackupStoreProofs --------------------------
(***************************************************************************)
(* Proofs about BackupStore, for any number of backups, parts and commands *)
(* unless a theorem says otherwise: types, what a published manifest       *)
(* holds, what clean_broken spares, and that the kept backups stay         *)
(* restorable.                                                             *)
(***************************************************************************)
EXTENDS BackupStore, FiniteSetTheorems, TLAPS

Uploading == {"parts", "publish", "save"}
Retaining == {"retain", "fetch", "delete", "delete_manifest"}
Cleaning  == {"clean_fetch", "clean_delete"}

(* A cleaner excludes every other lock; an upload that has not been killed *)
(* and the retention after it hold the lock of their backup.               *)
LockInv ==
    /\ \A o \in Op : op[o].pc \in Cleaning => op[o].lock = Global
    /\ \A o \in Op : op[o].pc \in Uploading =>
          op[o].bk \in Backup /\ (op[o].killed \/ op[o].lock \in Backup)
    /\ \A o \in Op : op[o].pc \in Retaining => op[o].lock \in Backup /\ Keep # 0
    /\ \A o, q \in Op : op[o].lock = Global /\ o # q => op[q].lock = NoLock
    /\ "kill" \notin commands => \A o \in Op : ~op[o].killed

-----------------------------------------------------------------------------
(* What a manifest holds on its way to S3, without --resume and without a  *)
(* diff at creation: a part is to be uploaded or carries a key.            *)
Fresh       == commands \cap {"resume", "create_diff"} = {}
Complete(m) == \A e \in m : e.key # NoKey
Prepared(m) == \A e \in m : e.source = Own \/ e.key # NoKey

(* Each part of the manifest that is this run's to upload is waiting or    *)
(* done, unless the run is bound to end without publishing.                *)
Accounted(r) ==
    r.failed \/ r.killed \/ \A e \in r.mem : e.source = Own => e.part \in r.pend \cup r.done

PublishOK(r) ==
    /\ r.pc = "parts" => Prepared(r.mem) /\ Accounted(r)
    /\ r.pc \in {"publish", "save"} => Complete(r.mem)

PublishInv == Fresh =>
    /\ \A b \in Created : Prepared(local[b])
    /\ \A b \in Valid : Complete(remote[b])
    /\ \A o \in Op : PublishOK(op[o])

-----------------------------------------------------------------------------
(* What clean_broken relies on.  An upload that has written keeps its      *)
(* prefix young until it has published.                                    *)
YoungOK(r) == r.pc \in {"parts", "publish"} /\ r.done # {} => r.bk \in young
YoungInv   == \A o \in Op : YoungOK(op[o])

(* Without resumes and diffs a manifest names keys of its own prefix only, *)
(* and one about to be published only keys this run has uploaded.          *)
Plain      == commands \cap {"resume", "create_diff", "upload_diff"} = {}
OwnKeys(b, m) == \A e \in m : e.source = Own /\ (e.key # NoKey => e.key[1] = b)

PlainOK(r) ==
    /\ r.pc \in Uploading => OwnKeys(r.bk, r.mem)
    /\ r.pc = "parts" => Accounted(r)
    /\ r.pc = "publish" => \A e \in r.mem : e.part \in r.done

PlainInv == Plain =>
    /\ \A b \in Created : OwnKeys(b, local[b])
    /\ \A b \in Valid : OwnKeys(b, remote[b])
    /\ \A o \in Op : PlainOK(op[o])

(* No upload runs on detached from its caller, or one that does publishes  *)
(* nothing but what it has just written, or there is no second command.    *)
OneCommand == \A o, q \in Op : o = q
Attached   == "kill" \notin commands \/ Plain \/ OneCommand

(* The keys of each valid backup are protected, will be, or are of a       *)
(* prefix written to since the cleaner listed the backups.                 *)
Covered(o) ==
    \A b \in Valid :
        \/ b \in op[o].fetch
        \/ KeysOf(remote[b]) \subseteq op[o].prot
        \/ \A k \in KeysOf(remote[b]) : k[1] \in young

SparesUploads(o) ==
    \A q \in Op : op[q].pc = "publish" =>
        op[o].keys \cap (KeysOf(op[q].mem) \cup {<<op[q].bk, p>> : p \in op[q].done}) = {}

SparesBackups(o) == \A b \in Valid : op[o].keys \cap KeysOf(remote[b]) = {}

CleanOK(o) ==
    /\ op[o].pc \in Cleaning => Covered(o)
    /\ op[o].pc = "clean_delete" => SparesUploads(o) /\ SparesBackups(o)

CleanInv == misreads = 0 /\ Attached => \A o \in Op : CleanOK(o)

-----------------------------------------------------------------------------
(* Restorability: one command at a time, backups uploaded in order.        *)
InOrder ==
    /\ "in_order" \in commands
    /\ commands \cap {"resume", "create_diff", "delete_remote"} = {}
    /\ misreads = 0
    /\ OneCommand

(* A key that a kept backup references. *)
Safe(k) == \E c \in Kept : k \in KeysOf(remote[c])

(* Published backups are local ones, the data of the kept ones is there    *)
(* and under listed backups, and what a backup still to be uploaded        *)
(* carries over is of a kept one.                                          *)
KeptInv ==
    \A b \in Kept : \A e \in remote[b] : e.key \in objects /\ e.key[1] \in Valid

StoreInv ==
    /\ Valid \subseteq Created
    /\ KeptInv
    /\ \A b \in Newest(Created) \ Valid : \A e \in local[b] : e.source = Own \/ Safe(e.key)

(* An upload is of the newest backup; retention follows its publication.   *)
OrderOK(r) ==
    /\ r.pc \in {"parts", "publish"} => r.bk \in Newest(Created) \ Valid
    /\ r.pc = "save" => r.bk \in Newest(Created) \cap Valid
    /\ r.pc \in Retaining => Newest(Created) \subseteq Valid

(* An upload publishes keys it has written or that a kept backup holds.    *)
CarryOK(r) ==
    /\ r.pc = "parts" =>
          /\ \A p \in r.done : <<r.bk, p>> \in objects
          /\ \A e \in r.mem : e.source = Own \/ Safe(e.key)
    /\ r.pc = "publish" =>
          \A e \in r.mem : e.key \in objects /\ (e.key[1] = r.bk \/ e.key[1] \in Valid)

(* Retention keeps off the kept backups and all that they use; clean_broken *)
(* keeps off the manifests.                                                *)
RetainOK(r) ==
    /\ r.pc \in {"fetch", "delete", "delete_manifest"} =>
          /\ r.todo \cap Kept = {}
          /\ \A b \in Kept : b \in r.fetch \/ KeysOf(remote[b]) \subseteq r.prot
    /\ r.pc \in {"delete", "delete_manifest"} =>
          /\ r.bk \in Backup \ Kept
          /\ \A k \in r.keys : k[1] = r.bk
          /\ \A b \in Kept : \A k \in KeysOf(remote[b]) : k[1] # r.bk
    /\ r.pc \in Cleaning => r.todo \cap Valid = {} /\ ~r.man

CommandOK(r) == OrderOK(r) /\ CarryOK(r) /\ RetainOK(r)

RestoreInv == InOrder => StoreInv /\ \A o \in Op : CommandOK(op[o])

-----------------------------------------------------------------------------
(* Operators and records *)

LEMMA BackupFacts ==
    /\ Backup \subseteq Nat \ {0} /\ NoLock \notin Backup \cup {Global} /\ Global \notin Backup
    /\ IsFiniteSet(Backup)
<1>1. IsFiniteSet(1..MaxBackup)
    BY FS_Interval, StoreAssumption
<1> QED
    BY <1>1, StoreAssumption DEF Backup, NoLock, Global

(* The sets retention and the listings count are finite. *)
LEMMA FiniteBackups ==
    ASSUME NEW S, S \subseteq Backup
    PROVE  IsFiniteSet(S) /\ Cardinality(S) \in Nat
BY BackupFacts, FS_Subset, FS_CardinalityType

(* A listing that has misread nothing has missed nothing. *)
LEMMA NothingMissed ==
    ASSUME TypeOK, NEW miss, Misread(miss)
    PROVE  /\ misreads' \in 0..MaxMisreads /\ miss \subseteq Valid
           /\ misreads' = 0 => misreads = 0 /\ miss = {}
<1>1. miss \subseteq Backup
    BY DEF Misread, Valid
<1>2. IsFiniteSet(miss) /\ Cardinality(miss) \in Nat
    BY <1>1, FiniteBackups
<1>3. Cardinality(miss) = 0 <=> miss = {}
    BY <1>2, FS_EmptySet
<1> QED
    BY <1>2, <1>3, StoreAssumption DEF Misread, TypeOK

(* A diff yields a manifest, and only carries what the base holds. *)
LEMMA DiffEntries ==
    ASSUME NEW m \in SUBSET Entry, NEW base \in SUBSET Entry, NEW c \in Backup,
           NEW e \in diff_parts(m, c, base)
    PROVE  /\ e \in Entry
           /\ e \in m \/ \E f \in base : e.key = f.key /\ e.source = c /\ e.part = f.part
<1>1. PICK d \in m : e = IF \E f \in base : f.part = d.part
                        THEN [part |-> d.part, source |-> c,
                              key |-> (CHOOSE f \in base : f.part = d.part).key]
                        ELSE d
    BY DEF diff_parts
<1>2. CASE ~ \E f \in base : f.part = d.part
    BY <1>1, <1>2
<1>3. CASE \E f \in base : f.part = d.part
  <2> DEFINE g == CHOOSE f \in base : f.part = d.part
  <2>1. g \in base /\ g.part = d.part
    BY <1>3
  <2>2. e = [part |-> d.part, source |-> c, key |-> g.key]
    BY <1>1, <1>3
  <2> HIDE DEF g
  <2>3. d \in Entry /\ g \in Entry
    BY <2>1
  <2> QED
    BY <2>1, <2>2, <2>3 DEF Entry
<1> QED
    BY <1>2, <1>3

(* Merging the uploaded keys yields a manifest, entry by entry. *)
LEMMA MergedEntries ==
    ASSUME NEW r \in OpState, r.bk \in Backup, NEW e \in Merged(r)
    PROVE  /\ e \in Entry
           /\ \/ e \in r.mem /\ e.part \notin r.done
              \/ e.part \in r.done /\ e.source = Own /\ e.key = <<r.bk, e.part>>
<1>1. PICK d \in r.mem : e = IF d.part \in r.done
                            THEN [d EXCEPT !.source = Own, !.key = <<r.bk, d.part>>] ELSE d
    BY DEF Merged
<1>2. d \in Entry
    BY DEF OpState
<1>3. CASE d.part \in r.done
  <2>1. e.part = d.part /\ e.source = Own /\ e.key = <<r.bk, d.part>> /\ e \in Entry
    BY <1>1, <1>2, <1>3 DEF Entry, Key
  <2> QED
    BY <1>3, <2>1
<1>4. CASE d.part \notin r.done
    BY <1>1, <1>2, <1>4
<1> QED
    BY <1>3, <1>4

LEMMA BlankType == Blank \in OpState
BY BackupFacts DEF Blank, OpState, Labels, Global

(* A command that takes a step changes its own record only. *)
LEMMA SetEffect ==
    ASSUME op \in [Op -> OpState], NEW o \in Op, NEW r \in OpState, Set(o, r)
    PROVE  /\ op' \in [Op -> OpState] /\ op'[o] = r
           /\ \A q \in Op : q # o => op'[q] = op[q]
BY DEF Set

-----------------------------------------------------------------------------
(* What a command becomes in each of its steps. *)

Becomes(o, n) ==
    /\ n \in OpState /\ op' \in [Op -> OpState] /\ op'[o] = n
    /\ \A q \in Op : q # o => op'[q] = op[q]

LEMMA BecomesIt ==
    ASSUME NEW o \in Op, NEW n, Becomes(o, n)
    PROVE  /\ op'[o] = n /\ Becomes(o, op'[o]) /\ op'[o] \in OpState
           /\ \A q \in Op : q # o => op'[q] = op[q]
BY DEF Becomes

LEMMA SetBecomes ==
    ASSUME TypeOK, NEW o \in Op, NEW n \in OpState, Set(o, n)
    PROVE  Becomes(o, n)
BY SetEffect DEF TypeOK, Becomes

LEMMA BlankBecomes ==
    ASSUME TypeOK, NEW o \in Op, Set(o, Blank)
    PROVE  Becomes(o, Blank)
BY SetBecomes, BlankType

(* The manifest an upload starts from. *)
Loaded(b, base) ==
    IF base = Own THEN local[b] ELSE diff_parts(local[b], base, remote[base])

Started(b, base, resume) ==
    LET m    == Loaded(b, base)
        keys == ResumedKeys(b, base, resume)
    IN  [Blank EXCEPT !.pc = "parts", !.bk = b, !.lock = b, !.mem = m,
                      !.pend = WorkList(b, m, keys),
                      !.completed = keys, !.resume = resume, !.base = base]

LEMMA LoadedType ==
    ASSUME TypeOK, NEW b \in Created, NEW base \in Valid \cup {Own}
    PROVE  Loaded(b, base) \in SUBSET Entry
<1>1. local[b] \in SUBSET Entry /\ (base # Own => base \in Backup /\ remote[base] \in SUBSET Entry)
    BY DEF TypeOK, Valid
<1> QED
    BY <1>1, DiffEntries DEF Loaded

LEMMA UploadStartBecomes ==
    ASSUME TypeOK, NEW o \in Op, NEW b \in Backup, NEW base \in Backup \cup {Own},
           NEW resume \in BOOLEAN, UploadStart(o, b, base, resume)
    PROVE  /\ Becomes(o, Started(b, base, resume))
           /\ Loaded(b, base) \in SUBSET Entry
           /\ local' = [local EXCEPT ![b] = Loaded(b, base)]
<1> DEFINE m == Loaded(b, base)
           keys == ResumedKeys(b, base, resume)
           n == Started(b, base, resume)
<1>1. Set(o, n) /\ local' = [local EXCEPT ![b] = m]
    BY DEF UploadStart, Started, Loaded
<1>2. b \in Created /\ base \in Valid \cup {Own}
    BY DEF UploadStart
<1>3. m \in SUBSET Entry
    BY <1>2, LoadedType
<1>4. keys \in SUBSET Key
    BY DEF ResumedKeys, TypeOK
<1>5. n = [Blank EXCEPT !.pc = "parts", !.bk = b, !.lock = b, !.mem = m,
                        !.pend = WorkList(b, m, keys),
                        !.completed = keys, !.resume = resume, !.base = base]
    BY DEF Started
<1> HIDE DEF m, keys, n
<1>6. WorkList(b, m, keys) \in SUBSET Part
    BY <1>3 DEF WorkList, Entry
<1>7. n \in OpState
    BY <1>3, <1>4, <1>5, <1>6, BlankType DEF Labels, OpState
<1>8. Becomes(o, n)
    BY <1>1, <1>7, SetBecomes
<1> QED
    BY <1>1, <1>3, <1>8 DEF n, m

LEMMA UploadPartBecomes ==
    ASSUME TypeOK, LockInv, NEW o \in Op, NEW p \in Part, UploadPart(o, p)
    PROVE  /\ <<op[o].bk, p>> \in Key /\ op[o].bk \in Backup
           /\ Becomes(o, [op[o] EXCEPT !.pend = @ \ {p}, !.done = @ \cup {p},
                                       !.completed = @ \cup {<<op[o].bk, p>>}])
<1> DEFINE k == <<op[o].bk, p>>
           n == [op[o] EXCEPT !.pend = @ \ {p}, !.done = @ \cup {p}, !.completed = @ \cup {k}]
<1>1. Set(o, n) /\ op[o] \in OpState
    BY DEF UploadPart, TypeOK
<1>2. k \in Key /\ op[o].bk \in Backup
    BY DEF UploadPart, LockInv, Uploading, Key
<1> HIDE DEF k
<1>3. n \in OpState
    BY <1>1, <1>2 DEF OpState
<1> QED
    BY <1>1, <1>2, <1>3, SetBecomes DEF k

LEMMA PartEndsBecomes ==
    ASSUME TypeOK, NEW o \in Op, NEW p \in Part
    PROVE  /\ PartCancelled(o, p) => Becomes(o, [op[o] EXCEPT !.pend = @ \ {p}])
           /\ PartFails(o, p) => Becomes(o, [op[o] EXCEPT !.pend = @ \ {p}, !.failed = TRUE])
<1>1. op[o] \in OpState
    BY DEF TypeOK
<1>2. /\ [op[o] EXCEPT !.pend = @ \ {p}] \in OpState
      /\ [op[o] EXCEPT !.pend = @ \ {p}, !.failed = TRUE] \in OpState
    BY <1>1 DEF OpState
<1> QED
    BY <1>2, SetBecomes DEF PartCancelled, PartFails

LEMMA JoinBecomes ==
    ASSUME TypeOK, LockInv, NEW o \in Op, Join(o)
    PROVE  /\ op[o].failed \/ op[o].killed => Becomes(o, Blank)
           /\ ~(op[o].failed \/ op[o].killed) =>
                 Becomes(o, [op[o] EXCEPT !.pc = "publish", !.mem = Merged(op[o])])
<1> DEFINE n == [op[o] EXCEPT !.pc = "publish", !.mem = Merged(op[o])]
<1>1. op[o] \in OpState
    BY DEF TypeOK
<1>2. op[o].bk \in Backup
    BY DEF Join, LockInv, Uploading
<1>3. Merged(op[o]) \in SUBSET Entry
    BY <1>1, <1>2, MergedEntries
<1>4. n \in OpState
    BY <1>1, <1>3 DEF OpState, Labels
<1>5. CASE op[o].failed \/ op[o].killed
    BY <1>5, BlankBecomes DEF Join
<1>6. CASE ~(op[o].failed \/ op[o].killed)
    BY <1>4, <1>6, SetBecomes DEF Join
<1> QED
    BY <1>5, <1>6

LEMMA PublishBecomes ==
    ASSUME TypeOK, NEW o \in Op
    PROVE  /\ Publish(o) => Becomes(o, [op[o] EXCEPT !.pc = "save"])
           /\ Kill(o) => Becomes(o, [op[o] EXCEPT !.killed = TRUE, !.lock = NoLock])
<1>1. op[o] \in OpState
    BY DEF TypeOK
<1>2. /\ [op[o] EXCEPT !.pc = "save"] \in OpState
      /\ [op[o] EXCEPT !.killed = TRUE, !.lock = NoLock] \in OpState
    BY <1>1 DEF OpState, Labels
<1> QED
    BY <1>2, SetBecomes DEF Publish, Kill

LEMMA SaveLocalBecomes ==
    ASSUME TypeOK, NEW o \in Op, SaveLocal(o)
    PROVE  /\ op[o].killed \/ Keep = 0 => Becomes(o, Blank)
           /\ ~(op[o].killed \/ Keep = 0) =>
                 Becomes(o, [Blank EXCEPT !.pc = "retain", !.bk = op[o].bk, !.lock = op[o].lock])
<1>1. op[o] \in OpState
    BY DEF TypeOK
<1>2. [Blank EXCEPT !.pc = "retain", !.bk = op[o].bk, !.lock = op[o].lock] \in OpState
    BY <1>1, BlankType DEF OpState, Labels
<1> QED
    BY <1>2, SetBecomes, BlankBecomes DEF SaveLocal

LEMMA RetentionPlanBecomes ==
    ASSUME TypeOK, NEW o \in Op, NEW miss \in SUBSET Backup, RetentionPlan(o, miss)
    PROVE  LET listed == Valid \ miss
               del    == plan_retention_deletions(listed)
           IN  \/ Becomes(o, Blank)
               \/ /\ Misread(miss)
                  /\ Becomes(o, [op[o] EXCEPT !.pc = "fetch", !.todo = del,
                                              !.fetch = listed \ del])
<1> DEFINE listed == Valid \ miss
           del == plan_retention_deletions(listed)
           n == [op[o] EXCEPT !.pc = "fetch", !.todo = del, !.fetch = listed \ del]
<1>1. op[o] \in OpState
    BY DEF TypeOK
<1>2. listed \subseteq Backup /\ del \subseteq Backup
    BY DEF Valid, plan_retention_deletions
<1>3. Set(o, Blank) \/ (Misread(miss) /\ Set(o, n))
    BY DEF RetentionPlan
<1> HIDE DEF listed, del
<1>4. n \in OpState
    BY <1>1, <1>2 DEF OpState, Labels
<1>5. Becomes(o, Blank) \/ (Misread(miss) /\ Becomes(o, n))
    BY <1>3, <1>4, SetBecomes, BlankBecomes
<1> QED
    BY <1>5 DEF listed, del

LEMMA FetchBecomes ==
    ASSUME TypeOK, NEW o \in Op, NEW s \in Backup
    PROVE  /\ FetchManifest(o, s) =>
                 \/ Becomes(o, Blank)
                 \/ s \in Valid /\ Becomes(o, [op[o] EXCEPT !.fetch = @ \ {s},
                                                 !.prot = @ \cup KeysOf(remote[s]),
                                                 !.bases = @ \cup BasesOf(remote[s])])
           /\ CleanFetch(o, s) =>
                 \/ Becomes(o, Blank)
                 \/ s \in Valid /\ Becomes(o, [op[o] EXCEPT !.fetch = @ \ {s},
                                                 !.prot = @ \cup KeysOf(remote[s])])
<1> DEFINE K == KeysOf(remote[s])
           B == BasesOf(remote[s])
           n == [op[o] EXCEPT !.fetch = @ \ {s}, !.prot = @ \cup K, !.bases = @ \cup B]
           c == [op[o] EXCEPT !.fetch = @ \ {s}, !.prot = @ \cup K]
<1>1. op[o] \in OpState
    BY DEF TypeOK
<1>2. s \in Valid => K \in SUBSET Key /\ B \in SUBSET Backup
    BY DEF TypeOK, KeysOf, BasesOf, Entry
<1>3. /\ FetchManifest(o, s) => Set(o, Blank) \/ (s \in Valid /\ Set(o, n))
      /\ CleanFetch(o, s) => Set(o, Blank) \/ (s \in Valid /\ Set(o, c))
    BY DEF FetchManifest, CleanFetch
<1> HIDE DEF K, B
<1>4. s \in Valid => n \in OpState /\ c \in OpState
    BY <1>1, <1>2 DEF OpState
<1>5. /\ FetchManifest(o, s) => Becomes(o, Blank) \/ (s \in Valid /\ Becomes(o, n))
      /\ CleanFetch(o, s) => Becomes(o, Blank) \/ (s \in Valid /\ Becomes(o, c))
    BY <1>3, <1>4, SetBecomes, BlankBecomes
<1> QED
    BY <1>5 DEF K, B

(* The next candidate c is left out, or its keys are to be deleted. *)
LEMMA RetentionCandidateBecomes ==
    ASSUME TypeOK, NEW o \in Op, RetentionCandidate(o)
    PROVE  \E c \in Oldest(op[o].todo) :
              \/ Becomes(o, [op[o] EXCEPT !.todo = @ \ {c}])
              \/ /\ ListPrefix(c) \cap op[o].prot = {}
                 /\ Becomes(o, [op[o] EXCEPT !.todo = @ \ {c}, !.pc = "delete", !.bk = c,
                                             !.keys = ListPrefix(c)])
<1>1. op[o] \in OpState
    BY DEF TypeOK
<1>2. PICK c \in Oldest(op[o].todo) :
         \/ Set(o, [op[o] EXCEPT !.todo = @ \ {c}])
         \/ /\ ListPrefix(c) \cap op[o].prot = {}
            /\ Set(o, [[op[o] EXCEPT !.todo = @ \ {c}] EXCEPT !.pc = "delete", !.bk = c,
                                                              !.keys = ListPrefix(c)])
    BY DEF RetentionCandidate
<1>3. c \in Backup /\ ListPrefix(c) \in SUBSET Key
    BY <1>1 DEF Oldest, OpState, ListPrefix, TypeOK
<1> DEFINE K == ListPrefix(c)
           n == [op[o] EXCEPT !.todo = @ \ {c}, !.pc = "delete", !.bk = c, !.keys = K]
<1>4. [[op[o] EXCEPT !.todo = @ \ {c}] EXCEPT !.pc = "delete", !.bk = c, !.keys = K] = n
    BY <1>1 DEF OpState
<1> HIDE DEF K
<1>5. n \in OpState /\ [op[o] EXCEPT !.todo = @ \ {c}] \in OpState
    BY <1>1, <1>3 DEF OpState, Labels, K
<1>6. \/ Becomes(o, [op[o] EXCEPT !.todo = @ \ {c}])
      \/ K \cap op[o].prot = {} /\ Becomes(o, n)
    BY <1>2, <1>4, <1>5, SetBecomes DEF K
<1> QED
    BY <1>6 DEF K

LEMMA RetentionDeleteBecomes ==
    ASSUME TypeOK, NEW o \in Op
    PROVE  /\ RetentionDeleteData(o) =>
                 \/ Becomes(o, [op[o] EXCEPT !.pc = "fetch", !.keys = {}])
                 \/ Becomes(o, [op[o] EXCEPT !.pc = "delete_manifest", !.keys = {}])
           /\ RetentionDeleteManifest(o) => Becomes(o, [op[o] EXCEPT !.pc = "fetch"])
           /\ CleanDelete(o) =>
                 Becomes(o, [op[o] EXCEPT !.pc = "clean_fetch", !.keys = {}, !.man = FALSE])
<1>1. op[o] \in OpState
    BY DEF TypeOK
<1>2. /\ [op[o] EXCEPT !.pc = "fetch", !.keys = {}] \in OpState
      /\ [op[o] EXCEPT !.pc = "delete_manifest", !.keys = {}] \in OpState
      /\ [op[o] EXCEPT !.pc = "fetch"] \in OpState
      /\ [op[o] EXCEPT !.pc = "clean_fetch", !.keys = {}, !.man = FALSE] \in OpState
    BY <1>1 DEF OpState, Labels
<1>3. ASSUME RetentionDeleteData(o)
      PROVE  \/ Becomes(o, [op[o] EXCEPT !.pc = "fetch", !.keys = {}])
             \/ Becomes(o, [op[o] EXCEPT !.pc = "delete_manifest", !.keys = {}])
    BY <1>2, <1>3, SetBecomes DEF RetentionDeleteData
<1>4. ASSUME RetentionDeleteManifest(o)
      PROVE  Becomes(o, [op[o] EXCEPT !.pc = "fetch"])
    BY <1>2, <1>4, SetBecomes DEF RetentionDeleteManifest
<1>5. ASSUME CleanDelete(o)
      PROVE  Becomes(o, [op[o] EXCEPT !.pc = "clean_fetch", !.keys = {}, !.man = FALSE])
    BY <1>2, <1>5, SetBecomes DEF CleanDelete
<1> QED
    BY <1>3, <1>4, <1>5

LEMMA CleanStartBecomes ==
    ASSUME TypeOK, NEW o \in Op, NEW miss \in SUBSET Backup, CleanStart(o, miss)
    PROVE  Becomes(o, [Blank EXCEPT !.pc = "clean_fetch", !.lock = Global,
                                    !.todo = Broken(miss), !.fetch = Valid \ miss])
<1> DEFINE T == Broken(miss)
           F == Valid \ miss
           n == [Blank EXCEPT !.pc = "clean_fetch", !.lock = Global, !.todo = T, !.fetch = F]
<1>1. T \in SUBSET Backup /\ F \in SUBSET Backup
    BY DEF Broken, Valid
<1>2. Set(o, n)
    BY DEF CleanStart
<1> HIDE DEF T, F
<1>3. n \in OpState
    BY <1>1, BlankType DEF OpState, Labels
<1>4. Becomes(o, n)
    BY <1>2, <1>3, SetBecomes
<1> QED
    BY <1>4 DEF T, F

(* The planned keys of the candidate: none if it is left alone. *)
LEMMA CleanCandidateBecomes ==
    ASSUME TypeOK, NEW o \in Op, NEW c \in Backup, CleanCandidate(o, c)
    PROVE  \E K \in SUBSET Key, man \in BOOLEAN :
              /\ K = {} \/ (c \notin young /\ K = ListPrefix(c) \ op[o].prot)
              /\ man => c \in Valid
              /\ Becomes(o, [op[o] EXCEPT !.todo = @ \ {c}, !.bk = c, !.keys = K, !.man = man,
                    !.pc = IF K = {} /\ ~man THEN "clean_fetch" ELSE "clean_delete"])
<1> DEFINE skip == (\E q \in Op : op[q].lock = c) \/ c \in young
<1>1. op[o] \in OpState
    BY DEF TypeOK
<1>2. \E K \in SUBSET Key, man \in BOOLEAN :
         /\ K = {} \/ (c \notin young /\ K = ListPrefix(c) \ op[o].prot)
         /\ man => c \in Valid
         /\ CleanPlan(o, c, K, man)
  <2>1. CASE CleanPlan(o, c, {}, FALSE)
    BY <2>1
  <2>2. CASE CleanPlan(o, c, IF skip THEN {} ELSE ListPrefix(c) \ op[o].prot, ~skip /\ c \in Valid)
    <3>1. ListPrefix(c) \ op[o].prot \in SUBSET Key
      BY DEF ListPrefix, TypeOK
    <3>2. CASE skip
      BY <2>2, <3>2
    <3>3. CASE ~skip
      <4>1. CleanPlan(o, c, ListPrefix(c) \ op[o].prot, c \in Valid)
        BY <2>2, <3>3
      <4>2. CASE c \in Valid
        <5>1. CleanPlan(o, c, ListPrefix(c) \ op[o].prot, TRUE)
          BY <4>1, <4>2 DEF CleanPlan
        <5> QED
          BY <3>1, <3>3, <4>2, <5>1
      <4>3. CASE c \notin Valid
        <5>0. (c \in Valid) = FALSE
          BY <4>3
        <5>1. CleanPlan(o, c, ListPrefix(c) \ op[o].prot, FALSE)
          BY <4>1, <5>0
        <5> QED
          BY <3>1, <3>3, <5>1
      <4> QED
        BY <4>2, <4>3
    <3> QED
      BY <3>2, <3>3
  <2> QED
    BY <2>1, <2>2 DEF CleanCandidate
<1>3. PICK K \in SUBSET Key, man \in BOOLEAN :
         /\ K = {} \/ (c \notin young /\ K = ListPrefix(c) \ op[o].prot)
         /\ man => c \in Valid
         /\ CleanPlan(o, c, K, man)
    BY <1>2
<1> DEFINE l == IF K = {} /\ ~man THEN "clean_fetch" ELSE "clean_delete"
           n == [op[o] EXCEPT !.todo = @ \ {c}, !.bk = c, !.keys = K, !.man = man, !.pc = l]
<1>4. Set(o, n)
    BY <1>3 DEF CleanPlan
<1>5. l \in Labels
    BY DEF Labels
<1> HIDE DEF l
<1>6. n \in OpState
    BY <1>1, <1>5 DEF OpState
<1>7. Becomes(o, n)
    BY <1>4, <1>6, SetBecomes
<1> QED
    BY <1>3, <1>7 DEF l

-----------------------------------------------------------------------------
(* Types and locks *)

(* A command that ends or gives up: only its record changes, but for what  *)
(* the environment counts.                                                 *)
Stops(o) ==
    /\ Becomes(o, Blank)
    /\ UNCHANGED <<commands, local, remote, objects, young, state>>
    /\ misreads' = 0 => misreads = 0
    /\ crashes' \in 0..MaxCrashes /\ faults' \in 0..MaxFaults /\ misreads' \in 0..MaxMisreads

LEMMA StopSteps ==
    ASSUME TypeOK, LockInv, NEW o \in Op
    PROVE  /\ UploadFails(o) => Stops(o)
           /\ Join(o) /\ (op[o].failed \/ op[o].killed) => Stops(o)
           /\ RetentionDone(o) => Stops(o)
           /\ CleanDone(o) => Stops(o)
           /\ Crash(o) => Stops(o)
<1> USE BlankBecomes, StoreAssumption DEF Stops, TypeOK
<1>1. UploadFails(o) => Stops(o)
    BY DEF UploadFails
<1>2. Join(o) /\ (op[o].failed \/ op[o].killed) => Stops(o)
    BY DEF Join
<1>3. RetentionDone(o) => Stops(o)
    BY DEF RetentionDone
<1>4. CleanDone(o) => Stops(o)
    BY DEF CleanDone
<1>5. Crash(o) => Stops(o)
    BY DEF Crash
<1> QED
    BY <1>1, <1>2, <1>3, <1>4, <1>5

LEMMA PlanSteps ==
    ASSUME TypeOK, NEW o \in Op, NEW miss \in SUBSET Backup, RetentionPlan(o, miss)
    PROVE  LET listed == Valid \ miss
               del    == plan_retention_deletions(listed)
           IN  \/ Stops(o)
               \/ /\ Misread(miss) /\ misreads' \in 0..MaxMisreads /\ UNCHANGED faults
                  /\ Becomes(o, [op[o] EXCEPT !.pc = "fetch", !.todo = del,
                                              !.fetch = listed \ del])
<1>1. CASE Misread(miss) /\ UNCHANGED faults
    BY <1>1, RetentionPlanBecomes, NothingMissed DEF Stops, RetentionPlan, TypeOK
<1>2. CASE ~(Misread(miss) /\ UNCHANGED faults)
  <2>1. Set(o, Blank) /\ faults < MaxFaults /\ faults' = faults + 1 /\ UNCHANGED misreads
    BY <1>2 DEF RetentionPlan
  <2> QED
    BY <2>1, BlankBecomes, StoreAssumption DEF Stops, RetentionPlan, TypeOK
<1> QED
    BY <1>1, <1>2

LEMMA FetchSteps ==
    ASSUME TypeOK, NEW o \in Op, NEW s \in Backup
    PROVE  /\ FetchManifest(o, s) =>
                 \/ Stops(o)
                 \/ /\ s \in Valid /\ UNCHANGED faults
                    /\ Becomes(o, [op[o] EXCEPT !.fetch = @ \ {s},
                                                !.prot = @ \cup KeysOf(remote[s]),
                                                !.bases = @ \cup BasesOf(remote[s])])
           /\ CleanFetch(o, s) =>
                 \/ Stops(o)
                 \/ /\ s \in Valid /\ UNCHANGED faults
                    /\ Becomes(o, [op[o] EXCEPT !.fetch = @ \ {s},
                                                !.prot = @ \cup KeysOf(remote[s])])
<1>1. ASSUME FetchManifest(o, s), ~Stops(o)
      PROVE  s \in Valid /\ UNCHANGED faults
    BY <1>1, BlankBecomes, StoreAssumption DEF FetchManifest, Stops, TypeOK
<1>2. ASSUME CleanFetch(o, s), ~Stops(o)
      PROVE  s \in Valid /\ UNCHANGED faults
    BY <1>2, BlankBecomes, StoreAssumption DEF CleanFetch, Stops, TypeOK
<1>3. ASSUME FetchManifest(o, s), Becomes(o, Blank)
      PROVE  Stops(o)
    BY <1>3, StoreAssumption DEF FetchManifest, Stops, TypeOK
<1>4. ASSUME CleanFetch(o, s), Becomes(o, Blank)
      PROVE  Stops(o)
    BY <1>4, StoreAssumption DEF CleanFetch, Stops, TypeOK
<1> QED
    BY <1>1, <1>2, <1>3, <1>4, FetchBecomes

(* Every step keeps the types. *)
LEMMA TypeStep ==
    ASSUME TypeOK, LockInv, [Next]_vars
    PROVE  TypeOK'
<1> USE StoreAssumption
<1>0. op \in [Op -> OpState] /\ DOMAIN local = Backup /\ DOMAIN remote = Backup
    BY DEF TypeOK
<1>1. ASSUME NEW b \in Backup, NEW P \in SUBSET Part, NEW base \in Backup \cup {Own},
             Create(b, P, base)
      PROVE  TypeOK'
  <2> DEFINE fresh == {[part |-> p, source |-> Own, key |-> NoKey] : p \in P}
  <2>1. fresh \in SUBSET Entry
    BY DEF Entry
  <2>2. PICK m : local' = [local EXCEPT ![b] = m] /\ m \in SUBSET Entry
    <3>1. CASE local' = [local EXCEPT ![b] = fresh]
      BY <2>1, <3>1
    <3>2. CASE base \in Created /\ local' = [local EXCEPT ![b] = diff_parts(fresh, base, local[base])]
      <4>1. base \in Backup /\ local[base] \in SUBSET Entry
        BY <3>2 DEF TypeOK, Created
      <4>2. diff_parts(fresh, base, local[base]) \in SUBSET Entry
        BY <2>1, <4>1, DiffEntries
      <4> QED
        BY <3>2, <4>2
    <3>3. CASE base \in Valid /\ local' = [local EXCEPT ![b] = diff_parts(fresh, base, remote[base])]
      <4>1. base \in Backup /\ remote[base] \in SUBSET Entry
        BY <3>3 DEF TypeOK, Valid
      <4>2. diff_parts(fresh, base, remote[base]) \in SUBSET Entry
        BY <2>1, <4>1, DiffEntries
      <4> QED
        BY <3>3, <4>2
    <3> QED
      BY <1>1, <3>1, <3>2, <3>3 DEF Create
  <2> QED
    BY <1>1, <2>2 DEF Create, TypeOK, Created, Valid
<1>2. ASSUME NEW o \in Op, NEW b \in Backup, NEW base \in Backup \cup {Own},
             NEW resume \in BOOLEAN, UploadStart(o, b, base, resume)
      PROVE  TypeOK'
  <2>1. /\ op' \in [Op -> OpState] /\ Loaded(b, base) \in SUBSET Entry
        /\ local' = [local EXCEPT ![b] = Loaded(b, base)]
    BY <1>2, UploadStartBecomes DEF Becomes
  <2> QED
    BY <1>2, <2>1 DEF UploadStart, TypeOK, Created, Valid
<1>3. ASSUME NEW o \in Op, UploadStep(o)
      PROVE  TypeOK'
  <2>1. ASSUME NEW p \in Part, UploadPart(o, p)
        PROVE  TypeOK'
    <3>1. /\ op' \in [Op -> OpState] /\ op[o].bk \in Backup /\ <<op[o].bk, p>> \in Key
          /\ op[o] \in OpState
      BY <2>1, UploadPartBecomes, <1>0 DEF Becomes
    <3>2. [completed |-> op[o].completed \cup {<<op[o].bk, p>>}, base |-> op[o].base]
            \in [completed : SUBSET Key, base : Backup \cup {Own}]
      BY <3>1 DEF OpState
    <3>3. state' \in [Backup -> [completed : SUBSET Key, base : Backup \cup {Own}] \cup {NoState}]
      BY <2>1, <3>1, <3>2 DEF UploadPart, TypeOK
    <3>4. objects' \subseteq Key /\ young' \subseteq Backup
      BY <2>1, <3>1 DEF UploadPart, TypeOK
    <3> QED
      BY <2>1, <3>1, <3>3, <3>4 DEF UploadPart, TypeOK, Created, Valid
  <2>2. ASSUME NEW p \in Part, PartCancelled(o, p)
        PROVE  TypeOK'
    BY <2>2, PartEndsBecomes DEF PartCancelled, Becomes, TypeOK, Created, Valid
  <2>3. ASSUME NEW p \in Part, PartFails(o, p)
        PROVE  TypeOK'
    <3>1. op' \in [Op -> OpState]
      BY <2>3, PartEndsBecomes DEF Becomes
    <3> QED
      BY <2>3, <3>1 DEF PartFails, TypeOK, Created, Valid
  <2>4. CASE Join(o)
    BY <2>4, JoinBecomes DEF Join, Becomes, TypeOK, Created, Valid
  <2>5. CASE Publish(o)
    <3>1. /\ op' \in [Op -> OpState] /\ op[o].bk \in Backup /\ op[o].mem \in SUBSET Entry
      BY <2>5, PublishBecomes, <1>0 DEF Becomes, Publish, LockInv, Uploading, OpState
    <3> QED
      BY <2>5, <3>1 DEF Publish, TypeOK, Created, Valid
  <2>6. CASE SaveLocal(o)
    <3>1. /\ op' \in [Op -> OpState] /\ op[o].bk \in Backup /\ op[o].mem \in SUBSET Entry
      BY <2>6, SaveLocalBecomes, <1>0 DEF Becomes, SaveLocal, LockInv, Uploading, OpState
    <3> QED
      BY <2>6, <3>1 DEF SaveLocal, TypeOK, Created, Valid
  <2>7. CASE UploadFails(o)
    BY <2>7, StopSteps DEF Stops, Becomes, TypeOK, Created, Valid
  <2>8. CASE Kill(o)
    BY <2>8, PublishBecomes DEF Kill, Becomes, TypeOK, Created, Valid
  <2> QED
    BY <1>3, <2>1, <2>2, <2>3, <2>4, <2>5, <2>6, <2>7, <2>8 DEF UploadStep
<1>4. ASSUME NEW o \in Op, RetentionStep(o)
      PROVE  TypeOK'
  <2>1. ASSUME NEW miss \in SUBSET Backup, RetentionPlan(o, miss)
        PROVE  TypeOK'
    <3>1. /\ op' \in [Op -> OpState] /\ misreads' \in 0..MaxMisreads /\ faults' \in 0..MaxFaults
      BY <2>1, PlanSteps DEF Stops, Becomes, TypeOK
    <3> QED
      BY <2>1, <3>1 DEF RetentionPlan, TypeOK, Created, Valid
  <2>2. ASSUME NEW s \in Backup, FetchManifest(o, s)
        PROVE  TypeOK'
    <3>1. /\ op' \in [Op -> OpState] /\ faults' \in 0..MaxFaults
      BY <2>2, FetchSteps DEF Stops, Becomes, TypeOK
    <3> QED
      BY <2>2, <3>1 DEF FetchManifest, TypeOK, Created, Valid
  <2>3. CASE RetentionCandidate(o)
    <3>1. op' \in [Op -> OpState]
      BY <2>3, RetentionCandidateBecomes DEF Becomes
    <3>2. faults' \in 0..MaxFaults
      BY <2>3 DEF RetentionCandidate, TypeOK
    <3> QED
      BY <2>3, <3>1, <3>2 DEF RetentionCandidate, TypeOK, Created, Valid
  <2>4. CASE RetentionDone(o)
    BY <2>4, StopSteps DEF Stops, Becomes, TypeOK, Created, Valid
  <2>5. CASE RetentionDeleteData(o)
    <3>1. op' \in [Op -> OpState]
      BY <2>5, RetentionDeleteBecomes DEF Becomes
    <3>2. faults' \in 0..MaxFaults /\ objects' \subseteq objects
      BY <2>5 DEF RetentionDeleteData, TypeOK
    <3> QED
      BY <2>5, <3>1, <3>2 DEF RetentionDeleteData, TypeOK, Created, Valid
  <2>6. CASE RetentionDeleteManifest(o)
    <3>1. op' \in [Op -> OpState]
      BY <2>6, RetentionDeleteBecomes DEF Becomes
    <3>2. faults' \in 0..MaxFaults
      BY <2>6 DEF RetentionDeleteManifest, TypeOK
    <3> QED
      BY <2>6, <3>1, <3>2 DEF RetentionDeleteManifest, TypeOK, Created, Valid
  <2> QED
    BY <1>4, <2>1, <2>2, <2>3, <2>4, <2>5, <2>6 DEF RetentionStep
<1>5. ASSUME NEW o \in Op, AdminStep(o)
      PROVE  TypeOK'
  <2>1. ASSUME NEW b \in Backup, DeleteRemote(o, b)
        PROVE  TypeOK'
    <3>1. /\ faults' \in 0..MaxFaults /\ objects' \subseteq objects
          /\ remote' = remote \/ remote' = [remote EXCEPT ![b] = NoManifest]
      BY <2>1 DEF DeleteRemote, TypeOK
    <3> QED
      BY <2>1, <3>1 DEF DeleteRemote, TypeOK, Created, Valid
  <2>2. ASSUME NEW s \in Backup, CleanFetch(o, s)
        PROVE  TypeOK'
    <3>1. /\ op' \in [Op -> OpState] /\ faults' \in 0..MaxFaults
      BY <2>2, FetchSteps DEF Stops, Becomes, TypeOK
    <3> QED
      BY <2>2, <3>1 DEF CleanFetch, TypeOK, Created, Valid
  <2>3. ASSUME NEW c \in Backup, CleanCandidate(o, c)
        PROVE  TypeOK'
    <3>1. op' \in [Op -> OpState]
      BY <2>3, CleanCandidateBecomes DEF Becomes
    <3>2. UNCHANGED faults \/ (faults < MaxFaults /\ faults' = faults + 1)
      BY <2>3, Zenon DEF CleanCandidate
    <3> QED
      BY <2>3, <3>1, <3>2 DEF CleanCandidate, TypeOK, Created, Valid
  <2>4. ASSUME NEW miss \in SUBSET Backup, CleanStart(o, miss)
        PROVE  TypeOK'
    <3>1. op' \in [Op -> OpState] /\ misreads' \in 0..MaxMisreads
      BY <2>4, CleanStartBecomes, NothingMissed DEF Becomes, CleanStart
    <3> QED
      BY <2>4, <3>1 DEF CleanStart, TypeOK, Created, Valid
  <2>5. CASE CleanDelete(o)
    <3>1. op' \in [Op -> OpState]
      BY <2>5, RetentionDeleteBecomes DEF Becomes
    <3>2. /\ faults' \in 0..MaxFaults /\ objects' \subseteq objects
          /\ remote' = remote \/ remote' = [remote EXCEPT ![op[o].bk] = NoManifest]
      BY <2>5 DEF CleanDelete, TypeOK
    <3> QED
      BY <2>5, <3>1, <3>2 DEF CleanDelete, TypeOK, Created, Valid
  <2>6. CASE CleanDone(o)
    BY <2>6, StopSteps DEF Stops, Becomes, TypeOK, Created, Valid
  <2> QED
    BY <1>5, <2>1, <2>2, <2>3, <2>4, <2>5, <2>6 DEF AdminStep
<1>6. ASSUME NEW o \in Op, Crash(o)
      PROVE  TypeOK'
    BY <1>6, StopSteps DEF Stops, Becomes, TypeOK, Created, Valid
<1>7. ASSUME NEW b \in Backup, Age(b)
      PROVE  TypeOK'
    BY <1>7 DEF Age, TypeOK, Created, Valid
<1>8. CASE UNCHANGED vars
    BY <1>8 DEF vars, TypeOK, Created, Valid
<1> QED
    BY <1>1, <1>2, <1>3, <1>4, <1>5, <1>6, <1>7, <1>8 DEF Next

(* What one command's new record must satisfy to keep the lock order. *)
LockOK(o, n) ==
    /\ n.pc \in Cleaning => n.lock = Global
    /\ n.pc \in Uploading => n.bk \in Backup /\ (n.killed \/ n.lock \in Backup)
    /\ n.pc \in Retaining => n.lock \in Backup /\ Keep # 0
    /\ \/ n.lock \in {op[o].lock, NoLock}
       \/ n.lock = Global /\ \A q \in Op : q # o => op[q].lock = NoLock
       \/ n.lock # Global /\ \A q \in Op : q # o => op[q].lock # Global
    /\ "kill" \notin commands => ~n.killed

LEMMA LockFrame ==
    ASSUME LockInv, NEW o \in Op, NEW n, Becomes(o, n), LockOK(o, n), commands' = commands
    PROVE  LockInv'
<1> USE BackupFacts
<1>1. op'[o] = n /\ \A q \in Op : q # o => op'[q] = op[q]
    BY DEF Becomes
<1>2. \A q \in Op : op'[q].pc \in Cleaning => op'[q].lock = Global
    BY <1>1 DEF LockInv, LockOK
<1>3. \A q \in Op : op'[q].pc \in Uploading =>
          op'[q].bk \in Backup /\ (op'[q].killed \/ op'[q].lock \in Backup)
    BY <1>1 DEF LockInv, LockOK
<1>4. \A q \in Op : op'[q].pc \in Retaining => op'[q].lock \in Backup /\ Keep # 0
    BY <1>1 DEF LockInv, LockOK
<1>5. \A p, q \in Op : op'[p].lock = Global /\ p # q => op'[q].lock = NoLock
    BY <1>1 DEF LockInv, LockOK
<1>6. "kill" \notin commands' => \A q \in Op : ~op'[q].killed
    BY <1>1 DEF LockInv, LockOK
<1> QED
    BY <1>2, <1>3, <1>4, <1>5, <1>6 DEF LockInv

LEMMA StopLock ==
    ASSUME LockInv, NEW o \in Op, Stops(o)
    PROVE  LockInv'
<1>1. LockOK(o, Blank)
    BY DEF LockOK, Blank, Cleaning, Uploading, Retaining
<1> QED
    BY <1>1, LockFrame DEF Stops

(* A step that keeps the lock of a command, and the part of it. *)
LEMMA SameLock ==
    ASSUME TypeOK, LockInv, NEW o \in Op, NEW n, Becomes(o, n), commands' = commands,
           n.lock = op[o].lock, n.killed = op[o].killed,
           \/ n.pc = op[o].pc /\ n.bk = op[o].bk
           \/ {n.pc, op[o].pc} \subseteq Uploading /\ n.bk = op[o].bk
           \/ {n.pc, op[o].pc} \subseteq Retaining
           \/ {n.pc, op[o].pc} \subseteq Cleaning
    PROVE  LockInv'
<1>1. /\ op[o].pc \in Cleaning => op[o].lock = Global
      /\ op[o].pc \in Uploading => op[o].bk \in Backup /\ (op[o].killed \/ op[o].lock \in Backup)
      /\ op[o].pc \in Retaining => op[o].lock \in Backup /\ Keep # 0
      /\ "kill" \notin commands => ~op[o].killed
    BY DEF LockInv
<1>2. LockOK(o, n)
    BY <1>1 DEF LockOK, Cleaning, Uploading, Retaining
<1> QED
    BY <1>2, LockFrame

LEMMA LockStep ==
    ASSUME TypeOK, LockInv, [Next]_vars
    PROVE  LockInv'
<1> USE BackupFacts
<1>0. op \in [Op -> OpState]
    BY DEF TypeOK
<1>1. ASSUME NEW b \in Backup, NEW P \in SUBSET Part, NEW base \in Backup \cup {Own},
             Create(b, P, base)
      PROVE  LockInv'
    BY <1>1 DEF Create, LockInv
<1>2. ASSUME NEW o \in Op, NEW b \in Backup, NEW base \in Backup \cup {Own},
             NEW resume \in BOOLEAN, UploadStart(o, b, base, resume)
      PROVE  LockInv'
  <2> DEFINE n == Started(b, base, resume)
  <2>1. n.pc = "parts" /\ n.bk = b /\ n.lock = b /\ n.killed = FALSE
    BY DEF Started, Blank
  <2>2. Becomes(o, n)
    BY <1>2, UploadStartBecomes
  <2> HIDE DEF n
  <2>3. \A q \in Op : op[q].lock # Global
    BY <1>2 DEF UploadStart, LockFree
  <2>4. LockOK(o, n)
    BY <2>1, <2>3 DEF LockOK, Cleaning, Uploading, Retaining
  <2> QED
    BY <1>2, <2>2, <2>4, LockFrame DEF UploadStart
<1>3. ASSUME NEW o \in Op, UploadStep(o)
      PROVE  LockInv'
  <2>0. op[o] \in OpState
    BY <1>0
  <2>1. ASSUME NEW p \in Part, UploadPart(o, p)
        PROVE  LockInv'
    <3> DEFINE n == [op[o] EXCEPT !.pend = @ \ {p}, !.done = @ \cup {p},
                                  !.completed = @ \cup {<<op[o].bk, p>>}]
    <3>1. n.pc = op[o].pc /\ n.bk = op[o].bk /\ n.lock = op[o].lock /\ n.killed = op[o].killed
      BY <2>0 DEF OpState
    <3>2. Becomes(o, n)
      BY <2>1, UploadPartBecomes
    <3> HIDE DEF n
    <3> QED
      BY <2>1, <3>1, <3>2, SameLock DEF UploadPart
  <2>2. ASSUME NEW p \in Part, PartCancelled(o, p) \/ PartFails(o, p)
        PROVE  LockInv'
    <3> DEFINE n == op'[o]
    <3>1. /\ Becomes(o, n) /\ n.pc = op[o].pc /\ n.bk = op[o].bk
          /\ n.lock = op[o].lock /\ n.killed = op[o].killed
      <4>1. CASE PartCancelled(o, p)
        <5>1. op'[o] = [op[o] EXCEPT !.pend = @ \ {p}] /\ Becomes(o, op'[o])
          BY <4>1, PartEndsBecomes, BecomesIt
        <5> QED
          BY <2>0, <5>1 DEF OpState
      <4>2. CASE PartFails(o, p)
        <5>1. op'[o] = [op[o] EXCEPT !.pend = @ \ {p}, !.failed = TRUE] /\ Becomes(o, op'[o])
          BY <4>2, PartEndsBecomes, BecomesIt
        <5> QED
          BY <2>0, <5>1 DEF OpState
      <4> QED
        BY <2>2, <4>1, <4>2
    <3> HIDE DEF n
    <3> QED
      BY <2>2, <3>1, SameLock DEF PartCancelled, PartFails
  <2>3. CASE Join(o)
    <3>1. CASE op[o].failed \/ op[o].killed
      BY <2>3, <3>1, StopSteps, StopLock
    <3>2. CASE ~(op[o].failed \/ op[o].killed)
      <4> DEFINE n == [op[o] EXCEPT !.pc = "publish", !.mem = Merged(op[o])]
      <4>1. /\ n.pc = "publish" /\ n.bk = op[o].bk /\ n.lock = op[o].lock
            /\ n.killed = op[o].killed
        BY <2>0 DEF OpState
      <4>2. Becomes(o, n) /\ op[o].pc = "parts" /\ commands' = commands
        BY <2>3, <3>2, JoinBecomes DEF Join
      <4> HIDE DEF n
      <4> QED
        BY <4>1, <4>2, SameLock DEF Uploading
    <3> QED
      BY <3>1, <3>2
  <2>4. CASE Publish(o)
    <3> DEFINE n == [op[o] EXCEPT !.pc = "save"]
    <3>1. /\ n.pc = "save" /\ n.bk = op[o].bk /\ n.lock = op[o].lock
          /\ n.killed = op[o].killed
      BY <2>0 DEF OpState
    <3>2. Becomes(o, n) /\ op[o].pc = "publish" /\ commands' = commands
      BY <2>4, PublishBecomes DEF Publish
    <3> HIDE DEF n
    <3> QED
      BY <3>1, <3>2, SameLock DEF Uploading
  <2>5. CASE SaveLocal(o)
    <3>0. commands' = commands /\ op[o].pc = "save"
      BY <2>5 DEF SaveLocal
    <3>1. CASE op[o].killed \/ Keep = 0
      <4>1. Becomes(o, Blank)
        BY <2>5, <3>1, SaveLocalBecomes
      <4>2. LockOK(o, Blank)
        BY DEF LockOK, Blank, Cleaning, Uploading, Retaining
      <4> QED
        BY <3>0, <4>1, <4>2, LockFrame
    <3>2. CASE ~(op[o].killed \/ Keep = 0)
      <4> DEFINE n == [Blank EXCEPT !.pc = "retain", !.bk = op[o].bk, !.lock = op[o].lock]
      <4>1. n.pc = "retain" /\ n.lock = op[o].lock /\ n.killed = FALSE
        BY DEF Blank
      <4>2. Becomes(o, n) /\ op[o].lock \in Backup
        BY <2>5, <3>0, <3>2, SaveLocalBecomes DEF LockInv, Uploading
      <4> HIDE DEF n
      <4>3. LockOK(o, n)
        BY <3>2, <4>1, <4>2 DEF LockOK, Cleaning, Uploading, Retaining
      <4> QED
        BY <3>0, <4>2, <4>3, LockFrame
    <3> QED
      BY <3>1, <3>2
  <2>6. CASE UploadFails(o)
    BY <2>6, StopSteps, StopLock
  <2>7. CASE Kill(o)
    <3> DEFINE n == [op[o] EXCEPT !.killed = TRUE, !.lock = NoLock]
    <3>1. n.pc = op[o].pc /\ n.bk = op[o].bk /\ n.lock = NoLock /\ n.killed = TRUE
      BY <2>0 DEF OpState
    <3>2. /\ Becomes(o, n) /\ op[o].pc \in Uploading /\ commands' = commands
          /\ "kill" \in commands
      BY <2>7, PublishBecomes DEF Kill, Uploading
    <3> HIDE DEF n
    <3>3. LockOK(o, n)
      BY <3>1, <3>2 DEF LockInv, LockOK, Cleaning, Uploading, Retaining
    <3> QED
      BY <3>2, <3>3, LockFrame
  <2> QED
    BY <1>3, <2>1, <2>2, <2>3, <2>4, <2>5, <2>6, <2>7 DEF UploadStep
<1>4. ASSUME NEW o \in Op, RetentionStep(o)
      PROVE  LockInv'
  <2>0. op[o] \in OpState
    BY <1>0
  <2>1. CASE Stops(o)
    BY <2>1, StopLock
  <2>2. CASE ~Stops(o)
    <3>1. ASSUME NEW miss \in SUBSET Backup, RetentionPlan(o, miss)
          PROVE  LockInv'
      <4> DEFINE F == (Valid \ miss) \ plan_retention_deletions(Valid \ miss)
                 D == plan_retention_deletions(Valid \ miss)
                 n == [op[o] EXCEPT !.pc = "fetch", !.todo = D, !.fetch = F]
      <4>1. Becomes(o, n) /\ op[o].pc = "retain" /\ commands' = commands
        BY <2>2, <3>1, PlanSteps DEF RetentionPlan
      <4> HIDE DEF F, D
      <4>2. n.pc = "fetch" /\ n.lock = op[o].lock /\ n.killed = op[o].killed
        BY <2>0 DEF OpState
      <4> HIDE DEF n
      <4> QED
        BY <4>1, <4>2, SameLock DEF Retaining
    <3>2. ASSUME NEW s \in Backup, FetchManifest(o, s)
          PROVE  LockInv'
      <4> DEFINE K == KeysOf(remote[s])
                 B == BasesOf(remote[s])
                 n == [op[o] EXCEPT !.fetch = @ \ {s}, !.prot = @ \cup K, !.bases = @ \cup B]
      <4>1. Becomes(o, n) /\ commands' = commands
        BY <2>2, <3>2, FetchSteps DEF FetchManifest
      <4> HIDE DEF K, B
      <4>2. n.pc = op[o].pc /\ n.bk = op[o].bk /\ n.lock = op[o].lock /\ n.killed = op[o].killed
        BY <2>0 DEF OpState
      <4> HIDE DEF n
      <4> QED
        BY <4>1, <4>2, SameLock
    <3>3. CASE RetentionCandidate(o)
      <4> DEFINE n == op'[o]
      <4>1. /\ Becomes(o, n) /\ n.pc \in {"fetch", "delete"}
            /\ n.lock = op[o].lock /\ n.killed = op[o].killed
        <5>1. PICK c \in Oldest(op[o].todo) :
                 \/ Becomes(o, [op[o] EXCEPT !.todo = @ \ {c}])
                 \/ Becomes(o, [op[o] EXCEPT !.todo = @ \ {c}, !.pc = "delete", !.bk = c,
                                             !.keys = ListPrefix(c)])
          BY <3>3, RetentionCandidateBecomes
        <5>2. op[o].pc = "fetch"
          BY <3>3 DEF RetentionCandidate
        <5> QED
          BY <2>0, <5>1, <5>2 DEF OpState, Becomes
      <4> HIDE DEF n
      <4> QED
        BY <3>3, <4>1, SameLock DEF RetentionCandidate, Retaining
    <3>4. CASE RetentionDone(o)
      BY <3>4, StopSteps, StopLock
    <3>5. CASE RetentionDeleteData(o) \/ RetentionDeleteManifest(o)
      <4> DEFINE n == op'[o]
      <4>1. /\ Becomes(o, n) /\ n.pc \in {"fetch", "delete_manifest"}
            /\ n.lock = op[o].lock /\ n.killed = op[o].killed
        <5>1. /\ Becomes(o, op'[o])
              /\ \/ op'[o] = [op[o] EXCEPT !.pc = "fetch", !.keys = {}]
                 \/ op'[o] = [op[o] EXCEPT !.pc = "delete_manifest", !.keys = {}]
                 \/ op'[o] = [op[o] EXCEPT !.pc = "fetch"]
          BY <3>5, RetentionDeleteBecomes, BecomesIt
        <5> QED
          BY <2>0, <5>1 DEF OpState
      <4> HIDE DEF n
      <4> QED
        BY <3>5, <4>1, SameLock DEF RetentionDeleteData, RetentionDeleteManifest, Retaining
    <3> QED
      BY <1>4, <3>1, <3>2, <3>3, <3>4, <3>5 DEF RetentionStep
  <2> QED
    BY <2>1, <2>2
<1>5. ASSUME NEW o \in Op, AdminStep(o)
      PROVE  LockInv'
  <2>0. op[o] \in OpState
    BY <1>0
  <2>1. ASSUME NEW b \in Backup, DeleteRemote(o, b)
        PROVE  LockInv'
    BY <2>1 DEF DeleteRemote, LockInv
  <2>2. ASSUME NEW s \in Backup, CleanFetch(o, s)
        PROVE  LockInv'
    <3>1. CASE Stops(o)
      BY <3>1, StopLock
    <3>2. CASE ~Stops(o)
      <4> DEFINE K == KeysOf(remote[s])
                 n == [op[o] EXCEPT !.fetch = @ \ {s}, !.prot = @ \cup K]
      <4>1. Becomes(o, n) /\ commands' = commands
        BY <2>2, <3>2, FetchSteps DEF CleanFetch
      <4> HIDE DEF K
      <4>2. n.pc = op[o].pc /\ n.bk = op[o].bk /\ n.lock = op[o].lock /\ n.killed = op[o].killed
        BY <2>0 DEF OpState
      <4> HIDE DEF n
      <4> QED
        BY <4>1, <4>2, SameLock
    <3> QED
      BY <3>1, <3>2
  <2>3. ASSUME NEW c \in Backup, CleanCandidate(o, c)
        PROVE  LockInv'
    <3> DEFINE n == op'[o]
    <3>1. /\ Becomes(o, n) /\ n.pc \in Cleaning
          /\ n.lock = op[o].lock /\ n.killed = op[o].killed
      <4>1. PICK K \in SUBSET Key, man \in BOOLEAN :
               Becomes(o, [op[o] EXCEPT !.todo = @ \ {c}, !.bk = c, !.keys = K, !.man = man,
                     !.pc = IF K = {} /\ ~man THEN "clean_fetch" ELSE "clean_delete"])
        BY <2>3, CleanCandidateBecomes
      <4> QED
        BY <2>0, <4>1 DEF OpState, Becomes, Cleaning
    <3> HIDE DEF n
    <3>2. op[o].pc \in Cleaning /\ commands' = commands
      BY <2>3 DEF CleanCandidate, CleanPlan, Cleaning
    <3> QED
      BY <3>1, <3>2, SameLock
  <2>4. ASSUME NEW miss \in SUBSET Backup, CleanStart(o, miss)
        PROVE  LockInv'
    <3> DEFINE T == Broken(miss)
               F == Valid \ miss
               n == [Blank EXCEPT !.pc = "clean_fetch", !.lock = Global, !.todo = T, !.fetch = F]
    <3>1. Becomes(o, n) /\ commands' = commands
      BY <2>4, CleanStartBecomes DEF CleanStart
    <3>2. \A q \in Op : op[q].lock = NoLock
      BY <2>4 DEF CleanStart, LockFree
    <3> HIDE DEF T, F
    <3>3. n.pc = "clean_fetch" /\ n.lock = Global /\ n.killed = FALSE
      BY DEF Blank
    <3> HIDE DEF n
    <3>4. LockOK(o, n)
      BY <3>2, <3>3 DEF LockOK, Cleaning, Uploading, Retaining
    <3> QED
      BY <3>1, <3>4, LockFrame
  <2>5. CASE CleanDelete(o)
    <3> DEFINE n == [op[o] EXCEPT !.pc = "clean_fetch", !.keys = {}, !.man = FALSE]
    <3>1. Becomes(o, n) /\ commands' = commands /\ op[o].pc = "clean_delete"
      BY <2>5, RetentionDeleteBecomes DEF CleanDelete
    <3>2. n.pc = "clean_fetch" /\ n.lock = op[o].lock /\ n.killed = op[o].killed
      BY <2>0 DEF OpState
    <3> HIDE DEF n
    <3> QED
      BY <3>1, <3>2, SameLock DEF Cleaning
  <2>6. CASE CleanDone(o)
    BY <2>6, StopSteps, StopLock
  <2> QED
    BY <1>5, <2>1, <2>2, <2>3, <2>4, <2>5, <2>6 DEF AdminStep
<1>6. ASSUME NEW o \in Op, Crash(o)
      PROVE  LockInv'
    BY <1>6, StopSteps, StopLock
<1>7. ASSUME NEW b \in Backup, Age(b)
      PROVE  LockInv'
    BY <1>7 DEF Age, LockInv
<1>8. CASE UNCHANGED vars
    BY <1>8 DEF vars, LockInv
<1> QED
    BY <1>1, <1>2, <1>3, <1>4, <1>5, <1>6, <1>7, <1>8 DEF Next

-----------------------------------------------------------------------------
(* Manifests *)

(* Manifests on S3 may be deleted but are not written. *)
Shrinks == \A b \in Backup : remote'[b] \in {NoManifest, remote[b]}

(* A step of a command that is not an upload, or that ends one. *)
Quiet(o) ==
    /\ op' \in [Op -> OpState] /\ \A q \in Op : q # o => op'[q] = op[q]
    /\ op'[o].pc \notin Uploading
    /\ op[o].pc \in Retaining => op'[o].pc \in Retaining \cup {"idle"}
    /\ UNCHANGED <<commands, local, young>>
    /\ Shrinks

LEMMA QuietSteps ==
    ASSUME TypeOK, LockInv, NEW o \in Op,
           Stops(o) \/ RetentionStep(o) \/ AdminStep(o)
    PROVE  Quiet(o)
<1>0. op[o] \in OpState /\ op \in [Op -> OpState] /\ DOMAIN remote = Backup
    BY DEF TypeOK
<1>1. CASE Stops(o)
  <2>1. /\ op'[o] = Blank /\ \A q \in Op : q # o => op'[q] = op[q]
        /\ op' \in [Op -> OpState]
    BY <1>1 DEF Stops, Becomes
  <2>2. Blank.pc = "idle"
    BY DEF Blank
  <2> QED
    BY <1>1, <2>1, <2>2 DEF Stops, Quiet, Shrinks, Uploading
<1>2. ASSUME ~Stops(o), RetentionStep(o)
      PROVE  Quiet(o)
  <2>1. /\ Becomes(o, op'[o]) /\ op'[o].pc \in Retaining
    <3>1. ASSUME NEW miss \in SUBSET Backup, RetentionPlan(o, miss)
          PROVE  /\ Becomes(o, op'[o]) /\ op'[o].pc \in Retaining
      <4> DEFINE F == (Valid \ miss) \ plan_retention_deletions(Valid \ miss)
                 D == plan_retention_deletions(Valid \ miss)
      <4>1. /\ op'[o] = [op[o] EXCEPT !.pc = "fetch", !.todo = D, !.fetch = F]
            /\ Becomes(o, op'[o])
        BY <1>2, <3>1, PlanSteps, BecomesIt
      <4> HIDE DEF F, D
      <4> QED
        BY <1>0, <4>1 DEF OpState, Retaining
    <3>2. ASSUME NEW s \in Backup, FetchManifest(o, s)
          PROVE  /\ Becomes(o, op'[o]) /\ op'[o].pc \in Retaining
      <4> DEFINE K == KeysOf(remote[s])
                 B == BasesOf(remote[s])
      <4>1. /\ op'[o] = [op[o] EXCEPT !.fetch = @ \ {s}, !.prot = @ \cup K, !.bases = @ \cup B]
            /\ Becomes(o, op'[o]) /\ op[o].pc = "fetch"
        BY <1>2, <3>2, FetchSteps, BecomesIt DEF FetchManifest
      <4> HIDE DEF K, B
      <4> QED
        BY <1>0, <4>1 DEF OpState, Retaining
    <3>3. CASE RetentionCandidate(o)
      <4>1. PICK c \in Oldest(op[o].todo) :
               /\ Becomes(o, op'[o])
               /\ \/ op'[o] = [op[o] EXCEPT !.todo = @ \ {c}]
                  \/ op'[o] = [op[o] EXCEPT !.todo = @ \ {c}, !.pc = "delete", !.bk = c,
                                            !.keys = ListPrefix(c)]
        BY <3>3, RetentionCandidateBecomes, BecomesIt
      <4>2. op[o].pc = "fetch"
        BY <3>3 DEF RetentionCandidate
      <4> QED
        BY <1>0, <4>1, <4>2 DEF OpState, Retaining
    <3>4. CASE RetentionDone(o)
      BY <1>2, <3>4, StopSteps
    <3>5. CASE RetentionDeleteData(o) \/ RetentionDeleteManifest(o)
      <4>1. /\ Becomes(o, op'[o])
            /\ \/ op'[o] = [op[o] EXCEPT !.pc = "fetch", !.keys = {}]
               \/ op'[o] = [op[o] EXCEPT !.pc = "delete_manifest", !.keys = {}]
               \/ op'[o] = [op[o] EXCEPT !.pc = "fetch"]
        BY <3>5, RetentionDeleteBecomes, BecomesIt
      <4> QED
        BY <1>0, <4>1 DEF OpState, Retaining
    <3> QED
      BY <1>2, <3>1, <3>2, <3>3, <3>4, <3>5 DEF RetentionStep
  <2>2. /\ UNCHANGED <<commands, local, young>>
        /\ remote' = remote \/ remote' = [remote EXCEPT ![op[o].bk] = NoManifest]
    BY <1>2 DEF RetentionStep, RetentionPlan, FetchManifest, RetentionCandidate, RetentionDone,
                RetentionDeleteData, RetentionDeleteManifest
  <2>3. Shrinks
    BY <1>0, <2>2 DEF Shrinks
  <2> QED
    BY <2>1, <2>2, <2>3, BecomesIt DEF Quiet, Becomes, Retaining, Uploading
<1>3. ASSUME ~Stops(o), AdminStep(o)
      PROVE  Quiet(o)
  <2>0. op[o].pc \notin Retaining
    BY <1>3 DEF AdminStep, DeleteRemote, CleanFetch, CleanCandidate, CleanPlan, CleanStart,
                CleanDelete, CleanDone, Retaining
  <2>1. ASSUME NEW b \in Backup, DeleteRemote(o, b)
        PROVE  Quiet(o)
    <3>1. remote' = remote \/ remote' = [remote EXCEPT ![b] = NoManifest]
      BY <2>1 DEF DeleteRemote
    <3>2. Shrinks
      BY <1>0, <3>1 DEF Shrinks
    <3> QED
      BY <1>0, <2>0, <2>1, <3>2 DEF DeleteRemote, Quiet, Uploading
  <2>2. ASSUME NEW s \in Backup, CleanFetch(o, s)
        PROVE  Quiet(o)
    <3> DEFINE K == KeysOf(remote[s])
    <3>1. /\ op'[o] = [op[o] EXCEPT !.fetch = @ \ {s}, !.prot = @ \cup K]
          /\ Becomes(o, op'[o]) /\ op[o].pc = "clean_fetch"
      BY <1>3, <2>2, FetchSteps, BecomesIt DEF CleanFetch
    <3> HIDE DEF K
    <3>2. op'[o].pc = "clean_fetch"
      BY <1>0, <3>1 DEF OpState
    <3> QED
      BY <2>0, <2>2, <3>1, <3>2 DEF CleanFetch, Quiet, Becomes, Shrinks, Uploading
  <2>3. ASSUME NEW c \in Backup, CleanCandidate(o, c)
        PROVE  Quiet(o)
    <3>0. PICK K \in SUBSET Key, man \in BOOLEAN :
             Becomes(o, [op[o] EXCEPT !.todo = @ \ {c}, !.bk = c, !.keys = K, !.man = man,
                   !.pc = IF K = {} /\ ~man THEN "clean_fetch" ELSE "clean_delete"])
      BY <2>3, CleanCandidateBecomes
    <3>1. /\ Becomes(o, op'[o])
          /\ op'[o] = [op[o] EXCEPT !.todo = @ \ {c}, !.bk = c, !.keys = K, !.man = man,
                !.pc = IF K = {} /\ ~man THEN "clean_fetch" ELSE "clean_delete"]
      BY <3>0, BecomesIt
    <3>2. op'[o].pc \in {"clean_fetch", "clean_delete"}
      BY <1>0, <3>1 DEF OpState
    <3>3. UNCHANGED <<commands, local, remote, young>>
      BY <2>3, Zenon DEF CleanCandidate
    <3> QED
      BY <2>0, <3>1, <3>2, <3>3 DEF Quiet, Becomes, Shrinks, Uploading
  <2>4. ASSUME NEW miss \in SUBSET Backup, CleanStart(o, miss)
        PROVE  Quiet(o)
    <3> DEFINE T == Broken(miss)
               F == Valid \ miss
    <3>1. /\ Becomes(o, op'[o])
          /\ op'[o] = [Blank EXCEPT !.pc = "clean_fetch", !.lock = Global, !.todo = T, !.fetch = F]
      BY <2>4, CleanStartBecomes, BecomesIt
    <3> HIDE DEF T, F
    <3>2. op'[o].pc = "clean_fetch"
      BY <3>1 DEF Blank
    <3> QED
      BY <2>0, <2>4, <3>1, <3>2 DEF CleanStart, Quiet, Becomes, Shrinks, Uploading
  <2>5. CASE CleanDelete(o)
    <3>1. /\ Becomes(o, op'[o])
          /\ op'[o] = [op[o] EXCEPT !.pc = "clean_fetch", !.keys = {}, !.man = FALSE]
      BY <2>5, RetentionDeleteBecomes, BecomesIt
    <3>2. op'[o].pc = "clean_fetch"
      BY <1>0, <3>1 DEF OpState
    <3>3. remote' = remote \/ remote' = [remote EXCEPT ![op[o].bk] = NoManifest]
      BY <2>5 DEF CleanDelete
    <3>4. Shrinks
      BY <1>0, <3>3 DEF Shrinks
    <3> QED
      BY <2>0, <2>5, <3>1, <3>2, <3>4 DEF CleanDelete, Quiet, Becomes, Uploading
  <2>6. CASE CleanDone(o)
    BY <1>3, <2>6, StopSteps
  <2> QED
    BY <1>3, <2>1, <2>2, <2>3, <2>4, <2>5, <2>6 DEF AdminStep
<1> QED
    BY <1>1, <1>2, <1>3

ManifestInv == PublishInv /\ PlainInv /\ YoungInv

LEMMA QuietManifests ==
    ASSUME TypeOK, ManifestInv, NEW o \in Op, Quiet(o)
    PROVE  ManifestInv'
<1>0. /\ \A q \in Op : op'[q].pc \notin Uploading \/ op'[q] = op[q]
      /\ commands' = commands /\ local' = local /\ young' = young
      /\ \A b \in Backup : remote'[b] \in {NoManifest, remote[b]}
    BY DEF Quiet, Shrinks
<1>1. PublishInv'
  <2> SUFFICES ASSUME Fresh
               PROVE  PublishInv'
    BY <1>0 DEF PublishInv, Fresh
  <2>1. \A q \in Op : PublishOK(op'[q])
    BY <1>0 DEF ManifestInv, PublishInv, PublishOK, Uploading
  <2> QED
    BY <1>0, <2>1 DEF ManifestInv, PublishInv, PublishOK, Accounted, Created, Valid, Complete
<1>2. PlainInv'
  <2> SUFFICES ASSUME Plain
               PROVE  PlainInv'
    BY <1>0 DEF PlainInv, Plain
  <2>1. \A q \in Op : PlainOK(op'[q])
    BY <1>0 DEF ManifestInv, PlainInv, PlainOK, Uploading
  <2> QED
    BY <1>0, <2>1 DEF ManifestInv, PlainInv, PlainOK, Accounted, Created, Valid, OwnKeys
<1>3. YoungInv'
  <2>1. \A q \in Op : YoungOK(op'[q])
    BY <1>0 DEF ManifestInv, YoungInv, YoungOK, Uploading
  <2> QED
    BY <1>0, <2>1 DEF YoungInv, YoungOK
<1> QED
    BY <1>1, <1>2, <1>3 DEF ManifestInv

(* A step of an upload that changes no manifest on disk or on S3. *)
LEMMA WorkerManifests ==
    ASSUME ManifestInv, NEW o \in Op, Becomes(o, op'[o]),
           UNCHANGED <<commands, local, remote>>, young \subseteq young',
           Fresh => PublishOK(op'[o]),
           Plain => PlainOK(op'[o]),
           op'[o].pc \in {"parts", "publish"} /\ op'[o].done # {} => op'[o].bk \in young'
    PROVE  ManifestInv'
<1>0. \A q \in Op : q # o => op'[q] = op[q]
    BY DEF Becomes
<1>1. PublishInv'
  <2> SUFFICES ASSUME Fresh
               PROVE  PublishInv'
    BY DEF PublishInv, Fresh
  <2>1. \A q \in Op : PublishOK(op'[q])
    BY <1>0 DEF ManifestInv, PublishInv
  <2> QED
    BY <2>1 DEF ManifestInv, PublishInv, PublishOK, Accounted, Created, Valid
<1>2. PlainInv'
  <2> SUFFICES ASSUME Plain
               PROVE  PlainInv'
    BY DEF PlainInv, Plain
  <2>1. \A q \in Op : PlainOK(op'[q])
    BY <1>0 DEF ManifestInv, PlainInv
  <2> QED
    BY <2>1 DEF ManifestInv, PlainInv, PlainOK, Accounted, Created, Valid
<1>3. YoungInv'
    BY <1>0 DEF ManifestInv, YoungInv, YoungOK
<1> QED
    BY <1>1, <1>2, <1>3 DEF ManifestInv

(* What an upload loads is prepared: all parts without a key are its own.  *)
LEMMA LoadedManifest ==
    ASSUME TypeOK, ManifestInv, NEW o \in Op, NEW b \in Backup,
           NEW base \in Backup \cup {Own}, NEW resume \in BOOLEAN,
           UploadStart(o, b, base, resume)
    PROVE  /\ Fresh => Prepared(Loaded(b, base))
           /\ Plain => OwnKeys(b, Loaded(b, base))
           /\ "resume" \notin commands => Accounted(Started(b, base, resume))
<1>0. b \in Created /\ base \in Valid \cup {Own}
    BY DEF UploadStart
<1>1. local[b] \in SUBSET Entry /\ (base # Own => base \in Backup /\ remote[base] \in SUBSET Entry)
    BY <1>0 DEF TypeOK, Valid
<1>2. ASSUME Fresh
      PROVE  Prepared(Loaded(b, base))
  <2>1. Prepared(local[b]) /\ (base # Own => Complete(remote[base]))
    BY <1>0, <1>2 DEF ManifestInv, PublishInv
  <2>2. CASE base = Own
    BY <2>1, <2>2 DEF Loaded
  <2>3. CASE base # Own
    <3>1. SUFFICES ASSUME NEW e \in diff_parts(local[b], base, remote[base])
                   PROVE  e.source = Own \/ e.key # NoKey
      BY <2>3 DEF Loaded, Prepared
    <3>2. e \in local[b] \/ \E f \in remote[base] : e.key = f.key
      BY <1>1, <2>3, DiffEntries
    <3> QED
      BY <2>1, <2>3, <3>2 DEF Prepared, Complete
  <2> QED
    BY <2>2, <2>3
<1>3. ASSUME Plain
      PROVE  OwnKeys(b, Loaded(b, base))
  <2>1. base = Own
    BY <1>3 DEF Plain, UploadStart
  <2> QED
    BY <1>0, <1>3, <2>1 DEF Loaded, ManifestInv, PlainInv
<1>4. ASSUME "resume" \notin commands
      PROVE  Accounted(Started(b, base, resume))
  <2> DEFINE m == Loaded(b, base)
             n == Started(b, base, resume)
  <2>1. resume = FALSE
    BY <1>4 DEF UploadStart
  <2>2. ResumedKeys(b, base, resume) = {}
    BY <2>1 DEF ResumedKeys
  <2>3. n.mem = m /\ n.pend = WorkList(b, m, {})
    BY <2>2 DEF Started, Blank
  <2> HIDE DEF m, n
  <2>4. \A e \in m : e.source = Own => e.part \in WorkList(b, m, {})
    BY DEF WorkList
  <2>5. Accounted(n)
    BY <2>3, <2>4 DEF Accounted
  <2> QED
    BY <2>5 DEF n
<1> QED
    BY <1>2, <1>3, <1>4

LEMMA ManifestStep ==
    ASSUME TypeOK, LockInv, ManifestInv, [Next]_vars
    PROVE  ManifestInv'
<1> USE StoreAssumption
<1>0. op \in [Op -> OpState] /\ DOMAIN local = Backup /\ DOMAIN remote = Backup
    BY DEF TypeOK
<1>1. ASSUME NEW b \in Backup, NEW P \in SUBSET Part, NEW base \in Backup \cup {Own},
             Create(b, P, base)
      PROVE  ManifestInv'
  <2> DEFINE fresh == {[part |-> p, source |-> Own, key |-> NoKey] : p \in P}
  <2>0. UNCHANGED <<commands, remote, young, op>>
    BY <1>1 DEF Create
  <2>1. Fresh \/ Plain => local' = [local EXCEPT ![b] = fresh]
    BY <1>1 DEF Create, Fresh, Plain
  <2>2. Prepared(fresh) /\ OwnKeys(b, fresh)
    BY DEF Prepared, OwnKeys
  <2> HIDE DEF fresh
  <2>3. PublishInv'
    <3> SUFFICES ASSUME Fresh
                 PROVE  PublishInv'
      BY <2>0 DEF PublishInv, Fresh
    <3>1. \A c \in Backup : local'[c] # NoManifest => Prepared(local'[c])
      BY <1>0, <2>1, <2>2 DEF ManifestInv, PublishInv, Created
    <3> QED
      BY <2>0, <3>1 DEF ManifestInv, PublishInv, PublishOK, Accounted, Created, Valid
  <2>4. PlainInv'
    <3> SUFFICES ASSUME Plain
                 PROVE  PlainInv'
      BY <2>0 DEF PlainInv, Plain
    <3>1. \A c \in Backup : local'[c] # NoManifest => OwnKeys(c, local'[c])
      BY <1>0, <2>1, <2>2 DEF ManifestInv, PlainInv, Created
    <3> QED
      BY <2>0, <3>1 DEF ManifestInv, PlainInv, PlainOK, Accounted, Created, Valid
  <2>5. YoungInv'
    BY <2>0 DEF ManifestInv, YoungInv, YoungOK
  <2> QED
    BY <2>3, <2>4, <2>5 DEF ManifestInv
<1>2. ASSUME NEW o \in Op, NEW b \in Backup, NEW base \in Backup \cup {Own},
             NEW resume \in BOOLEAN, UploadStart(o, b, base, resume)
      PROVE  ManifestInv'
  <2> DEFINE m == Loaded(b, base)
             n == Started(b, base, resume)
  <2>0. UNCHANGED <<commands, remote, young>>
    BY <1>2 DEF UploadStart
  <2>1. Becomes(o, n) /\ local' = [local EXCEPT ![b] = m] /\ m \in SUBSET Entry
    BY <1>2, UploadStartBecomes
  <2>2. op'[o] = n /\ \A q \in Op : q # o => op'[q] = op[q]
    BY <2>1, BecomesIt
  <2>3. n.pc = "parts" /\ n.bk = b /\ n.mem = m /\ n.done = {}
    BY DEF Started, Blank
  <2>4. /\ Fresh => Prepared(m)
        /\ Plain => OwnKeys(b, m)
        /\ "resume" \notin commands => Accounted(n)
    BY <1>2, LoadedManifest
  <2> HIDE DEF m, n
  <2>5. PublishInv'
    <3> SUFFICES ASSUME Fresh
                 PROVE  PublishInv'
      BY <2>0 DEF PublishInv, Fresh
    <3>0. "resume" \notin commands
      BY DEF Fresh
    <3>1. \A c \in Backup : local'[c] # NoManifest => Prepared(local'[c])
      BY <1>0, <2>1, <2>4 DEF ManifestInv, PublishInv, Created
    <3>2. PublishOK(n)
      BY <2>3, <2>4, <3>0 DEF PublishOK
    <3>3. \A q \in Op : PublishOK(op'[q])
      BY <2>2, <3>2 DEF ManifestInv, PublishInv
    <3> QED
      BY <2>0, <3>1, <3>3 DEF ManifestInv, PublishInv, PublishOK, Accounted, Created, Valid
  <2>6. PlainInv'
    <3> SUFFICES ASSUME Plain
                 PROVE  PlainInv'
      BY <2>0 DEF PlainInv, Plain
    <3>0. "resume" \notin commands
      BY DEF Plain
    <3>1. \A c \in Backup : local'[c] # NoManifest => OwnKeys(c, local'[c])
      BY <1>0, <2>1, <2>4 DEF ManifestInv, PlainInv, Created
    <3>2. PlainOK(n)
      BY <2>3, <2>4, <3>0 DEF PlainOK
    <3>3. \A q \in Op : PlainOK(op'[q])
      BY <2>2, <3>2 DEF ManifestInv, PlainInv
    <3> QED
      BY <2>0, <3>1, <3>3 DEF ManifestInv, PlainInv, PlainOK, Accounted, Created, Valid
  <2>7. YoungInv'
    BY <2>0, <2>2, <2>3 DEF ManifestInv, YoungInv, YoungOK
  <2> QED
    BY <2>5, <2>6, <2>7 DEF ManifestInv
<1>3. ASSUME NEW o \in Op, UploadStep(o)
      PROVE  ManifestInv'
  <2>0. /\ op[o] \in OpState /\ YoungOK(op[o])
        /\ Fresh => PublishOK(op[o])
        /\ Plain => PlainOK(op[o])
    BY <1>0 DEF ManifestInv, PublishInv, PlainInv, YoungInv
  <2>1. ASSUME NEW p \in Part, UploadPart(o, p)
        PROVE  ManifestInv'
    <3> DEFINE k == <<op[o].bk, p>>
    <3>1. /\ Becomes(o, op'[o])
          /\ op'[o] = [op[o] EXCEPT !.pend = @ \ {p}, !.done = @ \cup {p},
                                    !.completed = @ \cup {k}]
      BY <2>1, UploadPartBecomes, BecomesIt
    <3> HIDE DEF k
    <3>2. /\ op'[o].pc = op[o].pc /\ op'[o].bk = op[o].bk /\ op'[o].mem = op[o].mem
          /\ op'[o].pend = op[o].pend \ {p} /\ op'[o].done = op[o].done \cup {p}
          /\ op'[o].failed = op[o].failed /\ op'[o].killed = op[o].killed
      BY <2>0, <3>1 DEF OpState
    <3>3. /\ op[o].pc = "parts" /\ young' = young \cup {op[o].bk}
          /\ UNCHANGED <<commands, local, remote>>
      BY <2>1 DEF UploadPart
    <3>4. Accounted(op[o]) => Accounted(op'[o])
      BY <3>2 DEF Accounted
    <3>5. (Fresh => PublishOK(op'[o])) /\ (Plain => PlainOK(op'[o]))
      BY <2>0, <3>2, <3>3, <3>4 DEF PublishOK, PlainOK, Uploading
    <3> QED
      BY <3>1, <3>2, <3>3, <3>5, WorkerManifests
  <2>2. ASSUME NEW p \in Part, PartCancelled(o, p) \/ PartFails(o, p)
        PROVE  ManifestInv'
    <3>1. /\ Becomes(o, op'[o])
          /\ \/ op'[o] = [op[o] EXCEPT !.pend = @ \ {p}] /\ op[o].killed
             \/ op'[o] = [op[o] EXCEPT !.pend = @ \ {p}, !.failed = TRUE]
      BY <2>2, PartEndsBecomes, BecomesIt DEF PartCancelled
    <3>2. /\ op'[o].pc = op[o].pc /\ op'[o].bk = op[o].bk /\ op'[o].mem = op[o].mem
          /\ op'[o].done = op[o].done /\ (op'[o].failed \/ op'[o].killed)
      <4>1. CASE op'[o] = [op[o] EXCEPT !.pend = @ \ {p}] /\ op[o].killed
        BY <2>0, <4>1 DEF OpState
      <4>2. CASE op'[o] = [op[o] EXCEPT !.pend = @ \ {p}, !.failed = TRUE]
        BY <2>0, <4>2 DEF OpState
      <4> QED
        BY <3>1, <4>1, <4>2
    <3>3. /\ op[o].pc = "parts" /\ young' = young
          /\ UNCHANGED <<commands, local, remote>>
      BY <2>2 DEF PartCancelled, PartFails
    <3>4. Accounted(op'[o])
      BY <3>2 DEF Accounted
    <3>5. (Fresh => PublishOK(op'[o])) /\ (Plain => PlainOK(op'[o]))
      BY <2>0, <3>2, <3>3, <3>4 DEF PublishOK, PlainOK, Uploading
    <3> QED
      BY <2>0, <3>1, <3>2, <3>3, <3>5, WorkerManifests DEF YoungOK
  <2>3. CASE Join(o)
    <3>1. CASE op[o].failed \/ op[o].killed
      BY <2>3, <3>1, StopSteps, QuietSteps, QuietManifests
    <3>2. CASE ~(op[o].failed \/ op[o].killed)
      <4> DEFINE m == Merged(op[o])
      <4>0. /\ op[o].pc = "parts" /\ op[o].pend = {}
            /\ UNCHANGED <<commands, local, remote, young>>
        BY <2>3 DEF Join
      <4>1. /\ Becomes(o, op'[o])
            /\ op'[o] = [op[o] EXCEPT !.pc = "publish", !.mem = m]
        BY <2>3, <3>2, JoinBecomes, BecomesIt
      <4>2. op[o].bk \in Backup
        BY <4>0 DEF LockInv, Uploading
      <4>3. \A e \in m : /\ e \in Entry
                         /\ \/ e \in op[o].mem /\ e.part \notin op[o].done
                            \/ /\ e.part \in op[o].done /\ e.source = Own
                               /\ e.key = <<op[o].bk, e.part>>
        BY <2>0, <4>2, MergedEntries
      <4> HIDE DEF m
      <4>4. /\ op'[o].pc = "publish" /\ op'[o].bk = op[o].bk /\ op'[o].mem = m
            /\ op'[o].done = op[o].done
        BY <2>0, <4>1 DEF OpState
      <4>5. ASSUME Fresh
            PROVE  PublishOK(op'[o])
        <5>1. Prepared(op[o].mem) /\ Accounted(op[o])
          BY <2>0, <4>0, <4>5 DEF PublishOK
        <5>2. SUFFICES ASSUME NEW e \in m
                       PROVE  e.key # NoKey
          BY <4>4 DEF PublishOK, Complete
        <5>3. CASE e \in op[o].mem /\ e.part \notin op[o].done
          BY <3>2, <4>0, <5>1, <5>3 DEF Prepared, Accounted
        <5>4. CASE e.part \in op[o].done /\ e.key = <<op[o].bk, e.part>>
          <6>1. e.part \in Part
            BY <4>3 DEF Entry
          <6> QED
            BY <4>2, <5>4, <6>1 DEF Key
        <5> QED
          BY <4>3, <5>3, <5>4
      <4>6. ASSUME Plain
            PROVE  PlainOK(op'[o])
        <5>1. OwnKeys(op[o].bk, op[o].mem) /\ Accounted(op[o])
          BY <2>0, <4>0, <4>6 DEF PlainOK, Uploading
        <5>2. \A e \in m : e.part \in op[o].done
          BY <3>2, <4>0, <4>3, <5>1 DEF OwnKeys, Accounted
        <5>3. OwnKeys(op[o].bk, m)
          BY <4>3, <5>1 DEF OwnKeys
        <5> QED
          BY <4>4, <5>2, <5>3 DEF PlainOK
      <4> QED
        BY <2>0, <4>0, <4>1, <4>4, <4>5, <4>6, WorkerManifests DEF YoungOK
    <3> QED
      BY <3>1, <3>2
  <2>4. CASE Publish(o)
    <3>0. /\ op[o].pc = "publish" /\ op[o].bk \in Backup
          /\ remote' = [remote EXCEPT ![op[o].bk] = op[o].mem]
          /\ young' = young \cup {op[o].bk}
          /\ UNCHANGED <<commands, local>>
      BY <2>4 DEF Publish, LockInv, Uploading
    <3>1. /\ op'[o] = [op[o] EXCEPT !.pc = "save"] /\ \A q \in Op : q # o => op'[q] = op[q]
      BY <2>4, PublishBecomes, BecomesIt
    <3>2. op'[o].pc = "save" /\ op'[o].bk = op[o].bk /\ op'[o].mem = op[o].mem
      BY <2>0, <3>1 DEF OpState
    <3>3. PublishInv'
      <4> SUFFICES ASSUME Fresh
                   PROVE  PublishInv'
        BY <3>0 DEF PublishInv, Fresh
      <4>1. Complete(op[o].mem)
        BY <2>0, <3>0 DEF PublishOK
      <4>2. \A c \in Backup : remote'[c] # NoManifest => Complete(remote'[c])
        BY <1>0, <3>0, <4>1 DEF ManifestInv, PublishInv, Valid
      <4>3. \A q \in Op : PublishOK(op'[q])
        BY <3>1, <3>2, <4>1 DEF ManifestInv, PublishInv, PublishOK
      <4> QED
        BY <3>0, <4>2, <4>3 DEF ManifestInv, PublishInv, PublishOK, Accounted, Created, Valid
    <3>4. PlainInv'
      <4> SUFFICES ASSUME Plain
                   PROVE  PlainInv'
        BY <3>0 DEF PlainInv, Plain
      <4>1. OwnKeys(op[o].bk, op[o].mem)
        BY <2>0, <3>0 DEF PlainOK, Uploading
      <4>2. \A c \in Backup : remote'[c] # NoManifest => OwnKeys(c, remote'[c])
        BY <1>0, <3>0, <4>1 DEF ManifestInv, PlainInv, Valid
      <4>3. \A q \in Op : PlainOK(op'[q])
        BY <3>1, <3>2, <4>1 DEF ManifestInv, PlainInv, PlainOK
      <4> QED
        BY <3>0, <4>2, <4>3 DEF ManifestInv, PlainInv, PlainOK, Accounted, Created, Valid
    <3>5. YoungInv'
      BY <3>0, <3>1, <3>2 DEF ManifestInv, YoungInv, YoungOK
    <3> QED
      BY <3>3, <3>4, <3>5 DEF ManifestInv
  <2>5. CASE SaveLocal(o)
    <3>0. /\ op[o].pc = "save" /\ op[o].bk \in Backup
          /\ local' = [local EXCEPT ![op[o].bk] = op[o].mem]
          /\ UNCHANGED <<commands, remote, young>>
      BY <2>5 DEF SaveLocal, LockInv, Uploading
    <3>1. /\ op'[o].pc \notin Uploading /\ \A q \in Op : q # o => op'[q] = op[q]
      <4>1. CASE op[o].killed \/ Keep = 0
        <5>1. op'[o] = Blank /\ \A q \in Op : q # o => op'[q] = op[q]
          BY <2>5, <4>1, SaveLocalBecomes, BecomesIt
        <5> QED
          BY <5>1 DEF Blank, Uploading
      <4>2. CASE ~(op[o].killed \/ Keep = 0)
        <5>1. /\ op'[o] = [Blank EXCEPT !.pc = "retain", !.bk = op[o].bk, !.lock = op[o].lock]
              /\ \A q \in Op : q # o => op'[q] = op[q]
          BY <2>5, <4>2, SaveLocalBecomes, BecomesIt
        <5> QED
          BY <5>1 DEF Blank, Uploading
      <4> QED
        BY <4>1, <4>2
    <3>2. PublishInv'
      <4> SUFFICES ASSUME Fresh
                   PROVE  PublishInv'
        BY <3>0 DEF PublishInv, Fresh
      <4>1. Prepared(op[o].mem)
        BY <2>0, <3>0 DEF PublishOK, Complete, Prepared
      <4>2. \A c \in Backup : local'[c] # NoManifest => Prepared(local'[c])
        BY <1>0, <3>0, <4>1 DEF ManifestInv, PublishInv, Created
      <4>3. \A q \in Op : PublishOK(op'[q])
        BY <3>1 DEF ManifestInv, PublishInv, PublishOK, Uploading
      <4> QED
        BY <3>0, <4>2, <4>3 DEF ManifestInv, PublishInv, PublishOK, Accounted, Created, Valid
    <3>3. PlainInv'
      <4> SUFFICES ASSUME Plain
                   PROVE  PlainInv'
        BY <3>0 DEF PlainInv, Plain
      <4>1. OwnKeys(op[o].bk, op[o].mem)
        BY <2>0, <3>0 DEF PlainOK, Uploading
      <4>2. \A c \in Backup : local'[c] # NoManifest => OwnKeys(c, local'[c])
        BY <1>0, <3>0, <4>1 DEF ManifestInv, PlainInv, Created
      <4>3. \A q \in Op : PlainOK(op'[q])
        BY <3>1 DEF ManifestInv, PlainInv, PlainOK, Uploading
      <4> QED
        BY <3>0, <4>2, <4>3 DEF ManifestInv, PlainInv, PlainOK, Accounted, Created, Valid
    <3>4. YoungInv'
      BY <3>0, <3>1 DEF ManifestInv, YoungInv, YoungOK, Uploading
    <3> QED
      BY <3>2, <3>3, <3>4 DEF ManifestInv
  <2>6. CASE UploadFails(o)
    BY <2>6, StopSteps, QuietSteps, QuietManifests
  <2>7. CASE Kill(o)
    <3>0. UNCHANGED <<commands, local, remote, young>>
      BY <2>7 DEF Kill
    <3>1. /\ op'[o] = [op[o] EXCEPT !.killed = TRUE, !.lock = NoLock] /\ Becomes(o, op'[o])
      BY <2>7, PublishBecomes, BecomesIt
    <3>2. /\ op'[o].pc = op[o].pc /\ op'[o].bk = op[o].bk /\ op'[o].mem = op[o].mem
          /\ op'[o].done = op[o].done /\ op'[o].killed = TRUE
      BY <2>0, <3>1 DEF OpState
    <3>3. Accounted(op'[o])
      BY <3>2 DEF Accounted
    <3>4. (Fresh => PublishOK(op'[o])) /\ (Plain => PlainOK(op'[o]))
      BY <2>0, <3>2, <3>3 DEF PublishOK, PlainOK
    <3> QED
      BY <2>0, <3>0, <3>1, <3>2, <3>4, WorkerManifests DEF YoungOK
  <2> QED
    BY <1>3, <2>1, <2>2, <2>3, <2>4, <2>5, <2>6, <2>7 DEF UploadStep
<1>4. ASSUME NEW o \in Op, RetentionStep(o) \/ AdminStep(o) \/ Crash(o)
      PROVE  ManifestInv'
    BY <1>4, StopSteps, QuietSteps, QuietManifests
<1>5. ASSUME NEW b \in Backup, Age(b)
      PROVE  ManifestInv'
  <2>0. /\ UNCHANGED <<commands, local, remote, op>> /\ young' = young \ {b}
        /\ \A o \in Op : op[o].bk = b => op[o].pc \notin {"parts", "publish"}
    BY <1>5 DEF Age
  <2>1. PublishInv'
    BY <2>0 DEF ManifestInv, PublishInv, Fresh, PublishOK, Accounted, Created, Valid
  <2>2. PlainInv'
    BY <2>0 DEF ManifestInv, PlainInv, Plain, PlainOK, Accounted, Created, Valid
  <2>3. YoungInv'
    BY <2>0 DEF ManifestInv, YoungInv, YoungOK
  <2> QED
    BY <2>1, <2>2, <2>3 DEF ManifestInv
<1>6. CASE UNCHANGED vars
  <2>0. UNCHANGED <<commands, local, remote, op, young>>
    BY <1>6 DEF vars
  <2>1. PublishInv'
    BY <2>0 DEF ManifestInv, PublishInv, Fresh, PublishOK, Accounted, Created, Valid
  <2>2. PlainInv'
    BY <2>0 DEF ManifestInv, PlainInv, Plain, PlainOK, Accounted, Created, Valid
  <2>3. YoungInv'
    BY <2>0 DEF ManifestInv, YoungInv, YoungOK
  <2> QED
    BY <2>1, <2>2, <2>3 DEF ManifestInv
<1> QED
    BY <1>1, <1>2, <1>3, <1>4, <1>5, <1>6 DEF Next

-----------------------------------------------------------------------------
(* clean_broken *)

(* While a cleaner runs, nobody else holds a lock: what else runs is an    *)
(* upload that was killed, and then no manifest reaches beyond its prefix. *)
LEMMA CleanerAlone ==
    ASSUME TypeOK, LockInv, NEW c \in Op, op[c].pc \in Cleaning, NEW q \in Op, q # c
    PROVE  /\ op[q].lock = NoLock /\ op[q].pc \notin Cleaning \cup Retaining
           /\ op[q].pc \in Uploading => op[q].killed /\ (Attached => Plain)
<1>1. op[q].lock = NoLock
    BY DEF LockInv
<1>2. op[q].pc \notin Cleaning \cup Retaining
    BY <1>1, BackupFacts DEF LockInv
<1>3. op[q].pc \in Uploading => op[q].killed
    BY <1>1, BackupFacts DEF LockInv
<1>4. op[q].killed => (Attached => Plain)
    BY DEF LockInv, Attached, OneCommand
<1> QED
    BY <1>1, <1>2, <1>3, <1>4

(* A killed upload about to publish names keys of one young prefix only.   *)
LEMMA PublisherYoung ==
    ASSUME TypeOK, LockInv, ManifestInv, Plain, NEW q \in Op, op[q].pc = "publish",
           NEW k \in KeysOf(op[q].mem) \cup {<<op[q].bk, p>> : p \in op[q].done}
    PROVE  k[1] = op[q].bk /\ op[q].bk \in young
<1>1. PlainOK(op[q]) /\ YoungOK(op[q])
    BY DEF ManifestInv, PlainInv, YoungInv
<1>2. CASE k \in KeysOf(op[q].mem)
  <2>1. PICK e \in op[q].mem : e.key = k /\ k # NoKey
    BY <1>2 DEF KeysOf
  <2>2. e.part \in op[q].done /\ k[1] = op[q].bk
    BY <1>1, <2>1 DEF PlainOK, OwnKeys, Uploading
  <2> QED
    BY <1>1, <2>2 DEF YoungOK
<1>3. CASE k \in {<<op[q].bk, p>> : p \in op[q].done}
    BY <1>1, <1>3 DEF YoungOK
<1> QED
    BY <1>2, <1>3

LEMMA NoCleaner ==
    ASSUME \A q \in Op : op'[q].pc \notin Cleaning
    PROVE  CleanInv'
BY DEF CleanInv, CleanOK, Cleaning

(* A step of a command that neither cleans nor gets to its publication.    *)
LEMMA Bystander ==
    ASSUME TypeOK, CleanInv, NEW o \in Op, \A q \in Op : q # o => op'[q] = op[q],
           op'[o].pc \notin Cleaning,
           op'[o].pc = "publish" =>
               /\ op[o].pc = "publish" /\ op'[o].mem = op[o].mem
               /\ op'[o].bk = op[o].bk /\ op'[o].done = op[o].done,
           young \subseteq young', Shrinks, commands' = commands,
           misreads' = 0 => misreads = 0
    PROVE  CleanInv'
<1> SUFFICES ASSUME misreads' = 0, Attached', NEW c \in Op, op'[c].pc \in Cleaning
             PROVE  CleanOK(c)'
    BY DEF CleanInv, CleanOK, Cleaning
<1>0. \A b \in Backup : remote'[b] \in {NoManifest, remote[b]}
    BY DEF Shrinks
<1>1. op'[c] = op[c] /\ c # o /\ misreads = 0 /\ Attached
    BY DEF Attached, Plain
<1>2. CleanOK(c)
    BY <1>1 DEF CleanInv
<1>3. Covered(c)'
    BY <1>0, <1>1, <1>2 DEF CleanOK, Covered, Valid
<1>4. op'[c].pc = "clean_delete" => SparesUploads(c)'
  <2> SUFFICES ASSUME op[c].pc = "clean_delete", NEW q \in Op, op'[q].pc = "publish"
               PROVE  op[c].keys \cap (KeysOf(op'[q].mem)
                                          \cup {<<op'[q].bk, p>> : p \in op'[q].done}) = {}
    BY <1>1 DEF SparesUploads
  <2>1. /\ op[q].pc = "publish" /\ op'[q].mem = op[q].mem
        /\ op'[q].bk = op[q].bk /\ op'[q].done = op[q].done
    OBVIOUS
  <2> QED
    BY <1>2, <2>1 DEF CleanOK, SparesUploads
<1>5. op'[c].pc = "clean_delete" => SparesBackups(c)'
    BY <1>0, <1>1, <1>2 DEF CleanOK, SparesBackups, Valid
<1> QED
    BY <1>3, <1>4, <1>5 DEF CleanOK

(* A step of the cleaner itself: it is the only one. *)
LEMMA CleanerStep ==
    ASSUME TypeOK, LockInv, NEW o \in Op, \A q \in Op : q # o => op'[q] = op[q],
           op[o].pc \in Cleaning, commands' = commands, misreads' = misreads,
           misreads = 0 /\ Attached => CleanOK(o)'
    PROVE  CleanInv'
<1> SUFFICES ASSUME misreads' = 0, Attached', NEW c \in Op, op'[c].pc \in Cleaning
             PROVE  CleanOK(c)'
    BY DEF CleanInv, CleanOK, Cleaning
<1>1. Attached /\ misreads = 0
    BY DEF Attached, Plain
<1>2. c = o
    BY CleanerAlone
<1> QED
    BY <1>1, <1>2

LEMMA CleanStep ==
    ASSUME TypeOK, LockInv, ManifestInv, CleanInv, [Next]_vars
    PROVE  CleanInv'
<1>0. op \in [Op -> OpState] /\ DOMAIN remote = Backup
    BY DEF TypeOK
<1>1. ASSUME NEW b \in Backup, NEW P \in SUBSET Part, NEW base \in Backup \cup {Own},
             Create(b, P, base)
      PROVE  CleanInv'
    BY <1>1 DEF Create, CleanInv, Attached, Plain, CleanOK, Covered, SparesUploads,
                SparesBackups, Valid
<1>2. ASSUME NEW o \in Op, NEW b \in Backup, NEW base \in Backup \cup {Own},
             NEW resume \in BOOLEAN, UploadStart(o, b, base, resume)
      PROVE  CleanInv'
  <2> DEFINE n == Started(b, base, resume)
  <2>1. op'[o] = n /\ \A q \in Op : q # o => op'[q] = op[q]
    BY <1>2, UploadStartBecomes, BecomesIt
  <2>2. n.pc = "parts"
    BY DEF Started, Blank
  <2>3. \A q \in Op : op[q].lock # Global
    BY <1>2, BackupFacts DEF UploadStart, LockFree
  <2> HIDE DEF n
  <2>4. \A q \in Op : op'[q].pc \notin Cleaning
    BY <2>1, <2>2, <2>3 DEF LockInv, Cleaning
  <2> QED
    BY <2>4, NoCleaner
<1>3. ASSUME NEW o \in Op, UploadStep(o)
      PROVE  CleanInv'
  <2>0. op[o] \in OpState
    BY <1>0
  <2>1. ASSUME NEW p \in Part, UploadPart(o, p)
        PROVE  CleanInv'
    <3> DEFINE k == <<op[o].bk, p>>
    <3>1. /\ op'[o] = [op[o] EXCEPT !.pend = @ \ {p}, !.done = @ \cup {p},
                                    !.completed = @ \cup {k}]
          /\ \A q \in Op : q # o => op'[q] = op[q]
      BY <2>1, UploadPartBecomes, BecomesIt
    <3> HIDE DEF k
    <3>2. op'[o].pc = op[o].pc
      BY <2>0, <3>1 DEF OpState
    <3>3. /\ op[o].pc = "parts" /\ young \subseteq young'
          /\ UNCHANGED <<commands, remote, misreads>>
      BY <2>1 DEF UploadPart
    <3> QED
      BY <3>1, <3>2, <3>3, Bystander DEF Shrinks, Cleaning
  <2>2. ASSUME NEW p \in Part, PartCancelled(o, p) \/ PartFails(o, p)
        PROVE  CleanInv'
    <3>1. /\ \/ op'[o] = [op[o] EXCEPT !.pend = @ \ {p}]
             \/ op'[o] = [op[o] EXCEPT !.pend = @ \ {p}, !.failed = TRUE]
          /\ \A q \in Op : q # o => op'[q] = op[q]
      BY <2>2, PartEndsBecomes, BecomesIt
    <3>2. op'[o].pc = op[o].pc
      BY <2>0, <3>1 DEF OpState
    <3>3. /\ op[o].pc = "parts" /\ UNCHANGED <<commands, remote, misreads, young>>
      BY <2>2 DEF PartCancelled, PartFails
    <3> QED
      BY <3>1, <3>2, <3>3, Bystander DEF Shrinks, Cleaning
  <2>3. CASE Stops(o)
    <3>1. op'[o] = Blank /\ \A q \in Op : q # o => op'[q] = op[q]
      BY <2>3, BecomesIt DEF Stops
    <3>2. op'[o].pc = "idle"
      BY <3>1 DEF Blank
    <3> QED
      BY <2>3, <3>1, <3>2, Bystander DEF Stops, Shrinks, Cleaning
  <2>4. CASE Join(o)
    <3>1. CASE op[o].failed \/ op[o].killed
      BY <2>3, <2>4, <3>1, StopSteps
    <3>2. CASE ~(op[o].failed \/ op[o].killed)
      <4> DEFINE m == Merged(op[o])
      <4>1. /\ op'[o] = [op[o] EXCEPT !.pc = "publish", !.mem = m]
            /\ \A q \in Op : q # o => op'[q] = op[q]
        BY <2>4, <3>2, JoinBecomes, BecomesIt
      <4> HIDE DEF m
      <4>2. op'[o].pc = "publish"
        BY <2>0, <4>1 DEF OpState
      <4>3. op[o].pc \in Uploading
        BY <2>4 DEF Join, Uploading
      <4>4. \A q \in Op : op'[q].pc \notin Cleaning
        BY <3>2, <4>1, <4>2, <4>3, CleanerAlone DEF Cleaning
      <4> QED
        BY <4>4, NoCleaner
    <3> QED
      BY <3>1, <3>2
  <2>5. CASE Publish(o)
    <3> SUFFICES ASSUME misreads' = 0, Attached', NEW c \in Op, op'[c].pc \in Cleaning
                 PROVE  CleanOK(c)'
      BY DEF CleanInv, CleanOK, Cleaning
    <3>0. /\ op[o].pc = "publish" /\ op[o].bk \in Backup
          /\ remote' = [remote EXCEPT ![op[o].bk] = op[o].mem]
          /\ young' = young \cup {op[o].bk}
          /\ UNCHANGED <<commands, misreads>>
      BY <2>5 DEF Publish, LockInv, Uploading
    <3>1. /\ op'[o] = [op[o] EXCEPT !.pc = "save"] /\ \A q \in Op : q # o => op'[q] = op[q]
      BY <2>5, PublishBecomes, BecomesIt
    <3>2. op'[o].pc = "save"
      BY <2>0, <3>1 DEF OpState
    <3>3. op'[c] = op[c] /\ c # o
      BY <3>1, <3>2 DEF Cleaning
    <3>4. Attached /\ misreads = 0 /\ Plain
      BY <3>0, <3>3, CleanerAlone DEF Attached, Plain, Uploading
    <3>5. CleanOK(c)
      BY <3>4 DEF CleanInv
    <3>6. Covered(c)'
      <4> SUFFICES ASSUME NEW b \in Backup, remote'[b] # NoManifest
                   PROVE  \/ b \in op[c].fetch
                          \/ KeysOf(remote'[b]) \subseteq op[c].prot
                          \/ \A k \in KeysOf(remote'[b]) : k[1] \in young'
        BY <3>3 DEF Covered, Valid
      <4>1. CASE b = op[o].bk
        BY <1>0, <3>0, <3>4, <4>1, PublisherYoung
      <4>2. CASE b # op[o].bk
        <5>1. b \in Valid /\ remote'[b] = remote[b]
          BY <1>0, <3>0, <4>2 DEF Valid
        <5> QED
          BY <3>0, <3>3, <3>5, <5>1 DEF CleanOK, Covered
      <4> QED
        BY <4>1, <4>2
    <3>7. op'[c].pc = "clean_delete" => SparesUploads(c)'
      <4> SUFFICES ASSUME op[c].pc = "clean_delete", NEW q \in Op, op'[q].pc = "publish"
                   PROVE  op[c].keys \cap (KeysOf(op'[q].mem)
                                              \cup {<<op'[q].bk, p>> : p \in op'[q].done}) = {}
        BY <3>3 DEF SparesUploads
      <4>1. q # o /\ op'[q] = op[q]
        BY <3>1, <3>2
      <4> QED
        BY <3>5, <4>1 DEF CleanOK, SparesUploads
    <3>8. op'[c].pc = "clean_delete" => SparesBackups(c)'
      <4> SUFFICES ASSUME op[c].pc = "clean_delete", NEW b \in Backup, remote'[b] # NoManifest
                   PROVE  op[c].keys \cap KeysOf(remote'[b]) = {}
        BY <3>3 DEF SparesBackups, Valid
      <4>1. CASE b = op[o].bk
        BY <1>0, <3>0, <3>5, <4>1 DEF CleanOK, SparesUploads
      <4>2. CASE b # op[o].bk
        <5>1. b \in Valid /\ remote'[b] = remote[b]
          BY <1>0, <3>0, <4>2 DEF Valid
        <5> QED
          BY <3>3, <3>5, <5>1 DEF CleanOK, SparesBackups
      <4> QED
        BY <4>1, <4>2
    <3> QED
      BY <3>6, <3>7, <3>8 DEF CleanOK
  <2>6. CASE SaveLocal(o)
    <3>0. UNCHANGED <<commands, remote, young, misreads>>
      BY <2>6 DEF SaveLocal
    <3>1. /\ op'[o].pc \in {"idle", "retain"} /\ \A q \in Op : q # o => op'[q] = op[q]
      <4>1. CASE op[o].killed \/ Keep = 0
        <5>1. op'[o] = Blank /\ \A q \in Op : q # o => op'[q] = op[q]
          BY <2>6, <4>1, SaveLocalBecomes, BecomesIt
        <5> QED
          BY <5>1 DEF Blank
      <4>2. CASE ~(op[o].killed \/ Keep = 0)
        <5>1. /\ op'[o] = [Blank EXCEPT !.pc = "retain", !.bk = op[o].bk, !.lock = op[o].lock]
              /\ \A q \in Op : q # o => op'[q] = op[q]
          BY <2>6, <4>2, SaveLocalBecomes, BecomesIt
        <5> QED
          BY <5>1 DEF Blank
      <4> QED
        BY <4>1, <4>2
    <3> QED
      BY <3>0, <3>1, Bystander DEF Shrinks, Cleaning
  <2>7. CASE UploadFails(o)
    BY <2>3, <2>7, StopSteps
  <2>8. CASE Kill(o)
    <3>0. UNCHANGED <<commands, remote, young, misreads>> /\ op[o].pc \in Uploading
      BY <2>8 DEF Kill, Uploading
    <3>1. /\ op'[o] = [op[o] EXCEPT !.killed = TRUE, !.lock = NoLock]
          /\ \A q \in Op : q # o => op'[q] = op[q]
      BY <2>8, PublishBecomes, BecomesIt
    <3>2. /\ op'[o].pc = op[o].pc /\ op'[o].bk = op[o].bk /\ op'[o].mem = op[o].mem
          /\ op'[o].done = op[o].done
      BY <2>0, <3>1 DEF OpState
    <3> QED
      BY <3>0, <3>1, <3>2, Bystander DEF Shrinks, Cleaning, Uploading
  <2> QED
    BY <1>3, <2>1, <2>2, <2>4, <2>5, <2>6, <2>7, <2>8 DEF UploadStep
<1>4. ASSUME NEW o \in Op, Stops(o)
      PROVE  CleanInv'
  <2>1. op'[o] = Blank /\ \A q \in Op : q # o => op'[q] = op[q]
    BY <1>4, BecomesIt DEF Stops
  <2>2. op'[o].pc = "idle"
    BY <2>1 DEF Blank
  <2> QED
    BY <1>4, <2>1, <2>2, Bystander DEF Stops, Shrinks, Cleaning
<1>5. ASSUME NEW o \in Op, RetentionStep(o)
      PROVE  CleanInv'
  <2>1. Quiet(o)
    BY <1>5, QuietSteps
  <2>2. op[o].pc \in Retaining
    BY <1>5 DEF RetentionStep, RetentionPlan, FetchManifest, RetentionCandidate,
                RetentionDone, RetentionDeleteData, RetentionDeleteManifest, Retaining
  <2>3. \A q \in Op : op[q].pc \notin Cleaning
    BY <2>2, CleanerAlone DEF Retaining, Cleaning
  <2>4. \A q \in Op : op'[q].pc \notin Cleaning
    BY <2>1, <2>2, <2>3 DEF Quiet, Retaining, Cleaning
  <2> QED
    BY <2>4, NoCleaner
<1>6. ASSUME NEW o \in Op, AdminStep(o)
      PROVE  CleanInv'
  <2>0. op[o] \in OpState
    BY <1>0
  <2>1. ASSUME NEW b \in Backup, DeleteRemote(o, b)
        PROVE  CleanInv'
    <3>1. Quiet(o)
      BY <1>6, QuietSteps
    <3> QED
      BY <2>1, <3>1, Bystander DEF DeleteRemote, Quiet, Cleaning
  <2>2. ASSUME NEW s \in Backup, CleanFetch(o, s)
        PROVE  CleanInv'
    <3>1. CASE Stops(o)
      BY <1>4, <3>1
    <3>2. CASE ~Stops(o)
      <4> DEFINE K == KeysOf(remote[s])
      <4>1. /\ op'[o] = [op[o] EXCEPT !.fetch = @ \ {s}, !.prot = @ \cup K]
            /\ \A q \in Op : q # o => op'[q] = op[q]
        BY <2>2, <3>2, FetchSteps, BecomesIt
      <4>2. op[o].pc = "clean_fetch" /\ UNCHANGED <<commands, remote, young, misreads>>
        BY <2>2 DEF CleanFetch
      <4> HIDE DEF K
      <4>3. /\ op'[o].pc = "clean_fetch" /\ op'[o].fetch = op[o].fetch \ {s}
            /\ op'[o].prot = op[o].prot \cup K
        BY <2>0, <4>1, <4>2 DEF OpState
      <4>4. ASSUME misreads = 0, Attached
            PROVE  CleanOK(o)'
        <5>1. Covered(o)
          BY <4>2, <4>4 DEF CleanInv, CleanOK, Cleaning
        <5>2. Covered(o)'
          BY <4>2, <4>3, <5>1 DEF Covered, Valid, K
        <5> QED
          BY <4>3, <5>2 DEF CleanOK
      <4> QED
        BY <4>1, <4>2, <4>4, CleanerStep DEF Cleaning
    <3> QED
      BY <3>1, <3>2
  <2>3. ASSUME NEW c \in Backup, CleanCandidate(o, c)
        PROVE  CleanInv'
    <3>1. /\ op[o].pc = "clean_fetch" /\ op[o].fetch = {}
          /\ UNCHANGED <<commands, remote, young, misreads>>
      BY <2>3, Zenon DEF CleanCandidate, CleanPlan
    <3>2. PICK K \in SUBSET Key, man \in BOOLEAN :
             /\ K = {} \/ (c \notin young /\ K = ListPrefix(c) \ op[o].prot)
             /\ Becomes(o, [op[o] EXCEPT !.todo = @ \ {c}, !.bk = c, !.keys = K, !.man = man,
                   !.pc = IF K = {} /\ ~man THEN "clean_fetch" ELSE "clean_delete"])
      BY <2>3, CleanCandidateBecomes
    <3>3. /\ op'[o] = [op[o] EXCEPT !.todo = @ \ {c}, !.bk = c, !.keys = K, !.man = man,
                !.pc = IF K = {} /\ ~man THEN "clean_fetch" ELSE "clean_delete"]
          /\ \A q \in Op : q # o => op'[q] = op[q]
      BY <3>2, BecomesIt
    <3>4. /\ op'[o].pc \in Cleaning /\ op'[o].fetch = op[o].fetch
          /\ op'[o].prot = op[o].prot /\ op'[o].keys = K
      BY <2>0, <3>3 DEF OpState, Cleaning
    <3>5. ASSUME misreads = 0, Attached
          PROVE  CleanOK(o)'
      <4>1. Covered(o)
        BY <3>1, <3>5 DEF CleanInv, CleanOK, Cleaning
      <4>2. Covered(o)'
        BY <3>1, <3>4, <4>1 DEF Covered, Valid
      <4>3. \A k \in K : k[1] = c /\ c \notin young /\ k \notin op[o].prot
        BY <3>2 DEF ListPrefix
      <4>4. SparesBackups(o)'
        <5> SUFFICES ASSUME NEW b \in Valid, NEW k \in K, k \in KeysOf(remote[b])
                     PROVE  FALSE
          BY <3>1, <3>4 DEF SparesBackups, Valid
        <5> QED
          BY <3>1, <4>1, <4>3 DEF Covered
      <4>5. SparesUploads(o)'
        <5> SUFFICES ASSUME NEW q \in Op, op'[q].pc = "publish", NEW k \in K,
                            k \in KeysOf(op'[q].mem) \cup {<<op'[q].bk, p>> : p \in op'[q].done}
                     PROVE  FALSE
          BY <3>4 DEF SparesUploads
        <5>1. q # o /\ op'[q] = op[q]
          BY <3>3, <3>4 DEF Cleaning
        <5>2. Plain
          BY <3>1, <3>5, <5>1, CleanerAlone DEF Cleaning, Uploading
        <5>3. k[1] = op[q].bk /\ op[q].bk \in young
          BY <5>1, <5>2, PublisherYoung
        <5> QED
          BY <4>3, <5>3
      <4> QED
        BY <4>2, <4>4, <4>5 DEF CleanOK
    <3> QED
      BY <3>1, <3>3, <3>5, CleanerStep DEF Cleaning
  <2>4. ASSUME NEW miss \in SUBSET Backup, CleanStart(o, miss)
        PROVE  CleanInv'
    <3> DEFINE T == Broken(miss)
               F == Valid \ miss
    <3>1. /\ \A q \in Op : q # o => op'[q] = op[q]
          /\ op'[o] = [Blank EXCEPT !.pc = "clean_fetch", !.lock = Global, !.todo = T, !.fetch = F]
      BY <2>4, CleanStartBecomes, BecomesIt
    <3>2. Misread(miss) /\ LockFree(o, Global) /\ UNCHANGED <<remote, young>>
      BY <2>4 DEF CleanStart
    <3> HIDE DEF T, F
    <3>3. op'[o].pc = "clean_fetch" /\ op'[o].fetch = F
      BY <3>1 DEF Blank
    <3>4. \A q \in Op : op[q].pc \notin Cleaning
      BY <3>2, BackupFacts DEF LockFree, LockInv
    <3> SUFFICES ASSUME misreads' = 0, Attached', NEW c \in Op, op'[c].pc \in Cleaning
                 PROVE  CleanOK(c)'
      BY DEF CleanInv, CleanOK, Cleaning
    <3>5. c = o
      BY <3>1, <3>4
    <3>6. miss = {}
      BY <3>2, NothingMissed
    <3>7. Covered(o)'
      BY <3>2, <3>3, <3>6 DEF Covered, Valid, F
    <3> QED
      BY <3>3, <3>5, <3>7 DEF CleanOK
  <2>5. CASE CleanDelete(o)
    <3>1. /\ op'[o] = [op[o] EXCEPT !.pc = "clean_fetch", !.keys = {}, !.man = FALSE]
          /\ \A q \in Op : q # o => op'[q] = op[q]
      BY <2>5, RetentionDeleteBecomes, BecomesIt
    <3>2. /\ op'[o].pc = "clean_fetch" /\ op'[o].fetch = op[o].fetch
          /\ op'[o].prot = op[o].prot
      BY <2>0, <3>1 DEF OpState
    <3>3. op[o].pc = "clean_delete" /\ UNCHANGED <<commands, young, misreads>>
      BY <2>5 DEF CleanDelete
    <3>4. \A b \in Backup : remote'[b] \in {NoManifest, remote[b]}
      BY <1>6, QuietSteps DEF Quiet, Shrinks
    <3>5. ASSUME misreads = 0, Attached
          PROVE  CleanOK(o)'
      <4>1. Covered(o)
        BY <3>3, <3>5 DEF CleanInv, CleanOK, Cleaning
      <4>2. Covered(o)'
        BY <3>2, <3>3, <3>4, <4>1 DEF Covered, Valid
      <4> QED
        BY <3>2, <4>2 DEF CleanOK
    <3> QED
      BY <3>1, <3>3, <3>5, CleanerStep DEF Cleaning
  <2>6. CASE CleanDone(o)
    BY <1>4, <2>6, StopSteps
  <2> QED
    BY <1>6, <2>1, <2>2, <2>3, <2>4, <2>5, <2>6 DEF AdminStep
<1>7. ASSUME NEW o \in Op, Crash(o)
      PROVE  CleanInv'
    BY <1>4, <1>7, StopSteps
<1>8. ASSUME NEW b \in Backup, Age(b)
      PROVE  CleanInv'
  <2>1. \A q \in Op : op'[q].pc \notin Cleaning
    BY <1>8 DEF Age, Cleaning
  <2> QED
    BY <2>1, NoCleaner
<1>9. CASE UNCHANGED vars
    BY <1>9 DEF vars, CleanInv, Attached, Plain, CleanOK, Covered, SparesUploads,
                SparesBackups, Valid
<1> QED
    BY <1>1, <1>2, <1>3, <1>5, <1>6, <1>7, <1>8, <1>9 DEF Next

-----------------------------------------------------------------------------
(* Restorability *)

(* Backups newer than b, on S3. *)
Newer(b) == {c \in Valid : c > b}

LEMMA NewerCount ==
    ASSUME NEW b
    PROVE  IsFiniteSet(Newer(b)) /\ Cardinality(Newer(b)) \in Nat
<1>1. Newer(b) \subseteq Backup
    BY DEF Newer, Valid
<1> QED
    BY <1>1, FiniteBackups

LEMMA NewestKept ==
    ASSUME NEW b \in Newest(Valid)
    PROVE  b \in Kept
<1>0. Valid \subseteq Nat
    BY BackupFacts DEF Valid
<1>1. Newer(b) = {}
  <2> SUFFICES ASSUME NEW c \in Valid, c > b
               PROVE  FALSE
    BY DEF Newer
  <2> QED
    BY <1>0 DEF Newest
<1>2. Cardinality(Newer(b)) = 0
    BY <1>1, FS_EmptySet
<1>3. Keep = 0 \/ 0 < Keep
    BY StoreAssumption
<1> QED
    BY <1>2, <1>3 DEF Kept, Newer, Newest

LEMMA OneNewest ==
    ASSUME NEW S \in SUBSET Backup, NEW b \in Newest(S), NEW c \in Newest(S)
    PROVE  b = c
BY BackupFacts DEF Newest

(* Publishing a backup keeps no other one longer. *)
LEMMA KeptGrows ==
    ASSUME TypeOK, NEW b \in Backup, NEW m \in SUBSET Entry,
           remote' = [remote EXCEPT ![b] = m]
    PROVE  Valid' = Valid \cup {b} /\ Kept' \subseteq Kept \cup {b}
<1>1. Valid' = Valid \cup {b}
    BY StoreAssumption DEF Valid, TypeOK
<1>2. SUFFICES ASSUME NEW c \in Kept', c # b
               PROVE  c \in Kept
    BY <1>1
<1>3. c \in Valid
    BY <1>1, <1>2 DEF Kept
<1>4. Newer(c) \subseteq Newer(c)' /\ Newer(c)' \subseteq Backup
    BY <1>1 DEF Newer, Valid
<1>5. /\ Cardinality(Newer(c)) <= Cardinality(Newer(c)')
      /\ Cardinality(Newer(c)) \in Nat /\ Cardinality(Newer(c)') \in Nat
    BY <1>4, FiniteBackups, FS_Subset, NewerCount
<1>6. Keep = 0 \/ Cardinality(Newer(c)') < Keep
    BY <1>2 DEF Kept, Newer
<1>7. Keep = 0 \/ Cardinality(Newer(c)) < Keep
    BY <1>5, <1>6, StoreAssumption
<1> QED
    BY <1>3, <1>7 DEF Kept, Newer

(* Deleting a manifest that need not be kept adds none to those kept.      *)
LEMMA KeptShrinks ==
    ASSUME TypeOK, Keep # 0, NEW c \in Backup \ Kept,
           remote' = [remote EXCEPT ![c] = NoManifest]
    PROVE  Valid' = Valid \ {c} /\ Kept' \subseteq Kept
<1>1. Valid' = Valid \ {c}
    BY DEF Valid, TypeOK
<1>2. SUFFICES ASSUME NEW b \in Kept'
               PROVE  b \in Kept
    BY <1>1
<1>3. b \in Valid /\ b # c /\ Cardinality(Newer(b)') < Keep
    BY <1>1, <1>2 DEF Kept, Newer
<1>4. Newer(b)' = Newer(b) \ {c}
    BY <1>1 DEF Newer
<1>5. CASE c \notin Newer(b)
    BY <1>3, <1>4, <1>5 DEF Kept, Newer
<1>6. CASE c \in Newer(b)
  <2>1. c \in Valid /\ c > b /\ b \in Nat /\ c \in Nat
    BY <1>3, <1>6, BackupFacts DEF Newer, Valid
  <2>2. ~(Cardinality(Newer(c)) < Keep)
    BY <2>1 DEF Kept, Newer
  <2>3. Newer(c) \subseteq Newer(b)'
    <3> SUFFICES ASSUME NEW d \in Valid, d > c
                 PROVE  d \in Newer(b) /\ d # c
      BY <1>4 DEF Newer
    <3>1. d \in Nat
      BY BackupFacts DEF Valid
    <3> QED
      BY <2>1, <3>1 DEF Newer
  <2>4. IsFiniteSet(Newer(b)')
    BY <1>4, NewerCount, FS_Subset
  <2>5. /\ Cardinality(Newer(c)) <= Cardinality(Newer(b)')
        /\ Cardinality(Newer(b)') \in Nat /\ Cardinality(Newer(c)) \in Nat
    BY <2>3, <2>4, FS_Subset, FS_CardinalityType, NewerCount
  <2> QED
    BY <1>3, <2>2, <2>5, StoreAssumption
<1> QED
    BY <1>5, <1>6

(* The retention plan is to delete what need not be kept. *)
LEMMA PlanKeeps ==
    ASSUME Keep # 0
    PROVE  plan_retention_deletions(Valid) = Valid \ Kept
<1>1. \A b \in Valid : Cardinality({c \in Valid : c > b}) \in Nat
    BY NewerCount DEF Newer
<1>2. \A b \in Valid : (Cardinality({c \in Valid : c > b}) >= Keep) <=> b \notin Kept
    BY <1>1, StoreAssumption DEF Kept
<1> QED
    BY <1>2 DEF plan_retention_deletions

(* No step forgets a misread manifest or changes the workload. *)
LEMMA InOrderBefore ==
    ASSUME TypeOK, [Next]_vars, InOrder'
    PROVE  InOrder
<1>1. misreads' = 0 => misreads = 0
  <2>1. ASSUME NEW o \in Op, NEW miss \in SUBSET Backup,
               RetentionPlan(o, miss) \/ CleanStart(o, miss), misreads' = 0
        PROVE  misreads = 0
    <3>1. Misread(miss) \/ UNCHANGED misreads
      BY <2>1 DEF RetentionPlan, CleanStart
    <3> QED
      BY <2>1, <3>1, NothingMissed
  <2>2. \/ UNCHANGED misreads
        \/ \E o \in Op, miss \in SUBSET Backup : RetentionPlan(o, miss) \/ CleanStart(o, miss)
    <3>1. ASSUME NEW o \in Op, UploadStep(o) \/ Crash(o)
          PROVE  UNCHANGED misreads
      BY <3>1 DEF UploadStep, UploadPart, PartCancelled, PartFails, Join, Publish, SaveLocal,
                  UploadFails, Kill, Crash
    <3>2. ASSUME NEW o \in Op, RetentionStep(o)
          PROVE  UNCHANGED misreads \/ \E miss \in SUBSET Backup : RetentionPlan(o, miss)
      BY <3>2 DEF RetentionStep, FetchManifest, RetentionCandidate, RetentionDone,
                  RetentionDeleteData, RetentionDeleteManifest
    <3>3. ASSUME NEW o \in Op, AdminStep(o)
          PROVE  UNCHANGED misreads \/ \E miss \in SUBSET Backup : CleanStart(o, miss)
      <4>1. ASSUME NEW c \in Backup, CleanCandidate(o, c)
            PROVE  UNCHANGED misreads
        BY <4>1, Zenon DEF CleanCandidate
      <4> QED
        BY <3>3, <4>1 DEF AdminStep, DeleteRemote, CleanFetch, CleanDelete, CleanDone
    <3>4. ASSUME NEW b \in Backup, NEW P, NEW base, Create(b, P, base)
          PROVE  UNCHANGED misreads
      BY <3>4 DEF Create
    <3>5. ASSUME NEW o \in Op, NEW b \in Backup, NEW base, NEW resume,
                 UploadStart(o, b, base, resume)
          PROVE  UNCHANGED misreads
      BY <3>5 DEF UploadStart
    <3>6. (\E b \in Backup : Age(b)) \/ UNCHANGED vars => UNCHANGED misreads
      BY DEF Age, vars
    <3> QED
      BY <3>1, <3>2, <3>3, <3>4, <3>5, <3>6 DEF Next
  <2> QED
    BY <2>1, <2>2
<1>2. commands' = commands
  <2>1. ASSUME NEW o \in Op, UploadStep(o) \/ Crash(o)
        PROVE  UNCHANGED commands
    BY <2>1 DEF UploadStep, UploadPart, PartCancelled, PartFails, Join, Publish, SaveLocal,
                UploadFails, Kill, Crash
  <2>2. ASSUME NEW o \in Op, RetentionStep(o)
        PROVE  UNCHANGED commands
    BY <2>2 DEF RetentionStep, RetentionPlan, FetchManifest, RetentionCandidate, RetentionDone,
                RetentionDeleteData, RetentionDeleteManifest
  <2>3. ASSUME NEW o \in Op, AdminStep(o)
        PROVE  UNCHANGED commands
    <3>1. ASSUME NEW c \in Backup, CleanCandidate(o, c)
          PROVE  UNCHANGED commands
      BY <3>1, Zenon DEF CleanCandidate
    <3> QED
      BY <2>3, <3>1 DEF AdminStep, DeleteRemote, CleanStart, CleanFetch, CleanDelete, CleanDone
  <2>4. ASSUME NEW b \in Backup, NEW P, NEW base, Create(b, P, base)
        PROVE  UNCHANGED commands
    BY <2>4 DEF Create
  <2>5. ASSUME NEW o \in Op, NEW b \in Backup, NEW base, NEW resume,
               UploadStart(o, b, base, resume)
        PROVE  UNCHANGED commands
    BY <2>5 DEF UploadStart
  <2>6. (\E b \in Backup : Age(b)) \/ UNCHANGED vars => UNCHANGED commands
    BY DEF Age, vars
  <2> QED
    BY <2>1, <2>2, <2>3, <2>4, <2>5, <2>6 DEF Next
<1> QED
    BY <1>1, <1>2 DEF InOrder

(* A step of the only command that changes nothing but its record. *)
LEMMA RecordStep ==
    ASSUME StoreInv, OneCommand, NEW o \in Op, CommandOK(op'[o]),
           UNCHANGED <<local, remote, objects>>
    PROVE  StoreInv' /\ \A q \in Op : CommandOK(op[q])'
<1>1. Created' = Created /\ Valid' = Valid /\ Kept' = Kept
    BY DEF Created, Valid, Kept
<1>2. StoreInv'
    BY <1>1 DEF StoreInv, KeptInv, Safe
<1>3. CommandOK(op[o])'
    BY <1>1 DEF CommandOK, OrderOK, CarryOK, RetainOK, Safe
<1> QED
    BY <1>2, <1>3 DEF OneCommand

(* A key that a kept backup references exists, under a listed backup. *)
LEMMA SafeKey ==
    ASSUME TypeOK, KeptInv, NEW k, Safe(k)
    PROVE  k \in objects /\ k[1] \in Valid
<1>1. PICK c \in Kept : k \in KeysOf(remote[c])
    BY DEF Safe
<1>2. PICK e \in remote[c] : e.key = k
    BY <1>1 DEF KeysOf
<1> QED
    BY <1>1, <1>2 DEF KeptInv

LEMMA KeptKeys ==
    ASSUME TypeOK, KeptInv, NEW b \in Kept, NEW k \in KeysOf(remote[b])
    PROVE  k \in objects /\ k[1] \in Valid
BY SafeKey DEF Safe

(* The step of the only command, one case per action. *)
LEMMA RestoreStep ==
    ASSUME TypeOK, LockInv, ManifestInv, CleanInv, RestoreInv, [Next]_vars
    PROVE  RestoreInv'
<1> SUFFICES ASSUME InOrder, InOrder'
             PROVE  StoreInv' /\ \A q \in Op : CommandOK(op[q])'
    BY InOrderBefore DEF RestoreInv
<1>0. /\ op \in [Op -> OpState] /\ DOMAIN local = Backup /\ DOMAIN remote = Backup
      /\ StoreInv /\ OneCommand /\ Fresh /\ Attached /\ misreads = 0
      /\ \A o \in Op : CommandOK(op[o])
    BY DEF TypeOK, RestoreInv, InOrder, Fresh, Attached
<1> USE <1>0
<1>1. ASSUME NEW b \in Backup, NEW P \in SUBSET Part, NEW base \in Backup \cup {Own},
             Create(b, P, base)
      PROVE  StoreInv' /\ \A q \in Op : CommandOK(op[q])'
  <2> DEFINE fresh == {[part |-> p, source |-> Own, key |-> NoKey] : p \in P}
  <2>1. /\ UNCHANGED <<remote, objects, op>> /\ local' = [local EXCEPT ![b] = fresh]
        /\ \A o \in Op : op[o].pc = "idle"
    BY <1>1 DEF Create, InOrder
  <2>2. (\A e \in fresh : e.source = Own) /\ fresh \in SUBSET Entry
    BY StoreAssumption DEF Entry
  <2> HIDE DEF fresh
  <2>3. Created' = Created \cup {b} /\ Valid' = Valid /\ Kept' = Kept
    BY <2>1, <2>2, StoreAssumption DEF Created, Valid, Kept
  <2>4. ASSUME NEW c \in Newest(Created') \ Valid', NEW e \in local'[c]
        PROVE  e.source = Own \/ Safe(e.key)
    <3>1. CASE c = b
      BY <2>1, <2>2, <2>4, <3>1
    <3>2. CASE c # b
      <4>1. c \in Newest(Created) \ Valid /\ local'[c] = local[c]
        BY <2>1, <2>3, <2>4, <3>2 DEF Newest, Created
      <4> QED
        BY <2>4, <4>1 DEF StoreInv
    <3> QED
      BY <3>1, <3>2
  <2>5. StoreInv'
    BY <2>1, <2>3, <2>4 DEF StoreInv, KeptInv, Safe
  <2>6. \A q \in Op : CommandOK(op[q])'
    BY <2>1 DEF CommandOK, OrderOK, CarryOK, RetainOK, Retaining, Cleaning
  <2> QED
    BY <2>5, <2>6
<1>2. ASSUME NEW o \in Op, NEW b \in Backup, NEW base \in Backup \cup {Own},
             NEW resume \in BOOLEAN, UploadStart(o, b, base, resume)
      PROVE  StoreInv' /\ \A q \in Op : CommandOK(op[q])'
  <2> DEFINE m == Loaded(b, base)
             n == Started(b, base, resume)
  <2>1. /\ b \in Newest(Created) \ Valid /\ b \in Created
        /\ base = Own \/ base \in Newest(Valid)
        /\ UNCHANGED <<remote, objects>>
    BY <1>2 DEF UploadStart, InOrder
  <2>2. op'[o] = n /\ local' = [local EXCEPT ![b] = m] /\ m \in SUBSET Entry
    BY <1>2, UploadStartBecomes, BecomesIt
  <2>3. n.pc = "parts" /\ n.bk = b /\ n.mem = m /\ n.done = {}
    BY DEF Started, Blank
  <2>4. ASSUME NEW e \in m
        PROVE  e.source = Own \/ Safe(e.key)
    <3>1. CASE e \in local[b]
      BY <2>1, <3>1 DEF StoreInv
    <3>2. CASE e \notin local[b]
      <4>1. base \in Newest(Valid) /\ base \in Kept /\ base \in Valid /\ base \in Backup
        BY <2>1, <2>4, <3>2, NewestKept DEF Loaded, Newest, Valid
      <4>2. base # Own
        BY <4>1, StoreAssumption
      <4>3. local[b] \in SUBSET Entry /\ remote[base] \in SUBSET Entry
        BY <2>1, <4>1 DEF TypeOK
      <4>4. PICK f \in remote[base] : e.key = f.key
        BY <2>4, <3>2, <4>1, <4>2, <4>3, DiffEntries DEF Loaded
      <4>5. f.key \in objects
        BY <4>1, <4>4 DEF StoreInv, KeptInv
      <4>6. f.key # NoKey
        BY <4>5, StoreAssumption DEF TypeOK
      <4> QED
        BY <4>1, <4>4, <4>6 DEF Safe, KeysOf
    <3> QED
      BY <3>1, <3>2
  <2> HIDE DEF m, n
  <2>5. Created' = Created /\ Valid' = Valid /\ Kept' = Kept
    BY <2>1, <2>2, StoreAssumption DEF Created, Valid, Kept
  <2>6. StoreInv'
    <3>1. ASSUME NEW c \in Newest(Created) \ Valid, NEW e \in local'[c]
          PROVE  e.source = Own \/ Safe(e.key)
      BY <2>2, <2>4, <3>1 DEF StoreInv, Newest, Created
    <3> QED
      BY <2>1, <2>5, <3>1 DEF StoreInv, KeptInv, Safe
  <2>7. CommandOK(op[o])'
    BY <2>1, <2>2, <2>3, <2>4, <2>5 DEF CommandOK, OrderOK, CarryOK, RetainOK, Safe,
           Retaining, Cleaning
  <2> QED
    BY <2>6, <2>7 DEF OneCommand
<1>3. ASSUME NEW o \in Op, UploadStep(o)
      PROVE  StoreInv' /\ \A q \in Op : CommandOK(op[q])'
  <2>0. op[o] \in OpState /\ CommandOK(op[o]) /\ PublishOK(op[o])
    BY DEF ManifestInv, PublishInv
  <2>1. ASSUME NEW p \in Part, UploadPart(o, p)
        PROVE  StoreInv' /\ \A q \in Op : CommandOK(op[q])'
    <3> DEFINE k == <<op[o].bk, p>>
    <3>1. op'[o] = [op[o] EXCEPT !.pend = @ \ {p}, !.done = @ \cup {p},
                                 !.completed = @ \cup {k}]
      BY <2>1, UploadPartBecomes, BecomesIt
    <3>2. op[o].pc = "parts" /\ objects' = objects \cup {k} /\ UNCHANGED <<local, remote>>
      BY <2>1 DEF UploadPart
    <3>3. Created' = Created /\ Valid' = Valid /\ Kept' = Kept
      BY <3>2 DEF Created, Valid, Kept
    <3>4. StoreInv'
      BY <3>2, <3>3 DEF StoreInv, KeptInv, Safe
    <3> HIDE DEF k
    <3>5. /\ op'[o].pc = "parts" /\ op'[o].bk = op[o].bk /\ op'[o].mem = op[o].mem
          /\ op'[o].done = op[o].done \cup {p}
      BY <2>0, <3>1, <3>2 DEF OpState
    <3>6. \A d \in op'[o].done : <<op'[o].bk, d>> \in objects'
      BY <2>0, <3>2, <3>5 DEF CommandOK, CarryOK, k
    <3>7. CommandOK(op[o])'
      BY <2>0, <3>2, <3>3, <3>5, <3>6 DEF CommandOK, OrderOK, CarryOK, RetainOK, Safe,
             Retaining, Cleaning
    <3> QED
      BY <3>4, <3>7 DEF OneCommand
  <2>2. ASSUME NEW p \in Part, PartCancelled(o, p) \/ PartFails(o, p)
        PROVE  StoreInv' /\ \A q \in Op : CommandOK(op[q])'
    <3>1. \/ op'[o] = [op[o] EXCEPT !.pend = @ \ {p}]
          \/ op'[o] = [op[o] EXCEPT !.pend = @ \ {p}, !.failed = TRUE]
      BY <2>2, PartEndsBecomes, BecomesIt
    <3>2. /\ op'[o].pc = op[o].pc /\ op'[o].bk = op[o].bk /\ op'[o].mem = op[o].mem
          /\ op'[o].done = op[o].done
      BY <2>0, <3>1 DEF OpState
    <3>3. op[o].pc = "parts" /\ UNCHANGED <<local, remote, objects>>
      BY <2>2 DEF PartCancelled, PartFails
    <3>4. CommandOK(op'[o])
      BY <2>0, <3>2, <3>3 DEF CommandOK, OrderOK, CarryOK, RetainOK, Retaining, Cleaning
    <3> QED
      BY <3>3, <3>4, RecordStep
  <2>3. CASE Stops(o)
    <3>1. op'[o] = Blank
      BY <2>3, BecomesIt DEF Stops
    <3>2. op'[o].pc = "idle"
      BY <3>1 DEF Blank
    <3>3. CommandOK(op'[o])
      BY <3>2 DEF CommandOK, OrderOK, CarryOK, RetainOK, Retaining, Cleaning
    <3> QED
      BY <2>3, <3>3, RecordStep DEF Stops
  <2>4. CASE Join(o)
    <3>1. CASE op[o].failed \/ op[o].killed
      BY <2>3, <2>4, <3>1, StopSteps
    <3>2. CASE ~(op[o].failed \/ op[o].killed)
      <4> DEFINE m == Merged(op[o])
      <4>0. op[o].pc = "parts" /\ op[o].pend = {} /\ UNCHANGED <<local, remote, objects>>
        BY <2>4 DEF Join
      <4>1. op'[o] = [op[o] EXCEPT !.pc = "publish", !.mem = m]
        BY <2>4, <3>2, JoinBecomes, BecomesIt
      <4>2. op[o].bk \in Backup
        BY <4>0 DEF LockInv, Uploading
      <4>3. \A e \in m : \/ e \in op[o].mem /\ e.part \notin op[o].done
                         \/ e.part \in op[o].done /\ e.key = <<op[o].bk, e.part>>
        BY <2>0, <4>2, MergedEntries
      <4> HIDE DEF m
      <4>4. op'[o].pc = "publish" /\ op'[o].bk = op[o].bk /\ op'[o].mem = m
        BY <2>0, <4>1 DEF OpState
      <4>5. ASSUME NEW e \in m
            PROVE  e.key \in objects /\ (e.key[1] = op[o].bk \/ e.key[1] \in Valid)
        <5>1. CASE e \in op[o].mem /\ e.part \notin op[o].done
          <6>1. e.source # Own
            BY <2>0, <3>2, <4>0, <5>1 DEF PublishOK, Accounted
          <6>2. Safe(e.key)
            BY <2>0, <4>0, <5>1, <6>1 DEF CommandOK, CarryOK
          <6> QED
            BY <6>2, SafeKey DEF StoreInv
        <5>2. CASE e.part \in op[o].done /\ e.key = <<op[o].bk, e.part>>
          BY <2>0, <4>0, <5>2 DEF CommandOK, CarryOK
        <5> QED
          BY <4>3, <4>5, <5>1, <5>2
      <4>6. CommandOK(op'[o])
        BY <2>0, <4>0, <4>4, <4>5 DEF CommandOK, OrderOK, CarryOK, RetainOK, Retaining, Cleaning
      <4> QED
        BY <4>0, <4>6, RecordStep
    <3> QED
      BY <3>1, <3>2
  <2>5. CASE Publish(o)
    <3> DEFINE b == op[o].bk
               m == op[o].mem
    <3>0. /\ op[o].pc = "publish" /\ b \in Backup /\ m \in SUBSET Entry
          /\ remote' = [remote EXCEPT ![b] = m]
          /\ UNCHANGED <<local, objects>>
      BY <2>0, <2>5 DEF Publish, LockInv, Uploading, OpState
    <3>1. op'[o] = [op[o] EXCEPT !.pc = "save"]
      BY <2>5, PublishBecomes, BecomesIt
    <3>2. op'[o].pc = "save" /\ op'[o].bk = b
      BY <2>0, <3>1 DEF OpState
    <3>3. Valid' = Valid \cup {b} /\ Kept' \subseteq Kept \cup {b}
      BY <3>0, KeptGrows
    <3>4. /\ b \in Newest(Created) \ Valid
          /\ \A e \in m : e.key \in objects /\ (e.key[1] = b \/ e.key[1] \in Valid)
      BY <2>0, <3>0 DEF CommandOK, OrderOK, CarryOK
    <3>5. Created' = Created /\ Created \subseteq Backup
      BY <3>0 DEF Created
    <3> HIDE DEF b, m
    <3>6. Newest(Created') \ Valid' = {}
      BY <3>3, <3>4, <3>5, OneNewest
    <3>7. KeptInv'
      <4> SUFFICES ASSUME NEW c \in Kept', NEW e \in remote'[c]
                   PROVE  e.key \in objects' /\ e.key[1] \in Valid'
        BY DEF KeptInv
      <4>1. CASE c = b
        BY <3>0, <3>3, <3>4, <4>1
      <4>2. CASE c # b
        <5>1. c \in Kept /\ remote'[c] = remote[c]
          BY <3>0, <3>3, <4>2 DEF Kept, Valid
        <5> QED
          BY <3>0, <3>3, <5>1 DEF StoreInv, KeptInv
      <4> QED
        BY <4>1, <4>2
    <3>8. StoreInv'
      BY <3>3, <3>4, <3>5, <3>6, <3>7 DEF StoreInv, Newest
    <3>9. CommandOK(op[o])'
      BY <3>2, <3>3, <3>4, <3>5 DEF CommandOK, OrderOK, CarryOK, RetainOK, Retaining, Cleaning
    <3> QED
      BY <3>8, <3>9 DEF OneCommand
  <2>6. CASE SaveLocal(o)
    <3> DEFINE b == op[o].bk
               m == op[o].mem
    <3>0. /\ op[o].pc = "save" /\ b \in Backup /\ m \in SUBSET Entry
          /\ local' = [local EXCEPT ![b] = m]
          /\ UNCHANGED <<remote, objects>>
      BY <2>0, <2>6 DEF SaveLocal, LockInv, Uploading, OpState
    <3>1. op'[o].pc \in {"idle", "retain"}
      <4>1. CASE op[o].killed \/ Keep = 0
        <5>1. op'[o] = Blank
          BY <2>6, <4>1, SaveLocalBecomes, BecomesIt
        <5> QED
          BY <5>1 DEF Blank
      <4>2. CASE ~(op[o].killed \/ Keep = 0)
        <5>1. op'[o] = [Blank EXCEPT !.pc = "retain", !.bk = op[o].bk, !.lock = op[o].lock]
          BY <2>6, <4>2, SaveLocalBecomes, BecomesIt
        <5> QED
          BY <5>1 DEF Blank
      <4> QED
        BY <4>1, <4>2
    <3>2. b \in Newest(Created) \cap Valid
      BY <2>0, <3>0 DEF CommandOK, OrderOK
    <3> HIDE DEF b, m
    <3>3. Created' = Created /\ Valid' = Valid /\ Kept' = Kept /\ Created \subseteq Backup
      BY <3>0, <3>2, StoreAssumption DEF Created, Valid, Kept, Newest
    <3>4. Newest(Created) \subseteq Valid
      BY <3>2, <3>3, OneNewest
    <3>5. StoreInv'
      BY <3>0, <3>3, <3>4 DEF StoreInv, KeptInv
    <3>6. CommandOK(op[o])'
      BY <3>1, <3>3, <3>4 DEF CommandOK, OrderOK, CarryOK, RetainOK, Retaining, Cleaning
    <3> QED
      BY <3>5, <3>6 DEF OneCommand
  <2>7. CASE UploadFails(o)
    BY <2>3, <2>7, StopSteps
  <2>8. CASE Kill(o)
    <3>0. UNCHANGED <<local, remote, objects>> /\ op[o].pc \in Uploading
      BY <2>8 DEF Kill, Uploading
    <3>1. op'[o] = [op[o] EXCEPT !.killed = TRUE, !.lock = NoLock]
      BY <2>8, PublishBecomes, BecomesIt
    <3>2. /\ op'[o].pc = op[o].pc /\ op'[o].bk = op[o].bk /\ op'[o].mem = op[o].mem
          /\ op'[o].done = op[o].done
      BY <2>0, <3>1 DEF OpState
    <3>3. CommandOK(op'[o])
      BY <2>0, <3>0, <3>2 DEF CommandOK, OrderOK, CarryOK, RetainOK, Uploading, Retaining, Cleaning
    <3> QED
      BY <3>0, <3>3, RecordStep
  <2> QED
    BY <1>3, <2>1, <2>2, <2>4, <2>5, <2>6, <2>7, <2>8 DEF UploadStep
<1>4. ASSUME NEW o \in Op, Stops(o)
      PROVE  StoreInv' /\ \A q \in Op : CommandOK(op[q])'
  <2>1. op'[o] = Blank
    BY <1>4, BecomesIt DEF Stops
  <2>2. op'[o].pc = "idle"
    BY <2>1 DEF Blank
  <2>3. CommandOK(op'[o])
    BY <2>2 DEF CommandOK, OrderOK, CarryOK, RetainOK, Retaining, Cleaning
  <2> QED
    BY <1>4, <2>3, RecordStep DEF Stops
<1>5. ASSUME NEW o \in Op, ~Stops(o), RetentionStep(o)
      PROVE  StoreInv' /\ \A q \in Op : CommandOK(op[q])'
  <2>0. /\ op[o] \in OpState /\ CommandOK(op[o]) /\ op[o].pc \in Retaining /\ Keep # 0
        /\ Newest(Created) \subseteq Valid
    <3>1. op[o].pc \in Retaining
      BY <1>5 DEF RetentionStep, RetentionPlan, FetchManifest, RetentionCandidate,
                  RetentionDone, RetentionDeleteData, RetentionDeleteManifest, Retaining
    <3> QED
      BY <3>1 DEF LockInv, CommandOK, OrderOK
  <2>1. ASSUME NEW miss \in SUBSET Backup, RetentionPlan(o, miss)
        PROVE  StoreInv' /\ \A q \in Op : CommandOK(op[q])'
    <3> DEFINE D == plan_retention_deletions(Valid \ miss)
               F == (Valid \ miss) \ D
    <3>1. Misread(miss) /\ op'[o] = [op[o] EXCEPT !.pc = "fetch", !.todo = D, !.fetch = F]
      BY <1>5, <2>1, PlanSteps, BecomesIt
    <3>2. miss = {}
      BY <3>1, NothingMissed DEF InOrder
    <3>3. D = Valid \ Kept
      BY <2>0, <3>2, PlanKeeps
    <3>4. UNCHANGED <<local, remote, objects>>
      BY <2>1 DEF RetentionPlan
    <3> HIDE DEF D
    <3>5. op'[o].pc = "fetch" /\ op'[o].todo = D /\ op'[o].fetch = F
      BY <2>0, <3>1 DEF OpState
    <3>6. CommandOK(op'[o])
      BY <2>0, <3>2, <3>3, <3>5 DEF CommandOK, OrderOK, CarryOK, RetainOK, Kept, Cleaning
    <3> QED
      BY <3>4, <3>6, RecordStep
  <2>2. ASSUME NEW s \in Backup, FetchManifest(o, s)
        PROVE  StoreInv' /\ \A q \in Op : CommandOK(op[q])'
    <3> DEFINE K == KeysOf(remote[s])
               B == BasesOf(remote[s])
    <3>1. op'[o] = [op[o] EXCEPT !.fetch = @ \ {s}, !.prot = @ \cup K, !.bases = @ \cup B]
      BY <1>5, <2>2, FetchSteps, BecomesIt
    <3>2. op[o].pc = "fetch" /\ UNCHANGED <<local, remote, objects>>
      BY <2>2 DEF FetchManifest
    <3> HIDE DEF K, B
    <3>3. /\ op'[o].pc = "fetch" /\ op'[o].todo = op[o].todo
          /\ op'[o].fetch = op[o].fetch \ {s} /\ op'[o].prot = op[o].prot \cup K
      BY <2>0, <3>1, <3>2 DEF OpState
    <3>4. CommandOK(op'[o])
      BY <2>0, <3>2, <3>3 DEF CommandOK, OrderOK, CarryOK, RetainOK, Cleaning, K
    <3> QED
      BY <3>2, <3>4, RecordStep
  <2>3. CASE RetentionCandidate(o)
    <3>0. /\ op[o].pc = "fetch" /\ op[o].fetch = {} /\ UNCHANGED <<local, remote, objects>>
      BY <2>3 DEF RetentionCandidate
    <3>1. PICK c \in Oldest(op[o].todo) :
             \/ Becomes(o, [op[o] EXCEPT !.todo = @ \ {c}])
             \/ /\ ListPrefix(c) \cap op[o].prot = {}
                /\ Becomes(o, [op[o] EXCEPT !.todo = @ \ {c}, !.pc = "delete", !.bk = c,
                                            !.keys = ListPrefix(c)])
      BY <2>3, RetentionCandidateBecomes
    <3>2. c \in Backup \ Kept
      BY <2>0, <3>0, <3>1 DEF CommandOK, RetainOK, Oldest, OpState
    <3>3. CASE Becomes(o, [op[o] EXCEPT !.todo = @ \ {c}])
      <4>1. op'[o] = [op[o] EXCEPT !.todo = @ \ {c}]
        BY <3>3, BecomesIt
      <4>2. /\ op'[o].pc = "fetch" /\ op'[o].todo = op[o].todo \ {c}
            /\ op'[o].fetch = op[o].fetch /\ op'[o].prot = op[o].prot
        BY <2>0, <3>0, <4>1 DEF OpState
      <4>3. CommandOK(op'[o])
        BY <2>0, <3>0, <4>2 DEF CommandOK, OrderOK, CarryOK, RetainOK, Cleaning
      <4> QED
        BY <3>0, <4>3, RecordStep
    <3>4. CASE /\ ListPrefix(c) \cap op[o].prot = {}
               /\ Becomes(o, [op[o] EXCEPT !.todo = @ \ {c}, !.pc = "delete", !.bk = c,
                                           !.keys = ListPrefix(c)])
      <4> DEFINE K == ListPrefix(c)
      <4>1. op'[o] = [op[o] EXCEPT !.todo = @ \ {c}, !.pc = "delete", !.bk = c, !.keys = K]
        BY <3>4, BecomesIt
      <4>2. \A k \in K : k[1] = c
        BY DEF ListPrefix
      <4>3. ASSUME NEW b \in Kept, NEW k \in KeysOf(remote[b])
            PROVE  k[1] # c
        <5>1. k \in op[o].prot
          BY <2>0, <3>0, <4>3 DEF CommandOK, RetainOK
        <5>2. k \in objects
          BY <4>3, KeptKeys DEF StoreInv
        <5> QED
          BY <3>4, <5>1, <5>2 DEF ListPrefix
      <4> HIDE DEF K
      <4>4. /\ op'[o].pc = "delete" /\ op'[o].todo = op[o].todo \ {c} /\ op'[o].bk = c
            /\ op'[o].fetch = op[o].fetch /\ op'[o].prot = op[o].prot /\ op'[o].keys = K
        BY <2>0, <3>0, <4>1 DEF OpState
      <4>5. RetainOK(op'[o])
        BY <2>0, <3>0, <3>2, <4>2, <4>3, <4>4 DEF CommandOK, RetainOK, Cleaning
      <4>6. CommandOK(op'[o])
        BY <2>0, <4>4, <4>5 DEF CommandOK, OrderOK, CarryOK
      <4> QED
        BY <3>0, <4>6, RecordStep
    <3> QED
      BY <3>1, <3>3, <3>4
  <2>4. CASE RetentionDone(o)
    BY <1>5, <2>4, StopSteps
  <2>5. CASE RetentionDeleteData(o)
    <3>0. /\ op[o].pc = "delete" /\ UNCHANGED <<local, remote>>
          /\ objects \ op[o].keys \subseteq objects' /\ objects' \subseteq objects
      BY <2>5 DEF RetentionDeleteData
    <3>1. \/ op'[o] = [op[o] EXCEPT !.pc = "fetch", !.keys = {}]
          \/ op'[o] = [op[o] EXCEPT !.pc = "delete_manifest", !.keys = {}]
      BY <2>5, RetentionDeleteBecomes, BecomesIt
    <3>2. /\ op'[o].pc \in {"fetch", "delete_manifest"} /\ op'[o].todo = op[o].todo
          /\ op'[o].fetch = op[o].fetch /\ op'[o].prot = op[o].prot
          /\ op'[o].keys = {} /\ op'[o].bk = op[o].bk
      BY <2>0, <3>1 DEF OpState
    <3>3. Created' = Created /\ Valid' = Valid /\ Kept' = Kept
      BY <3>0 DEF Created, Valid, Kept
    <3>4. KeptInv'
      <4> SUFFICES ASSUME NEW b \in Kept, NEW e \in remote[b]
                   PROVE  e.key \in objects' /\ e.key[1] \in Valid
        BY <3>0, <3>3 DEF KeptInv
      <4>1. e.key \in objects /\ e.key[1] \in Valid
        BY DEF StoreInv, KeptInv
      <4>2. e.key \in KeysOf(remote[b])
        BY <4>1, StoreAssumption DEF KeysOf, TypeOK
      <4>3. e.key \notin op[o].keys
        BY <2>0, <3>0, <4>2 DEF CommandOK, RetainOK
      <4> QED
        BY <3>0, <4>1, <4>3
    <3>5. StoreInv'
      BY <3>0, <3>3, <3>4 DEF StoreInv, Safe
    <3>6. CommandOK(op[o])'
      BY <2>0, <3>0, <3>2, <3>3 DEF CommandOK, OrderOK, CarryOK, RetainOK, Cleaning
    <3> QED
      BY <3>5, <3>6 DEF OneCommand
  <2>6. CASE RetentionDeleteManifest(o)
    <3> DEFINE c == op[o].bk
    <3>0. /\ op[o].pc = "delete_manifest" /\ UNCHANGED <<local, objects>>
          /\ remote' = [remote EXCEPT ![c] = NoManifest] \/ remote' = remote
      BY <2>6 DEF RetentionDeleteManifest
    <3>1. op'[o] = [op[o] EXCEPT !.pc = "fetch"]
      BY <2>6, RetentionDeleteBecomes, BecomesIt
    <3>2. /\ op'[o].pc = "fetch" /\ op'[o].todo = op[o].todo
          /\ op'[o].fetch = op[o].fetch /\ op'[o].prot = op[o].prot
      BY <2>0, <3>1 DEF OpState
    <3>3. /\ c \in Backup \ Kept
          /\ \A b \in Kept : \A k \in KeysOf(remote[b]) : k[1] # c
      BY <2>0, <3>0 DEF CommandOK, RetainOK
    <3> HIDE DEF c
    <3>4. CASE remote' = remote
      <4>1. CommandOK(op'[o])
        BY <2>0, <3>0, <3>2 DEF CommandOK, OrderOK, CarryOK, RetainOK, Cleaning
      <4> QED
        BY <3>0, <3>4, <4>1, RecordStep
    <3>5. CASE remote' = [remote EXCEPT ![c] = NoManifest]
      <4>1. Valid' = Valid \ {c} /\ Kept' \subseteq Kept
        BY <2>0, <3>3, <3>5, KeptShrinks
      <4>2. Created' = Created
        BY <3>0 DEF Created
      <4>3. \A b \in Kept' : b \in Kept /\ remote'[b] = remote[b]
        BY <3>5, <4>1 DEF Kept, Valid
      <4>4. Newest(Created) \subseteq Valid'
        <5>1. Newest(Created) \subseteq Newest(Valid)
          BY <2>0 DEF StoreInv, Newest
        <5> QED
          BY <2>0, <3>3, <4>1, <5>1, NewestKept
      <4>5. KeptInv'
        <5> SUFFICES ASSUME NEW b \in Kept, NEW e \in remote[b]
                     PROVE  e.key \in objects /\ e.key[1] \in Valid /\ e.key[1] # c
          BY <3>0, <4>1, <4>3 DEF KeptInv
        <5>1. e.key \in objects /\ e.key[1] \in Valid
          BY DEF StoreInv, KeptInv
        <5>2. e.key \in KeysOf(remote[b])
          BY <5>1, StoreAssumption DEF KeysOf, TypeOK
        <5> QED
          BY <3>3, <5>1, <5>2
      <4>6. StoreInv'
        BY <4>1, <4>2, <4>4, <4>5 DEF StoreInv
      <4>7. RetainOK(op[o])'
        BY <2>0, <3>0, <3>2, <4>3 DEF CommandOK, RetainOK, Cleaning
      <4>8. CommandOK(op[o])'
        BY <3>2, <4>2, <4>4, <4>7 DEF CommandOK, OrderOK, CarryOK, Retaining
      <4> QED
        BY <4>6, <4>8 DEF OneCommand
    <3> QED
      BY <3>0, <3>4, <3>5
  <2> QED
    BY <1>5, <2>1, <2>2, <2>3, <2>4, <2>5, <2>6 DEF RetentionStep
<1>6. ASSUME NEW o \in Op, ~Stops(o), AdminStep(o)
      PROVE  StoreInv' /\ \A q \in Op : CommandOK(op[q])'
  <2>0. op[o] \in OpState /\ CommandOK(op[o])
    OBVIOUS
  <2>1. ASSUME NEW b \in Backup, DeleteRemote(o, b)
        PROVE  FALSE
    BY <2>1 DEF DeleteRemote, InOrder
  <2>2. ASSUME NEW s \in Backup, CleanFetch(o, s)
        PROVE  StoreInv' /\ \A q \in Op : CommandOK(op[q])'
    <3> DEFINE K == KeysOf(remote[s])
    <3>1. op'[o] = [op[o] EXCEPT !.fetch = @ \ {s}, !.prot = @ \cup K]
      BY <1>6, <2>2, FetchSteps, BecomesIt
    <3>2. op[o].pc = "clean_fetch" /\ UNCHANGED <<local, remote, objects>>
      BY <2>2 DEF CleanFetch
    <3> HIDE DEF K
    <3>3. op'[o].pc = "clean_fetch" /\ op'[o].todo = op[o].todo /\ op'[o].man = op[o].man
      BY <2>0, <3>1, <3>2 DEF OpState
    <3>4. CommandOK(op'[o])
      BY <2>0, <3>2, <3>3 DEF CommandOK, OrderOK, CarryOK, RetainOK, Retaining, Cleaning
    <3> QED
      BY <3>2, <3>4, RecordStep
  <2>3. ASSUME NEW c \in Backup, CleanCandidate(o, c)
        PROVE  StoreInv' /\ \A q \in Op : CommandOK(op[q])'
    <3>1. /\ op[o].pc = "clean_fetch" /\ c \in op[o].todo /\ UNCHANGED <<local, remote, objects>>
      BY <2>3, Zenon DEF CleanCandidate, CleanPlan
    <3>2. PICK K \in SUBSET Key, man \in BOOLEAN :
             /\ man => c \in Valid
             /\ Becomes(o, [op[o] EXCEPT !.todo = @ \ {c}, !.bk = c, !.keys = K, !.man = man,
                   !.pc = IF K = {} /\ ~man THEN "clean_fetch" ELSE "clean_delete"])
      BY <2>3, CleanCandidateBecomes
    <3>3. op'[o] = [op[o] EXCEPT !.todo = @ \ {c}, !.bk = c, !.keys = K, !.man = man,
                !.pc = IF K = {} /\ ~man THEN "clean_fetch" ELSE "clean_delete"]
      BY <3>2, BecomesIt
    <3>4. /\ op'[o].pc \in Cleaning /\ op'[o].todo = op[o].todo \ {c} /\ op'[o].man = man
      BY <2>0, <3>3 DEF OpState, Cleaning
    <3>5. op[o].todo \cap Valid = {} /\ ~man
      BY <2>0, <3>1, <3>2 DEF CommandOK, RetainOK, Cleaning
    <3>6. CommandOK(op'[o])
      BY <3>4, <3>5 DEF CommandOK, OrderOK, CarryOK, RetainOK, Retaining, Cleaning
    <3> QED
      BY <3>1, <3>6, RecordStep
  <2>4. ASSUME NEW miss \in SUBSET Backup, CleanStart(o, miss)
        PROVE  StoreInv' /\ \A q \in Op : CommandOK(op[q])'
    <3> DEFINE T == Broken(miss)
               F == Valid \ miss
    <3>1. op'[o] = [Blank EXCEPT !.pc = "clean_fetch", !.lock = Global, !.todo = T, !.fetch = F]
      BY <2>4, CleanStartBecomes, BecomesIt
    <3>2. Misread(miss) /\ UNCHANGED <<local, remote, objects>>
      BY <2>4 DEF CleanStart
    <3>3. miss = {}
      BY <3>2, NothingMissed DEF InOrder
    <3>4. T \cap Valid = {}
      BY <3>3 DEF Broken
    <3> HIDE DEF T, F
    <3>5. op'[o].pc = "clean_fetch" /\ op'[o].todo = T /\ op'[o].man = FALSE
      BY <3>1 DEF Blank
    <3>6. CommandOK(op'[o])
      BY <3>4, <3>5 DEF CommandOK, OrderOK, CarryOK, RetainOK, Retaining, Cleaning
    <3> QED
      BY <3>2, <3>6, RecordStep
  <2>5. CASE CleanDelete(o)
    <3>1. op'[o] = [op[o] EXCEPT !.pc = "clean_fetch", !.keys = {}, !.man = FALSE]
      BY <2>5, RetentionDeleteBecomes, BecomesIt
    <3>2. op'[o].pc = "clean_fetch" /\ op'[o].todo = op[o].todo /\ op'[o].man = FALSE
      BY <2>0, <3>1 DEF OpState
    <3>3. op[o].pc = "clean_delete" /\ op[o].todo \cap Valid = {} /\ ~op[o].man
      BY <2>0, <2>5 DEF CleanDelete, CommandOK, RetainOK, Cleaning
    <3>4. /\ UNCHANGED <<local, remote>> /\ objects \ op[o].keys \subseteq objects'
      BY <2>5, <3>3 DEF CleanDelete
    <3>5. Created' = Created /\ Valid' = Valid /\ Kept' = Kept
      BY <3>4 DEF Created, Valid, Kept
    <3>6. KeptInv'
      <4> SUFFICES ASSUME NEW b \in Kept, NEW e \in remote[b]
                   PROVE  e.key \in objects' /\ e.key[1] \in Valid
        BY <3>4, <3>5 DEF KeptInv
      <4>1. e.key \in objects /\ e.key[1] \in Valid
        BY DEF StoreInv, KeptInv
      <4>2. e.key \in KeysOf(remote[b]) /\ b \in Valid
        BY <4>1, StoreAssumption DEF KeysOf, TypeOK, Kept
      <4>3. SparesBackups(o)
        BY <3>3 DEF CleanInv, CleanOK
      <4> QED
        BY <3>4, <4>1, <4>2, <4>3 DEF SparesBackups
    <3>7. StoreInv'
      BY <3>4, <3>5, <3>6 DEF StoreInv, Safe
    <3>8. CommandOK(op[o])'
      BY <3>2, <3>3, <3>5 DEF CommandOK, OrderOK, CarryOK, RetainOK, Retaining, Cleaning
    <3> QED
      BY <3>7, <3>8 DEF OneCommand
  <2>6. CASE CleanDone(o)
    BY <1>6, <2>6, StopSteps
  <2> QED
    BY <1>6, <2>1, <2>2, <2>3, <2>4, <2>5, <2>6 DEF AdminStep
<1>7. ASSUME NEW o \in Op, Crash(o)
      PROVE  StoreInv' /\ \A q \in Op : CommandOK(op[q])'
    BY <1>4, <1>7, StopSteps
<1>8. CASE (\E b \in Backup : Age(b)) \/ UNCHANGED vars
  <2>1. UNCHANGED <<local, remote, objects, op>>
    BY <1>8 DEF Age, vars
  <2>2. Created' = Created /\ Valid' = Valid /\ Kept' = Kept
    BY <2>1 DEF Created, Valid, Kept
  <2>3. StoreInv'
    BY <2>1, <2>2 DEF StoreInv, KeptInv, Safe
  <2>4. \A q \in Op : CommandOK(op[q])'
    BY <2>1, <2>2 DEF CommandOK, OrderOK, CarryOK, RetainOK, Safe
  <2> QED
    BY <2>3, <2>4
<1> QED
    BY <1>1, <1>2, <1>3, <1>4, <1>5, <1>6, <1>7, <1>8 DEF Next

-----------------------------------------------------------------------------
(* The theorems *)

BackupStoreInv == TypeOK /\ LockInv /\ ManifestInv /\ CleanInv /\ RestoreInv

LEMMA InvInit == Init => BackupStoreInv
<1> SUFFICES ASSUME Init PROVE BackupStoreInv
    OBVIOUS
<1>1. /\ Created = {} /\ Valid = {} /\ Kept = {} /\ DOMAIN local = Backup /\ DOMAIN remote = Backup
    BY DEF Init, Created, Valid, Kept
<1>2. \A o \in Op : op[o] = Blank
    BY DEF Init
<1>3. /\ Blank.pc = "idle" /\ Blank.lock = NoLock /\ Blank.killed = FALSE
    BY DEF Blank
<1>4. TypeOK
  <2>1. op \in [Op -> OpState]
    BY BlankType DEF Init
  <2> QED
    BY <1>1, <2>1, StoreAssumption DEF Init, TypeOK
<1>5. LockInv
    BY <1>2, <1>3, BackupFacts DEF LockInv, Uploading, Retaining, Cleaning
<1>6. ManifestInv
    BY <1>1, <1>2, <1>3 DEF ManifestInv, PublishInv, PlainInv, YoungInv, PublishOK, PlainOK,
       YoungOK, Uploading
<1>7. CleanInv
    BY <1>2, <1>3 DEF CleanInv, CleanOK, Cleaning
<1>8. RestoreInv
  <2>1. StoreInv
    <3>1. Newest(Created) = {}
      BY <1>1 DEF Newest
    <3> QED
      BY <1>1, <3>1 DEF StoreInv, KeptInv
  <2>2. \A o \in Op : CommandOK(op[o])
    BY <1>2, <1>3 DEF CommandOK, OrderOK, CarryOK, RetainOK, Retaining, Cleaning
  <2> QED
    BY <2>1, <2>2 DEF RestoreInv
<1> QED
    BY <1>4, <1>5, <1>6, <1>7, <1>8 DEF BackupStoreInv

LEMMA InvHolds == Spec => []BackupStoreInv
<1>1. BackupStoreInv /\ [Next]_vars => BackupStoreInv'
    BY TypeStep, LockStep, ManifestStep, CleanStep, RestoreStep DEF BackupStoreInv
<1> QED
    BY <1>1, InvInit, PTL DEF Spec

(* Type correctness: in particular every entry a diff, a merge or a resume *)
(* puts into a manifest is one, and what garbage collection lists and      *)
(* protects are keys.                                                      *)
THEOREM TypeCorrect == Spec => []TypeOK
<1>1. BackupStoreInv => TypeOK
    BY DEF BackupStoreInv
<1> QED
    BY <1>1, InvHolds, PTL

(* upload writes the manifest last and only if no part failed and its      *)
(* token was not cancelled before the check, so every part of a published  *)
(* manifest has a key, with any number of concurrent uploads, kills,       *)
(* crashes and faults.  Uploads with --resume and backups created with     *)
(* --diff-from are excluded: the code then publishes without a key.        *)
THEOREM ManifestsComplete == Spec => [](Fresh => PublishedComplete)
<1>1. BackupStoreInv => (Fresh => PublishedComplete)
    BY DEF BackupStoreInv, ManifestInv, PublishInv, Complete, PublishedComplete
<1> QED
    BY <1>1, InvHolds, PTL

(* clean_broken, which excludes other commands by its lock but not the     *)
(* uploads that were killed and run on, never plans to delete a key that a *)
(* valid manifest references or that an upload may yet publish.  It needs  *)
(* that no listing misread a manifest so far, and that a killed upload is  *)
(* alone or publishes only keys that it wrote (no diff, no resume).        *)
THEOREM CleanSpares == Spec => [](misreads = 0 /\ Attached => CleanSparesLive)
<1>1. ASSUME BackupStoreInv, misreads = 0, Attached, NEW o \in Op, op[o].pc = "clean_delete"
      PROVE  /\ \A b \in Valid : op[o].keys \cap KeysOf(remote[b]) = {}
             /\ \A q \in Op :
                   op[q].pc = "publish" \/ (op[q].pc = "parts" /\ ~op[q].killed) =>
                     op[o].keys \cap {<<op[q].bk, p>> : p \in op[q].done} = {}
  <2>1. SparesUploads(o) /\ SparesBackups(o)
    BY <1>1 DEF BackupStoreInv, CleanInv, CleanOK
  <2>2. ASSUME NEW q \in Op, op[q].pc = "parts"
        PROVE  op[q].killed
    <3>1. q # o
      BY <1>1, <2>2
    <3> QED
      BY <1>1, <2>2, <3>1, CleanerAlone DEF BackupStoreInv, Cleaning, Uploading
  <2> QED
    BY <2>1, <2>2 DEF SparesUploads, SparesBackups
<1>2. BackupStoreInv => (misreads = 0 /\ Attached => CleanSparesLive)
    BY <1>1 DEF CleanSparesLive
<1> QED
    BY <1>2, InvHolds, PTL

(* With one command at a time and backups uploaded in the order they were  *)
(* created (the watch loop, or a scheduled create_remote), the newest Keep *)
(* backups are restorable at every moment, after any number of backups,    *)
(* chained diffs, crashes, faults, kills, retention passes and             *)
(* clean_broken runs.                                                      *)
THEOREM KeptAreRestorable == Spec => [](InOrder => KeptRestorable)
<1>1. BackupStoreInv => (InOrder => KeptRestorable)
    BY DEF BackupStoreInv, RestoreInv, StoreInv, KeptInv, KeptRestorable
<1> QED
    BY <1>1, InvHolds, PTL

(* Under the same conditions no key of a kept backup lies under a prefix   *)
(* without a manifest, which the next clean_broken would empty: retention  *)
(* keeps a backup whole while a kept one uses its data.                    *)
THEOREM LiveDataListed == Spec => [](InOrder => LiveDataIsListed)
<1>1. BackupStoreInv => (InOrder => LiveDataIsListed)
  <2> SUFFICES ASSUME BackupStoreInv, InOrder, NEW b \in Kept, NEW k \in KeysOf(remote[b])
               PROVE  k[1] \in Valid
    BY DEF LiveDataIsListed
  <2> QED
    BY KeptKeys DEF BackupStoreInv, RestoreInv, StoreInv
<1> QED
    BY <1>1, InvHolds, PTL
=============================================================================
