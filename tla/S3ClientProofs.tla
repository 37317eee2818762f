--------------------------- MODULE S3ClientProofs ---------------------------
(***************************************************************************)
(* TLAPS proofs about the copies of S3Client, for every object size, chunk *)
(* size, part limit, deadline and rate and any number of faults.           *)
(***************************************************************************)
EXTENDS S3Client, FiniteSetTheorems, TLAPS

Upload == [open : BOOLEAN, parts : SUBSET Nat, excused : BOOLEAN]
Copy   == [pc : {"off", "head", "copy", "create", "parts", "abort", "get", "put", "screate",
                 "sparts", "sabort", "ok", "err"},
           attempt : 1..Attempts, known : BOOLEAN, id : 0..(Attempts + 1), part : Nat,
           spent : Nat, missing : BOOLEAN]

(* Requests about multipart uploads, which name one. *)
Multi  == {"create", "complete", "abort"}
LateOK == \A r \in late : r.kind \in {"copy", "delete"} \/ (r.kind \in Multi /\ r.id \in Ids)

TypeInv ==
    /\ size \in Nat \ {0} /\ chunk \in Nat /\ stream \in BOOLEAN /\ source \in BOOLEAN
    /\ ups \in [Ids -> Upload]
    /\ c \in Copy
    /\ LateOK

(* A request the client has given up on, about multipart upload i. *)
Late(kind, i) == \E r \in late : r.kind = kind /\ r.id = i

(* The upload the copy is at work on. *)
Working(i) == c.pc \in {"parts", "abort", "sparts", "sabort"} /\ c.id = i

(* The copy has come past the create of upload i. *)
Used(i) ==
    IF i <= Attempts THEN i < c.attempt \/ (i = c.attempt /\ c.pc \notin {"off", "head", "copy", "create"})
    ELSE c.pc \in {"sparts", "sabort", "ok", "err"}

(* Upload i is as the copy expects it: each attempt begins with an upload  *)
(* nobody has heard of; while parts are sent it holds exactly those sent   *)
(* so far; a completion that may yet be carried out finds all the parts,   *)
(* or no upload at all; and the copy has not forgotten it.                 *)
Untouched(i) ==
    ups[i] = NoUpload /\ ~Late("create", i) /\ ~Late("complete", i) /\ ~Late("abort", i)

UploadOK(i) ==
    /\ ~Used(i) => Untouched(i)
    /\ Working(i) => ~Late("create", i) /\ ~Late("abort", i)
    /\ Working(i) /\ c.pc \in {"parts", "sparts"} =>
          ups[i].parts = 0..(c.part - 1) /\ c.part <= PartCount(i) /\ ~Late("complete", i)
    /\ Late("complete", i) =>
          /\ ups[i].open => ups[i].parts = 0..(PartCount(i) - 1)
          /\ ~Late("create", i)
    /\ ups[i].open => ups[i].excused \/ Working(i)

WorkInv ==
    /\ c.pc \in {"parts", "abort"} => c.id = c.attempt
    /\ c.pc \in {"sparts", "sabort"} => c.id = Attempts + 1

CopyInv ==
    TypeInv /\ WorkInv /\ (\A i \in Ids : UploadOK(i)) /\ CopyCorrect /\ BudgetHonoured

-----------------------------------------------------------------------------
(* Arithmetic of the parts *)

LEMMA MinOfTwo == ASSUME NEW a \in Int, NEW b \in Int
                  PROVE  Min({a, b}) = IF a <= b THEN a ELSE b
  BY DEF Min

LEMMA MaxOfTwo == ASSUME NEW a \in Int, NEW b \in Int
                  PROVE  Max({a, b}) = IF a >= b THEN a ELSE b
  BY DEF Max

LEMMA Division ==
    ASSUME NEW a \in Nat, NEW b \in Nat \ {0}
    PROVE  a \div b \in Nat /\ b * (a \div b) <= a /\ a < b * ((a \div b) + 1)
  OBVIOUS

(* Rounding up: the last of CeilDiv(a, b) pieces of b is the first to      *)
(* reach a.                                                                *)
LEMMA CeilDivProperties ==
    ASSUME NEW a \in Nat, NEW b \in Nat \ {0}
    PROVE  CeilDiv(a, b) \in Nat /\ a <= b * CeilDiv(a, b)
<1>1. a + b - 1 \in Nat
  OBVIOUS
<1> DEFINE q == (a + b - 1) \div b
<1>2. q \in Nat /\ a + b - 1 < b * (q + 1)
  BY <1>1, Division
<1> HIDE DEF q
<1>3. b * (q + 1) = b * q + b /\ b * q \in Nat
  BY <1>2
<1> QED BY <1>2, <1>3 DEF CeilDiv, q

(* A chunk is never empty, whatever chunk size is configured. *)
LEMMA ChunkPositive ==
    ASSUME TypeInv, NEW i
    PROVE  ChunkSize(i) \in Nat \ {0}
<1> DEFINE conf == IF i > Attempts THEN 0 ELSE chunk
           want == IF conf > 0 THEN conf ELSE CeilDiv(size, MaxParts)
<1>1. conf \in Nat
  BY DEF TypeInv
<1>2. want \in Nat
  BY <1>1, CeilDivProperties, BoundsAssumption DEF TypeInv
<1>3. ChunkSize(i) = Min({Max({want, MinPart}), CopyMax})
  BY DEF ChunkSize, calculate_chunk_size
<1> HIDE DEF want
<1> DEFINE m == Max({want, MinPart})
<1>4. m \in Nat \ {0} /\ CopyMax \in Nat \ {0}
  BY <1>2, MaxOfTwo, BoundsAssumption
<1> HIDE DEF m
<1>5. ChunkSize(i) = IF m <= CopyMax THEN m ELSE CopyMax
  BY <1>3, <1>4, MinOfTwo DEF m
<1> QED BY <1>4, <1>5

LEMMA PartCountType ==
    ASSUME TypeInv, NEW i
    PROVE  PartCount(i) \in Nat /\ size <= ChunkSize(i) * PartCount(i)
  BY ChunkPositive, CeilDivProperties DEF PartCount, TypeInv

(* The parts of an upload cover the object, each byte of it. *)
LEMMA PartsCover ==
    ASSUME TypeInv, NEW i, ups[i].parts = 0..(PartCount(i) - 1)
    PROVE  Assembled(i) = Units
<1> DEFINE ch == ChunkSize(i)
           n == PartCount(i)
<1>1. ch \in Nat \ {0} /\ n \in Nat /\ size <= ch * n /\ size \in Nat \ {0}
  BY ChunkPositive, PartCountType DEF TypeInv
<1>2. Assembled(i) = UNION {PartRange(i, j) : j \in 0..(n - 1)}
  BY <1>1 DEF Assembled
<1>3. \A j \in 0..(n - 1) : PartRange(i, j) = (j * ch)..((IF (j + 1) * ch <= size THEN (j + 1) * ch ELSE size) - 1)
  BY <1>1, MinOfTwo DEF PartRange
<1> HIDE DEF ch, n
<1>4. ASSUME NEW u \in Units
      PROVE  \E j \in 0..(n - 1) : u \in PartRange(i, j)
  <2> DEFINE j == u \div ch
  <2>1. u \in Nat /\ u < size
    BY <1>1 DEF Units
  <2>2. j \in Nat /\ ch * j <= u /\ u < ch * (j + 1)
    BY <1>1, <2>1, Division
  <2> HIDE DEF j
  <2>3. j < n
    <3> SUFFICES ASSUME n <= j PROVE FALSE
      BY <1>1, <2>2
    <3>1. ch * n <= ch * j
      BY <1>1, <2>2
    <3> QED BY <1>1, <2>1, <2>2, <3>1
  <2>4. j * ch = ch * j /\ (j + 1) * ch = ch * (j + 1) /\ ch * j \in Nat /\ ch * (j + 1) \in Nat
    BY <1>1, <2>2
  <2>5. u \in PartRange(i, j)
    BY <1>1, <1>3, <2>1, <2>2, <2>3, <2>4
  <2> QED BY <1>1, <2>2, <2>3, <2>5
<1>5. ASSUME NEW j \in 0..(n - 1), NEW u \in PartRange(i, j)
      PROVE  u \in Units
  <2>1. j * ch \in Nat /\ (j + 1) * ch \in Nat
    BY <1>1
  <2>2. u \in Int /\ j * ch <= u /\ u <= (IF (j + 1) * ch <= size THEN (j + 1) * ch ELSE size) - 1
    BY <1>1, <1>3, <2>1
  <2> QED BY <1>1, <2>1, <2>2 DEF Units
<1> QED BY <1>2, <1>4, <1>5

-----------------------------------------------------------------------------
(* What steps have in common *)

LEMMA SameObject ==
    ASSUME UNCHANGED <<size, chunk>>
    PROVE  /\ \A i : PartCount(i)' = PartCount(i)
           /\ Units' = Units
           /\ s3_deadline("copy", size)' = s3_deadline("copy", size)
  BY DEF PartCount, ChunkSize, Units, s3_deadline

(* Uploads the step is not about. *)
LEMMA Bystander ==
    ASSUME NEW i \in Ids, UploadOK(i), UNCHANGED <<size, chunk>>, ups'[i] = ups[i],
           \A k \in Multi : Late(k, i)' => Late(k, i),
           Used(i) => Used(i)', ~Working(i), ~Working(i)'
    PROVE  UploadOK(i)'
<1>1. PartCount(i)' = PartCount(i)
  BY SameObject
<1>2. /\ Late("create", i)' => Late("create", i)
      /\ Late("complete", i)' => Late("complete", i)
      /\ Late("abort", i)' => Late("abort", i)
  BY DEF Multi
<1> HIDE DEF Late
<1> QED BY <1>1, <1>2 DEF UploadOK, Untouched, NoUpload

(* Any upload, when the copy stays where it is. *)
LEMMA Unmoved ==
    ASSUME NEW i \in Ids, UploadOK(i), UNCHANGED <<size, chunk, c>>, ups'[i] = ups[i],
           \A k \in Multi : Late(k, i)' => Late(k, i)
    PROVE  UploadOK(i)'
<1>1. PartCount(i)' = PartCount(i)
  BY SameObject
<1>2. /\ Late("create", i)' => Late("create", i)
      /\ Late("complete", i)' => Late("complete", i)
      /\ Late("abort", i)' => Late("abort", i)
  BY DEF Multi
<1>3. (Used(i)' <=> Used(i)) /\ (Working(i)' <=> Working(i))
  BY DEF Used, Working
<1> QED BY <1>1, <1>2, <1>3 DEF UploadOK, Untouched, NoUpload

(* The requests given up on grow by one at most. *)
LEMMA GivenUpLate ==
    ASSUME NEW o, NEW kind, GivenUp(o, kind)
    PROVE  \A k, i : Late(k, i)' => Late(k, i) \/ (k = kind /\ i = c.id)
  BY DEF GivenUp, Late

LEMMA GivenUpType ==
    ASSUME TypeInv, NEW o, NEW kind, GivenUp(o, kind),
           kind = "copy" \/ (kind \in Multi /\ c.id \in Ids)
    PROVE  LateOK'
  BY DEF GivenUp, TypeInv, LateOK

(* A step from one place to another, nothing else of the copy changing. *)
LEMMA AtType ==
    ASSUME c \in Copy, NEW p \in {"copy", "err", "get", "put", "screate", "ok", "abort", "sabort"}
    PROVE  At(p) \in Copy /\ At(p).pc = p /\ At(p).attempt = c.attempt /\ At(p).id = c.id
           /\ At(p).spent = c.spent /\ At(p).part = c.part
  BY DEF Copy, At

(* A failed attempt has used up its upload and goes on with a fresh one. *)
LEMMA AttemptFailsMoves ==
    ASSUME TypeInv, c.pc \in {"head", "copy", "create", "abort"},
           NEW m \in BOOLEAN, AttemptFails(m)
    PROVE  /\ c' \in Copy /\ c'.pc \in {"head", "get", "err"}
           /\ \A i \in Ids : Used(i) => Used(i)'
           /\ \A i \in Ids : c.pc \in {"create", "abort"} /\ i = c.attempt => Used(i)'
<1>0. c \in Copy /\ c.attempt \in 1..3 /\ Attempts = 3
  BY DEF TypeInv, Copy, Attempts
<1>1. CASE c' = At("err") \/ c' = At("get")
  <2>1. c' \in Copy /\ c'.pc \in {"err", "get"} /\ c'.attempt = c.attempt
    BY <1>0, <1>1, AtType
  <2> QED BY <1>0, <2>1 DEF Used, Ids
<1>2. CASE c.attempt < Attempts /\ c' = [Idle EXCEPT !.attempt = c.attempt + 1]
  <2>1. c' \in Copy /\ c'.pc = "head" /\ c'.attempt = c.attempt + 1
    <3>1. c.attempt + 1 \in 1..Attempts /\ 0 \in 0..(Attempts + 1)
      BY <1>0, <1>2
    <3> QED BY <1>2, <3>1 DEF Idle, Copy
  <2>2. ~Used(Attempts + 1)
    BY <1>0 DEF Used
  <2>3. \A i \in 1..3 : (Used(i) => i <= c.attempt) /\ (i <= c.attempt => Used(i)')
    BY <1>0, <2>1 DEF Used
  <2>4. \A i \in Ids : i \in 1..3 \/ i = Attempts + 1
    BY <1>0 DEF Ids
  <2> QED BY <1>0, <2>1, <2>2, <2>3, <2>4
<1> QED BY <1>1, <1>2 DEF AttemptFails

(* The steps that touch no upload: the copy is at work on none before and  *)
(* after.                                                                  *)
LEMMA Aside ==
    ASSUME CopyInv, UNCHANGED <<size, chunk, stream, source, ups>>,
           c' \in Copy, c.pc \notin {"parts", "abort", "sparts", "sabort"},
           c'.pc \notin {"parts", "abort", "sparts", "sabort"},
           \A i \in Ids : Used(i) => Used(i)',
           \A k \in Multi, i \in Ids : Late(k, i)' => Late(k, i),
           LateOK',
           dest' \in {dest, Units}, c'.pc = "ok" => dest' = Units
    PROVE  CopyInv'
<1>1. TypeInv'
  BY DEF CopyInv, TypeInv
<1>2. WorkInv' /\ BudgetHonoured'
  BY DEF WorkInv, BudgetHonoured
<1>3. ASSUME NEW i \in Ids PROVE UploadOK(i)'
  <2>1. ~Working(i) /\ ~Working(i)' /\ ups'[i] = ups[i] /\ UploadOK(i)
    BY DEF Working, CopyInv
  <2>2. \A k \in Multi : Late(k, i)' => Late(k, i)
    OBVIOUS
  <2> QED BY <2>1, <2>2, Bystander
<1>4. CopyCorrect'
  BY SameObject DEF CopyInv, CopyCorrect
<1> QED BY <1>1, <1>2, <1>3, <1>4 DEF CopyInv

LEMMA HeadStep == ASSUME CopyInv, Head PROVE CopyInv'
<1>1. /\ UNCHANGED <<size, chunk, stream, source, dest, ups, late>> /\ c.pc = "head"
      /\ TypeInv /\ c \in Copy
  BY DEF Head, input, CopyInv, TypeInv
<1>2. /\ \A k \in Multi, i \in Ids : Late(k, i)' => Late(k, i)
      /\ LateOK'
  BY <1>1 DEF Late, LateOK, TypeInv
<1>3. /\ c' \in Copy /\ c'.pc \in {"create", "copy", "head", "get", "err"}
      /\ \A i \in Ids : Used(i) => Used(i)'
  <2>1. CASE \E o \in Outcomes : AttemptFails(FALSE)
    BY <1>1, <2>1, AttemptFailsMoves
  <2>2. CASE c' = At("copy")
    BY <1>1, <2>2, AtType DEF Used, Ids, Attempts
  <2>3. CASE c' = [c EXCEPT !.pc = IF size > CopyMax THEN "create" ELSE "copy", !.known = TRUE]
    <3>1. c' \in Copy /\ c'.pc \in {"create", "copy"} /\ c'.attempt = c.attempt
      BY <1>1, <2>3 DEF Copy
    <3> QED BY <1>1, <3>1 DEF Used
  <2> QED BY <2>1, <2>2, <2>3 DEF Head
<1> QED BY <1>1, <1>2, <1>3, Aside

LEMMA CopyObjectStep == ASSUME CopyInv, CopyObject PROVE CopyInv'
<1>1. /\ UNCHANGED <<size, chunk, stream, source, ups>> /\ c.pc = "copy"
      /\ TypeInv /\ c \in Copy
  BY DEF CopyObject, input, CopyInv, TypeInv
<1>2. PICK o \in Outcomes :
        /\ GivenUp(o, "copy")
        /\ \/ dest' = Units /\ c' = At("ok")
           \/ AttemptFails(o = "answer" /\ ~source) /\ UNCHANGED dest
  BY DEF CopyObject
<1>3. /\ \A k \in Multi, i \in Ids : Late(k, i)' => Late(k, i)
      /\ LateOK'
  BY <1>1, <1>2, GivenUpLate, GivenUpType DEF Multi
<1>4. CASE dest' = Units /\ c' = At("ok")
  <2>1. c' \in Copy /\ c'.pc = "ok" /\ \A i \in Ids : Used(i) => Used(i)'
    BY <1>1, <1>4, AtType DEF Used, Ids, Attempts
  <2> QED BY <1>1, <1>3, <1>4, <2>1, Aside
<1>5. CASE AttemptFails(o = "answer" /\ ~source) /\ UNCHANGED dest
  <2>1. /\ c' \in Copy /\ c'.pc \in {"head", "get", "err"}
        /\ \A i \in Ids : Used(i) => Used(i)'
    BY <1>1, <1>5, AttemptFailsMoves
  <2> QED BY <1>1, <1>3, <1>5, <2>1, Aside
<1> QED BY <1>2, <1>4, <1>5

LEMMA StreamGetStep == ASSUME CopyInv, StreamGet \/ StreamPut PROVE CopyInv'
<1>1. /\ UNCHANGED <<size, chunk, stream, source, ups, late>> /\ c.pc \in {"get", "put"}
      /\ TypeInv /\ c \in Copy
  BY DEF StreamGet, StreamPut, input, CopyInv, TypeInv
<1>2. /\ \A k \in Multi, i \in Ids : Late(k, i)' => Late(k, i)
      /\ LateOK'
  BY <1>1 DEF Late, LateOK, TypeInv
<1>3. /\ \E p \in {"err", "put", "screate", "ok"} : c' = At(p) /\ (p = "ok" => dest' = Units)
      /\ dest' \in {dest, Units}
  BY DEF StreamGet, StreamPut
<1>4. /\ c' \in Copy /\ c'.pc \in {"err", "put", "screate", "ok"}
      /\ c'.pc = "ok" => dest' = Units
      /\ c'.attempt = c.attempt
  BY <1>1, <1>3, AtType
<1>5. \A i \in Ids : Used(i) => Used(i)'
  BY <1>1, <1>4 DEF Used
<1> QED BY <1>1, <1>2, <1>3, <1>4, <1>5, Aside

-----------------------------------------------------------------------------
(* Multipart uploads *)

LEMMA DeadlineType ==
    ASSUME NEW n \in Nat, RequestTimeout > 0
    PROVE  /\ s3_deadline("copy", n) \in Nat /\ RequestTimeout <= s3_deadline("copy", n)
           /\ s3_deadline("metadata", n) = RequestTimeout
<1>1. CASE Rate = 0
  BY <1>1, BoundsAssumption DEF s3_deadline
<1>2. CASE Rate # 0
  <2>1. n \div Rate \in Nat
    BY <1>2, Division, BoundsAssumption
  <2> QED BY <1>2, <2>1, BoundsAssumption DEF s3_deadline
<1> QED BY <1>1, <1>2

(* Without a configured timeout there are no deadlines. *)
LEMMA NoDeadlines ==
    ASSUME NEW class, NEW n, ~(RequestTimeout > 0)
    PROVE  s3_deadline(class, n) = NoDeadline
  BY BoundsAssumption DEF s3_deadline

(* A create is about an upload nobody has heard of. *)
LEMMA CreateKeeps ==
    ASSUME CopyInv, NEW k \in Ids, NEW o \in Outcomes, Create(k, o), ~Used(k),
           c.pc \notin {"parts", "abort", "sparts", "sabort"},
           UNCHANGED <<size, chunk, stream, source, dest>>,
           c' \in Copy, WorkInv', BudgetHonoured', Used(k)', c'.pc # "ok",
           \A i \in Ids : Used(i) => Used(i)',
           \/ o = "answer" /\ c'.pc \in {"parts", "sparts"} /\ c'.id = k /\ c'.part = 0
           \/ o # "answer" /\ c'.pc \notin {"parts", "abort", "sparts", "sabort"}
    PROVE  CopyInv'
<1>0. /\ TypeInv /\ UploadOK(k) /\ Untouched(k)
  BY DEF CopyInv, UploadOK
<1>u. NoUpload \in Upload /\ [NoUpload EXCEPT !.open = TRUE] \in Upload
  BY DEF NoUpload, Upload
<1>1. TypeInv'
  <2>1. ups' \in [Ids -> Upload]
    BY <1>0, <1>u DEF TypeInv, Create, Opened
  <2>2. LateOK'
    BY <1>0 DEF TypeInv, Create, LateOK, Multi
  <2> QED BY <1>0, <2>1, <2>2 DEF TypeInv
<1>l. /\ \A j \in Multi, i \in Ids : Late(j, i)' => Late(j, i) \/ (j = "create" /\ i = k)
      /\ o = "answer" => \A j \in Multi, i \in Ids : Late(j, i)' => Late(j, i)
  BY DEF Late, Create, Multi, Outcomes
<1>3. ASSUME NEW i \in Ids PROVE UploadOK(i)'
  <2>1. CASE i # k
    <3>1. ups'[i] = ups[i] /\ ~Working(i) /\ ~Working(i)' /\ UploadOK(i)
      BY <1>0, <2>1 DEF TypeInv, Create, Opened, Working, CopyInv
    <3>2. \A j \in Multi : Late(j, i)' => Late(j, i)
      BY <1>l, <2>1
    <3> QED BY <3>1, <3>2, Bystander
  <2>2. CASE i = k /\ o = "answer"
    <3>1. /\ ups'[k].parts = {} /\ Working(k)' /\ Used(k)' /\ c'.part = 0
      BY <1>0, <2>2 DEF Create, Opened, NoUpload, Working, TypeInv
    <3>2. ~Late("create", k)' /\ ~Late("complete", k)' /\ ~Late("abort", k)'
      BY <1>0, <1>l, <2>2 DEF Untouched, Multi
    <3>3. 0 <= PartCount(k)' /\ 0..(c'.part - 1) = {}
      BY <1>1, <3>1, PartCountType, SameObject, <1>0
    <3> QED BY <2>2, <3>1, <3>2, <3>3 DEF UploadOK
  <2>3. CASE i = k /\ o # "answer"
    <3>1. ups'[k] = NoUpload /\ ~Working(k)' /\ Used(k)' /\ ~ups'[k].open
      BY <1>0, <2>3 DEF Create, Working, Untouched, NoUpload
    <3>2. ~Late("complete", k)'
      BY <1>0, <1>l DEF Untouched, Multi
    <3> QED BY <2>3, <3>1, <3>2 DEF UploadOK
  <2> QED BY <2>1, <2>2, <2>3
<1>4. CopyCorrect'
  BY SameObject DEF CopyInv, CopyCorrect
<1> QED BY <1>1, <1>3, <1>4 DEF CopyInv

LEMMA CreateStep == ASSUME CopyInv, CreateMultipartCopy PROVE CopyInv'
<1> DEFINE dl == s3_deadline("metadata", 0)
<1>k. PICK k \in 1..3 : k = c.attempt
  BY DEF CopyInv, TypeInv, Copy, Attempts
<1>1. /\ UNCHANGED <<size, chunk, stream, source, dest>> /\ c.pc = "create"
      /\ TypeInv /\ c \in Copy /\ k = c.attempt /\ Attempts = 3
  BY <1>k DEF CreateMultipartCopy, input, CopyInv, TypeInv, Attempts
<1>2. PICK o \in Outcomes : \E t \in Took(o, dl) :
        /\ Create(k, o)
        /\ IF o = "answer" THEN c' = [c EXCEPT !.pc = "parts", !.id = k, !.part = 0, !.spent = t]
           ELSE AttemptFails(FALSE)
  BY <1>1 DEF CreateMultipartCopy
<1>3. PICK t \in Took(o, dl) :
        /\ Create(k, o)
        /\ IF o = "answer" THEN c' = [c EXCEPT !.pc = "parts", !.id = k, !.part = 0, !.spent = t]
           ELSE AttemptFails(FALSE)
  BY <1>2
<1>4. k \in Ids /\ ~Used(k)
  BY <1>1 DEF Ids, Used
<1>5. CASE o = "answer"
  <2>1. t \in Nat /\ (RequestTimeout > 0 => t <= s3_deadline("copy", size))
    <3>1. CASE RequestTimeout > 0
      <4>1. dl = RequestTimeout /\ RequestTimeout <= s3_deadline("copy", size)
        BY <1>1, <3>1, DeadlineType DEF TypeInv
      <4> QED BY <1>1, <3>1, <4>1, DeadlineType, BoundsAssumption DEF Took, TypeInv, NoDeadline
    <3>2. CASE ~(RequestTimeout > 0)
      BY <3>2, NoDeadlines DEF Took
    <3> QED BY <3>1, <3>2
  <2>2. /\ c' \in Copy /\ c'.pc = "parts" /\ c'.id = k /\ c'.part = 0 /\ c'.spent = t
        /\ c'.attempt = k
    <3>1. k \in 0..(Attempts + 1) /\ 0 \in Nat
      BY <1>1
    <3> QED BY <1>1, <1>3, <1>5, <2>1, <3>1 DEF Copy
  <2>3. Used(k)' /\ \A i \in Ids : Used(i) => Used(i)'
    BY <1>1, <2>2 DEF Used, Ids
  <2>4. WorkInv' /\ BudgetHonoured'
    BY <1>1, <2>1, <2>2, SameObject DEF WorkInv, BudgetHonoured
  <2> QED BY <1>1, <1>3, <1>4, <1>5, <2>2, <2>3, <2>4, CreateKeeps
<1>6. CASE o # "answer"
  <2>1. /\ c' \in Copy /\ c'.pc \in {"head", "get", "err"} /\ Used(k)'
        /\ \A i \in Ids : Used(i) => Used(i)'
    BY <1>1, <1>3, <1>4, <1>6, AttemptFailsMoves
  <2>2. WorkInv' /\ BudgetHonoured'
    BY <2>1 DEF WorkInv, BudgetHonoured
  <2> QED BY <1>1, <1>3, <1>4, <1>6, <2>1, <2>2, CreateKeeps
<1> QED BY <1>5, <1>6

LEMMA StreamCreateStep == ASSUME CopyInv, StreamCreate PROVE CopyInv'
<1> DEFINE k == Attempts + 1
<1>1. /\ UNCHANGED <<size, chunk, stream, source, dest>> /\ c.pc = "screate"
      /\ TypeInv /\ c \in Copy /\ k = 4 /\ Attempts = 3
  BY DEF StreamCreate, input, CopyInv, TypeInv, Copy, Attempts
<1>2. PICK o \in Outcomes :
        /\ Create(k, o)
        /\ c' = IF o = "answer" THEN [c EXCEPT !.pc = "sparts", !.id = k, !.part = 0] ELSE At("err")
  BY DEF StreamCreate
<1>4. k \in Ids /\ ~Used(k)
  BY <1>1 DEF Ids, Used
<1>5. /\ c' \in Copy /\ c'.attempt = c.attempt
      /\ \/ o = "answer" /\ c'.pc = "sparts" /\ c'.id = k /\ c'.part = 0
         \/ o # "answer" /\ c'.pc = "err"
  <2>1. CASE o = "answer"
    <3>1. k \in 0..(Attempts + 1) /\ 0 \in Nat
      BY <1>1
    <3> QED BY <1>1, <1>2, <2>1, <3>1 DEF Copy
  <2>2. CASE o # "answer"
    BY <1>1, <1>2, <2>2, AtType
  <2> QED BY <2>1, <2>2
<1>6. Used(k)' /\ \A i \in Ids : Used(i) => Used(i)'
  BY <1>1, <1>5 DEF Used, Ids
<1>7. WorkInv' /\ BudgetHonoured'
  BY <1>5 DEF WorkInv, BudgetHonoured
<1> QED BY <1>1, <1>2, <1>4, <1>5, <1>6, <1>7, CreateKeeps

LEMMA WorkingUsed ==
    ASSUME CopyInv, NEW k \in Ids, Working(k)
    PROVE  Used(k)
<1>1. c.attempt \in 1..3 /\ Attempts = 3 /\ k = c.id
  BY DEF CopyInv, TypeInv, Copy, Attempts, Working
<1>2. CASE c.pc \in {"parts", "abort"}
  BY <1>1, <1>2 DEF CopyInv, WorkInv, Used
<1>3. CASE c.pc \in {"sparts", "sabort"}
  BY <1>1, <1>3 DEF CopyInv, WorkInv, Used
<1> QED BY <1>2, <1>3 DEF Working

(* One more part, or none and on to the abort. *)
LEMMA PartKeeps ==
    ASSUME CopyInv, NEW k \in Ids, k = c.id, c.pc \in {"parts", "sparts"}, c.part < PartCount(k),
           UNCHANGED <<size, chunk, stream, source, dest, late>>,
           c' \in Copy, c'.id = k, c'.attempt = c.attempt, BudgetHonoured',
           \/ upload_part(TRUE) /\ c'.pc = c.pc /\ c'.part = c.part + 1
           \/ ups' = ups /\ c'.pc = (IF c.pc = "parts" THEN "abort" ELSE "sabort")
    PROVE  CopyInv'
<1>0. TypeInv /\ UploadOK(k) /\ ups[k] \in Upload /\ c.part \in Nat /\ Working(k)
  BY DEF CopyInv, TypeInv, Copy, Working
<1>u. /\ ups' \in [Ids -> Upload] /\ \A i \in Ids \ {k} : ups'[i] = ups[i]
      /\ ups'[k].open = ups[k].open /\ ups'[k].excused = ups[k].excused
      /\ c'.pc \in {"abort", "sabort"} => ups'[k] = ups[k]
      /\ c'.pc \in {"parts", "sparts"} =>
            ups'[k].parts = ups[k].parts \cup {c.part} /\ c'.part = c.part + 1
  <2>1. CASE upload_part(TRUE) /\ c'.pc = c.pc /\ c'.part = c.part + 1
    <3>1. ups' = [ups EXCEPT ![k] = [ups[k] EXCEPT !.parts = ups[k].parts \cup {c.part}]]
      BY <2>1 DEF upload_part
    <3>2. [ups[k] EXCEPT !.parts = ups[k].parts \cup {c.part}] \in Upload
      BY <1>0 DEF Upload
    <3> QED BY <1>0, <2>1, <3>1, <3>2 DEF TypeInv, Upload
  <2>2. CASE ups' = ups /\ c'.pc \in {"abort", "sabort"}
    BY <1>0, <2>2 DEF TypeInv
  <2> QED BY <2>1, <2>2
<1>1. TypeInv'
  BY <1>0, <1>u DEF TypeInv, LateOK
<1>2. WorkInv'
  BY DEF CopyInv, WorkInv
<1>l. \A j \in Multi, i \in Ids : Late(j, i)' <=> Late(j, i)
  BY DEF Late
<1>m. \A i \in Ids : Used(i) => Used(i)'
  BY <1>0, <1>1 DEF Used, CopyInv, WorkInv
<1>p. PartCount(k)' = PartCount(k) /\ PartCount(k) \in Nat
  BY <1>0, SameObject, PartCountType
<1>3. ASSUME NEW i \in Ids PROVE UploadOK(i)'
  <2>1. CASE i # k
    <3>1. ups'[i] = ups[i] /\ ~Working(i) /\ ~Working(i)' /\ UploadOK(i)
      BY <1>u, <2>1 DEF Working, CopyInv
    <3>2. \A j \in Multi : Late(j, i)' => Late(j, i)
      BY <1>l
    <3> QED BY <1>m, <3>1, <3>2, Bystander
  <2>2. CASE i = k
    <3>1. Used(k) /\ Used(k)' /\ Working(k)'
      BY <1>0, <1>m, WorkingUsed DEF Working
    <3>2. ~Late("create", k)' /\ ~Late("complete", k)' /\ ~Late("abort", k)' /\ ups[k].parts = 0..(c.part - 1)
      BY <1>0, <1>l DEF UploadOK, Multi
    <3>3. c'.pc \in {"parts", "sparts"} =>
             ups'[k].parts = 0..(c'.part - 1) /\ c'.part <= PartCount(k)'
      <4>1. (0..(c.part - 1)) \cup {c.part} = 0..c.part
        BY <1>0
      <4>2. c.part + 1 <= PartCount(k) /\ (c.part + 1) - 1 = c.part
        BY <1>0, <1>p
      <4> QED BY <1>u, <1>p, <3>2, <4>1, <4>2
    <3> QED BY <2>2, <3>1, <3>2, <3>3 DEF UploadOK
  <2> QED BY <2>1, <2>2
<1>4. CopyCorrect'
  BY SameObject DEF CopyInv, CopyCorrect
<1> QED BY <1>1, <1>2, <1>3, <1>4 DEF CopyInv

(* Completed with all the parts, or given up and on to the abort. *)
LEMMA CompletionKeeps ==
    ASSUME CopyInv, NEW k \in Ids, k = c.id, c.pc \in {"parts", "sparts"}, c.part = PartCount(k),
           UNCHANGED <<size, chunk, stream, source>>,
           NEW o \in Outcomes, GivenUp(o, "complete"),
           c' \in Copy, c'.id = k, c'.attempt = c.attempt, BudgetHonoured',
           \/ /\ o = "answer" /\ dest' = Assembled(k) /\ ups' = [ups EXCEPT ![k] = NoUpload]
              /\ c'.pc = "ok"
           \/ /\ UNCHANGED <<dest, ups>>
              /\ c'.pc = (IF c.pc = "parts" THEN "abort" ELSE "sabort")
    PROVE  CopyInv'
<1>0. /\ TypeInv /\ UploadOK(k) /\ c.part \in Nat /\ Working(k)
      /\ ups[k].parts = 0..(PartCount(k) - 1)
  BY DEF CopyInv, TypeInv, Copy, Working, UploadOK
<1>1. TypeInv'
  <2>1. ups' \in [Ids -> Upload]
    <3>1. NoUpload \in Upload
      BY DEF NoUpload, Upload
    <3> QED BY <1>0, <3>1 DEF TypeInv
  <2>2. LateOK'
    BY <1>0, GivenUpType DEF Multi
  <2> QED BY <1>0, <2>1, <2>2 DEF TypeInv
<1>2. WorkInv'
  BY DEF CopyInv, WorkInv
<1>l. /\ \A j \in Multi, i \in Ids : Late(j, i)' => Late(j, i) \/ (j = "complete" /\ i = k)
      /\ c'.pc = "ok" => \A j \in Multi, i \in Ids : Late(j, i)' => Late(j, i)
  <2>1. \A j \in Multi, i \in Ids : Late(j, i)' => Late(j, i) \/ (j = "complete" /\ i = k)
    BY GivenUpLate
  <2>2. c'.pc = "ok" => late' = late
    BY DEF GivenUp
  <2> QED BY <2>1, <2>2 DEF Late
<1>m. \A i \in Ids : Used(i) => Used(i)'
  BY <1>0, <1>1 DEF Used, CopyInv, WorkInv
<1>p. PartCount(k)' = PartCount(k)
  BY SameObject
<1>3. ASSUME NEW i \in Ids PROVE UploadOK(i)'
  <2>1. CASE i # k
    <3>1. ups'[i] = ups[i] /\ ~Working(i) /\ ~Working(i)' /\ UploadOK(i)
      BY <1>0, <2>1 DEF Working, CopyInv, TypeInv
    <3>2. \A j \in Multi : Late(j, i)' => Late(j, i)
      BY <1>l, <2>1
    <3> QED BY <1>m, <3>1, <3>2, Bystander
  <2>2. CASE i = k
    <3>1. Used(k) /\ Used(k)'
      BY <1>0, <1>m, WorkingUsed
    <3>2. ~Late("create", k)' /\ ~Late("abort", k)'
      BY <1>0, <1>l DEF UploadOK, Multi
    <3>3. CASE c'.pc = "ok"
      <4>1. ~Late("complete", k)' /\ ups'[k] = NoUpload /\ ~Working(k)' /\ ~ups'[k].open
        BY <1>0, <1>l, <3>3 DEF UploadOK, Multi, Working, NoUpload, TypeInv
      <4> QED BY <2>2, <3>1, <3>2, <4>1 DEF UploadOK
    <3>4. CASE c'.pc \in {"abort", "sabort"}
      <4>1. Working(k)' /\ ups'[k] = ups[k]
        BY <3>4 DEF Working
      <4> QED BY <1>0, <1>p, <2>2, <3>1, <3>2, <3>4, <4>1 DEF UploadOK
    <3> QED BY <3>3, <3>4
  <2> QED BY <2>1, <2>2
<1>4. CopyCorrect'
  BY <1>0, SameObject, PartsCover DEF CopyInv, CopyCorrect
<1> QED BY <1>1, <1>2, <1>3, <1>4 DEF CopyInv

(* After an abort the upload is gone, or excused. *)
LEMMA AbortKeeps ==
    ASSUME CopyInv, NEW k \in Ids, k = c.id, c.pc \in {"abort", "sabort"},
           UNCHANGED <<size, chunk, stream, source, dest>>, abort_multipart_upload,
           c' \in Copy, c'.pc \in {"head", "get", "err"}, Used(k)',
           \A i \in Ids : Used(i) => Used(i)'
    PROVE  CopyInv'
<1>0. TypeInv /\ UploadOK(k) /\ Working(k) /\ ups[k] \in Upload
  BY DEF CopyInv, Working, TypeInv
<1>a. PICK o \in Outcomes :
        /\ GivenUp(o, "abort")
        /\ ups' = [ups EXCEPT ![k] = IF o = "answer" THEN NoUpload
                                      ELSE [ups[k] EXCEPT !.excused = TRUE]]
  BY DEF abort_multipart_upload
<1>u. /\ ups' \in [Ids -> Upload] /\ \A i \in Ids \ {k} : ups'[i] = ups[i]
      /\ ups'[k].open => ups'[k].excused /\ ups[k].open /\ ups'[k].parts = ups[k].parts
  <2>1. /\ NoUpload \in Upload /\ ~NoUpload.open
        /\ [ups[k] EXCEPT !.excused = TRUE] \in Upload
        /\ [ups[k] EXCEPT !.excused = TRUE].excused = TRUE
        /\ [ups[k] EXCEPT !.excused = TRUE].open = ups[k].open
        /\ [ups[k] EXCEPT !.excused = TRUE].parts = ups[k].parts
    BY <1>0 DEF NoUpload, Upload
  <2> QED BY <1>0, <1>a, <2>1 DEF TypeInv
<1>1. TypeInv'
  <2>1. LateOK'
    BY <1>0, <1>a, GivenUpType DEF Multi
  <2> QED BY <1>0, <1>u, <2>1 DEF TypeInv
<1>2. WorkInv' /\ BudgetHonoured'
  BY DEF WorkInv, BudgetHonoured
<1>l. \A j \in Multi, i \in Ids : Late(j, i)' => Late(j, i) \/ (j = "abort" /\ i = k)
  BY <1>a, GivenUpLate
<1>p. PartCount(k)' = PartCount(k)
  BY SameObject
<1>3. ASSUME NEW i \in Ids PROVE UploadOK(i)'
  <2>1. CASE i # k
    <3>1. ups'[i] = ups[i] /\ ~Working(i) /\ ~Working(i)' /\ UploadOK(i)
      BY <1>u, <2>1 DEF Working, CopyInv
    <3>2. \A j \in Multi : Late(j, i)' => Late(j, i)
      BY <1>l, <2>1
    <3> QED BY <3>1, <3>2, Bystander
  <2>2. CASE i = k
    <3>1. ~Working(k)'
      BY DEF Working
    <3>2. ~Late("create", k)' /\ (Late("complete", k)' => Late("complete", k))
      BY <1>0, <1>l DEF UploadOK, Multi
    <3> QED BY <1>0, <1>p, <1>u, <2>2, <3>1, <3>2 DEF UploadOK
  <2> QED BY <2>1, <2>2
<1>4. CopyCorrect'
  BY SameObject DEF CopyInv, CopyCorrect
<1> QED BY <1>1, <1>2, <1>3, <1>4 DEF CopyInv

(* What is left of the budget, and a part's share of it. *)
LEMMA BudgetLeft ==
    ASSUME CopyInv, c.pc = "parts"
    PROVE  /\ RequestTimeout > 0 =>
                 remaining_budget \in Nat /\ c.spent + remaining_budget <= s3_deadline("copy", size)
           /\ ~(RequestTimeout > 0) => remaining_budget = NoDeadline
<1>1. size \in Nat /\ c.spent \in Nat
  BY DEF CopyInv, TypeInv, Copy
<1>2. CASE RequestTimeout > 0
  <2> DEFINE b == s3_deadline("copy", size)
  <2>1. b \in Nat /\ c.spent <= b
    BY <1>1, <1>2, DeadlineType DEF CopyInv, BudgetHonoured
  <2>2. remaining_budget = Max({0, b - c.spent})
    BY <2>1 DEF remaining_budget, NoDeadline
  <2> HIDE DEF b
  <2>3. Max({0, b - c.spent}) = b - c.spent
    BY <1>1, <2>1, MaxOfTwo
  <2> QED BY <1>1, <1>2, <2>1, <2>2, <2>3 DEF b
<1>3. CASE ~(RequestTimeout > 0)
  BY <1>3, NoDeadlines DEF remaining_budget
<1> QED BY <1>2, <1>3

LEMMA PartDeadlineShare ==
    ASSUME CopyInv, c.pc = "parts"
    PROVE  /\ RequestTimeout > 0 => PartDeadline(c.part) \in Nat /\ PartDeadline(c.part) <= remaining_budget
           /\ ~(RequestTimeout > 0) => PartDeadline(c.part) = NoDeadline
<1> DEFINE n == Cardinality(PartRange(c.id, c.part))
           d == s3_deadline("copy", n)
<1>1. n \in Nat
  <2> DEFINE ch == ChunkSize(c.id)
  <2>1. ch \in Nat \ {0} /\ size \in Nat /\ c.part \in Nat
    BY ChunkPositive DEF CopyInv, TypeInv, Copy
  <2> HIDE DEF ch
  <2>2. c.part * ch \in Int /\ (c.part + 1) * ch \in Int
    BY <2>1
  <2>3. Min({(c.part + 1) * ch, size}) \in Int
    BY <2>1, <2>2, MinOfTwo
  <2>4. IsFiniteSet(PartRange(c.id, c.part))
    BY <2>2, <2>3, FS_Interval DEF PartRange, ch
  <2> QED BY <2>4, FS_CardinalityType
<1>2. CASE RequestTimeout > 0
  <2> HIDE DEF n
  <2>1. d \in Nat /\ remaining_budget \in Nat
    BY <1>1, <1>2, DeadlineType, BudgetLeft
  <2>2. PartDeadline(c.part) = Min({d, remaining_budget})
    BY <2>1 DEF PartDeadline, NoDeadline, n
  <2> HIDE DEF d
  <2>3. PartDeadline(c.part) = IF d <= remaining_budget THEN d ELSE remaining_budget
    BY <2>1, <2>2, MinOfTwo
  <2> QED BY <1>2, <2>1, <2>3
<1>3. CASE ~(RequestTimeout > 0)
  BY <1>3, NoDeadlines DEF PartDeadline
<1> QED BY <1>2, <1>3

LEMMA PartStep == ASSUME CopyInv, UploadPartCopy PROVE CopyInv'
<1>0. c.pc = "parts"
  BY DEF UploadPartCopy
<1>k. PICK k \in Ids : k = c.id
  BY <1>0 DEF CopyInv, TypeInv, Copy, Ids, WorkInv, Attempts
<1>1. /\ UNCHANGED <<size, chunk, stream, source, dest, late>> /\ c.pc = "parts"
      /\ c.part < PartCount(k) /\ TypeInv /\ c \in Copy
  BY <1>k DEF UploadPartCopy, input, CopyInv, TypeInv
<1>2. CASE c' = At("abort") /\ UNCHANGED ups
  <2>1. /\ c' \in Copy /\ c'.pc = "abort" /\ c'.attempt = c.attempt /\ c'.id = k
        /\ c'.spent = c.spent
    BY <1>1, <1>2, <1>k, AtType
  <2>2. BudgetHonoured'
    BY <1>1, <2>1, SameObject DEF BudgetHonoured, CopyInv
  <2> QED BY <1>k, <1>1, <1>2, <2>1, <2>2, PartKeeps
<1>3. ASSUME NEW o \in Outcomes, NEW t \in Took(o, PartDeadline(c.part)),
             LET done == o = "answer" /\ source
             IN /\ upload_part(done)
                /\ c' = IF done THEN [c EXCEPT !.part = @ + 1, !.spent = @ + t]
                        ELSE [c EXCEPT !.pc = "abort", !.spent = @ + t,
                                       !.missing = o = "answer" /\ ~source]
      PROVE  CopyInv'
  <2>1. /\ t \in Nat
        /\ RequestTimeout > 0 => c.spent + t <= s3_deadline("copy", size)
    <3>1. c.spent \in Nat /\ size \in Nat
      BY <1>1 DEF TypeInv, Copy
    <3>2. CASE RequestTimeout > 0
      <4> DEFINE d == PartDeadline(c.part)
                 b == s3_deadline("copy", size)
      <4>1. d \in Nat /\ d <= remaining_budget /\ remaining_budget \in Nat /\ b \in Nat
            /\ c.spent + remaining_budget <= b
        BY <1>1, <3>1, <3>2, PartDeadlineShare, BudgetLeft, DeadlineType
      <4>2. t \in {0, d}
        BY <4>1 DEF Took, NoDeadline
      <4> HIDE DEF d, b
      <4> QED BY <3>1, <4>1, <4>2 DEF b
    <3>3. CASE ~(RequestTimeout > 0)
      BY <1>1, <3>3, PartDeadlineShare DEF Took
    <3> QED BY <3>2, <3>3
  <2>2. /\ c' \in Copy /\ c'.attempt = c.attempt /\ c'.id = k /\ c'.spent = c.spent + t
        /\ \/ upload_part(TRUE) /\ c'.pc = "parts" /\ c'.part = c.part + 1
           \/ ups' = ups /\ c'.pc = "abort"
    <3>0. c.spent + t \in Nat /\ c.part + 1 \in Nat
      BY <1>1, <2>1 DEF Copy
    <3>1. CASE o = "answer" /\ source
      <4>1. c' = [c EXCEPT !.part = c.part + 1, !.spent = c.spent + t] /\ upload_part(TRUE)
        BY <1>3, <3>1 DEF upload_part
      <4> QED BY <1>1, <1>k, <3>0, <4>1 DEF Copy
    <3>2. CASE ~(o = "answer" /\ source)
      <4>1. PICK m \in BOOLEAN : c' = [c EXCEPT !.pc = "abort", !.spent = c.spent + t, !.missing = m]
        BY <1>3, <3>2
      <4>2. ups' = ups
        BY <1>3, <3>2 DEF upload_part
      <4> QED BY <1>1, <1>k, <3>0, <4>1, <4>2 DEF Copy
    <3> QED BY <3>1, <3>2
  <2>3. BudgetHonoured'
    BY <1>1, <2>1, <2>2, SameObject DEF BudgetHonoured
  <2> QED BY <1>k, <1>1, <2>2, <2>3, PartKeeps
<1> QED BY <1>2, <1>3 DEF UploadPartCopy

LEMMA StreamPartStep == ASSUME CopyInv, StreamPart PROVE CopyInv'
<1>k. PICK k \in Ids : k = c.id
  BY DEF CopyInv, TypeInv, Copy, Ids, WorkInv, StreamPart, Attempts
<1>1. /\ UNCHANGED <<size, chunk, stream, source, dest, late>> /\ c.pc = "sparts"
      /\ c.part < PartCount(k) /\ TypeInv /\ c \in Copy
  BY <1>k DEF StreamPart, input, CopyInv, TypeInv
<1>2. PICK o \in {"answer", "error"} :
         /\ upload_part(o = "answer")
         /\ c' = IF o = "answer" THEN [c EXCEPT !.part = @ + 1] ELSE At("sabort")
  BY DEF StreamPart
<1>3. /\ c' \in Copy /\ c'.attempt = c.attempt /\ c'.id = k
      /\ \/ upload_part(TRUE) /\ c'.pc = "sparts" /\ c'.part = c.part + 1
         \/ ups' = ups /\ c'.pc = "sabort"
  <2>1. CASE o = "answer"
    <3>1. c' = [c EXCEPT !.part = c.part + 1] /\ c.part + 1 \in Nat /\ upload_part(TRUE)
      BY <1>1, <1>2, <2>1 DEF Copy, upload_part
    <3> QED BY <1>1, <1>k, <3>1 DEF Copy
  <2>2. CASE o # "answer"
    BY <1>1, <1>2, <1>k, <2>2, AtType DEF upload_part
  <2> QED BY <2>1, <2>2
<1>4. BudgetHonoured'
  BY <1>3 DEF BudgetHonoured
<1> QED BY <1>k, <1>1, <1>3, <1>4, PartKeeps

LEMMA CompletionMoves ==
    ASSUME CopyInv, NEW k \in Ids, k = c.id, c.pc \in {"parts", "sparts"}, c.part = PartCount(k),
           UNCHANGED <<size, chunk, stream, source>>,
           NEW deadline \in Nat \cup {NoDeadline},
           Completion(deadline, IF c.pc = "parts" THEN "abort" ELSE "sabort"),
           c.pc = "parts" /\ RequestTimeout > 0 =>
              c.spent + deadline <= s3_deadline("copy", size)
    PROVE  CopyInv'
<1> DEFINE failed == IF c.pc = "parts" THEN "abort" ELSE "sabort"
<1>1. PICK o \in Outcomes :
        /\ o = "timeout" => deadline # NoDeadline
        /\ GivenUp(o, "complete")
        /\ IF o = "answer" /\ PartCount(k) <= MaxParts
           THEN dest' = Assembled(k) /\ ups' = [ups EXCEPT ![k] = NoUpload] /\ c' = At("ok")
           ELSE /\ c' = [c EXCEPT !.pc = failed, !.spent = IF o = "timeout" THEN @ + deadline ELSE @]
                /\ UNCHANGED <<dest, ups>>
  BY DEF Completion, with_deadline
<1>2. c \in Copy /\ c.spent \in Nat /\ size \in Nat
  BY DEF CopyInv, TypeInv, Copy
<1>3. CASE o = "answer" /\ PartCount(k) <= MaxParts
  <2>1. c' \in Copy /\ c'.pc = "ok" /\ c'.id = k /\ c'.attempt = c.attempt
    BY <1>1, <1>2, <1>3, AtType
  <2>2. BudgetHonoured'
    BY <2>1 DEF BudgetHonoured
  <2> QED BY <1>1, <1>3, <2>1, <2>2, CompletionKeeps
<1>4. CASE ~(o = "answer" /\ PartCount(k) <= MaxParts)
  <2> DEFINE n == IF o = "timeout" THEN c.spent + deadline ELSE c.spent
  <2>1. n \in Nat /\ (c.pc = "parts" /\ RequestTimeout > 0 => n <= s3_deadline("copy", size))
    <3>1. CASE o = "timeout"
      BY <1>1, <1>2, <3>1
    <3>2. CASE o # "timeout"
      BY <1>2, <3>2 DEF CopyInv, BudgetHonoured
    <3> QED BY <3>1, <3>2
  <2>2. c' = [c EXCEPT !.pc = failed, !.spent = n] /\ UNCHANGED <<dest, ups>>
    BY <1>1, <1>4
  <2> HIDE DEF n
  <2>3. /\ c' \in Copy /\ c'.pc = failed /\ c'.id = k /\ c'.attempt = c.attempt
        /\ c'.spent = n
    BY <1>2, <2>1, <2>2 DEF Copy
  <2>4. BudgetHonoured'
    BY <2>1, <2>3, SameObject DEF BudgetHonoured
  <2> QED BY <1>1, <2>2, <2>3, <2>4, CompletionKeeps
<1> QED BY <1>3, <1>4

LEMMA CompleteStep == ASSUME CopyInv, CompleteMultipartCopy PROVE CopyInv'
<1>0. c.pc = "parts" /\ c.part = PartCount(c.id) /\ UNCHANGED <<size, chunk, stream, source>>
  BY DEF CompleteMultipartCopy, input
<1>k. PICK k \in Ids : k = c.id
  BY <1>0 DEF CopyInv, TypeInv, Copy, Ids, WorkInv, Attempts
<1>1. CASE c' = At("abort") /\ UNCHANGED <<dest, ups, late>>
  <2>1. /\ c' \in Copy /\ c'.pc = "abort" /\ c'.attempt = c.attempt /\ c'.id = k
        /\ c'.spent = c.spent
    BY <1>0, <1>1, <1>k, AtType DEF CopyInv, TypeInv
  <2>2. BudgetHonoured'
    BY <1>0, <2>1, SameObject DEF BudgetHonoured, CopyInv
  <2>3. GivenUp("error", "complete") /\ "error" \in Outcomes
    BY <1>1 DEF GivenUp, Outcomes
  <2> QED BY <1>k, <1>0, <1>1, <2>1, <2>2, <2>3, CompletionKeeps
<1>2. CASE Completion(remaining_budget, "abort")
  <2>1. remaining_budget \in Nat \cup {NoDeadline}
    BY <1>0, BudgetLeft
  <2>2. RequestTimeout > 0 => c.spent + remaining_budget <= s3_deadline("copy", size)
    BY <1>0, BudgetLeft
  <2> QED BY <1>0, <1>k, <1>2, <2>1, <2>2, CompletionMoves
<1> QED BY <1>1, <1>2 DEF CompleteMultipartCopy

LEMMA StreamCompleteStep == ASSUME CopyInv, StreamComplete PROVE CopyInv'
<1>0. c.pc = "sparts" /\ c.part = PartCount(c.id) /\ UNCHANGED <<size, chunk, stream, source>>
  BY DEF StreamComplete, input
<1>k. PICK k \in Ids : k = c.id
  BY <1>0 DEF CopyInv, Ids, WorkInv, Attempts
<1>1. s3_deadline("copy", CopyMax) \in Nat \cup {NoDeadline}
  BY DeadlineType, NoDeadlines, BoundsAssumption
<1> QED BY <1>0, <1>k, <1>1, CompletionMoves DEF StreamComplete

LEMMA AbortStep == ASSUME CopyInv, abort_upload_best_effort PROVE CopyInv'
<1>0. /\ c.pc = "abort" /\ UNCHANGED <<size, chunk, stream, source, dest>>
      /\ abort_multipart_upload /\ AttemptFails(c.missing) /\ c.missing \in BOOLEAN /\ TypeInv
  BY DEF abort_upload_best_effort, input, CopyInv, TypeInv, Copy
<1>k. PICK k \in Ids : k = c.id /\ k = c.attempt
  BY <1>0 DEF CopyInv, TypeInv, Copy, Ids, WorkInv, Attempts
<1>1. /\ c' \in Copy /\ c'.pc \in {"head", "get", "err"} /\ Used(k)'
      /\ \A i \in Ids : Used(i) => Used(i)'
  BY <1>0, <1>k, AttemptFailsMoves
<1> QED BY <1>0, <1>k, <1>1, AbortKeeps

LEMMA StreamAbortStep == ASSUME CopyInv, StreamAbort PROVE CopyInv'
<1>0. /\ c.pc = "sabort" /\ UNCHANGED <<size, chunk, stream, source, dest>>
      /\ abort_multipart_upload /\ c' = At("err") /\ c \in Copy
  BY DEF StreamAbort, input, CopyInv, TypeInv
<1>k. PICK k \in Ids : k = c.id /\ k = Attempts + 1
  BY <1>0 DEF CopyInv, Ids, WorkInv, Attempts
<1>1. c' \in Copy /\ c'.pc = "err" /\ c'.attempt = c.attempt
  BY <1>0, AtType
<1>2. Used(k)' /\ \A i \in Ids : Used(i) => Used(i)'
  BY <1>0, <1>k, <1>1 DEF Used, Attempts
<1> QED BY <1>0, <1>k, <1>1, <1>2, AbortKeeps

-----------------------------------------------------------------------------
(* The service, and the requests that are not about the copy *)

LEMMA LateApplyStep == ASSUME CopyInv, LateApply PROVE CopyInv'
<1>1. PICK r \in late :
        /\ late' = late \ {r}
        /\ CASE r.kind = "copy" -> /\ dest' = IF source /\ size <= CopyMax THEN Units ELSE dest
                                   /\ UNCHANGED <<ups, objs>>
             [] r.kind = "create" -> /\ ups' = [ups EXCEPT ![r.id] = IF @.open THEN @ ELSE
                                                  [open |-> TRUE, parts |-> {}, excused |-> TRUE]]
                                     /\ UNCHANGED <<dest, objs>>
             [] r.kind = "complete" ->
                  /\ ups[r.id].open /\ PartCount(r.id) <= MaxParts
                  /\ dest' = Assembled(r.id)
                  /\ ups' = [ups EXCEPT ![r.id] = NoUpload]
                  /\ UNCHANGED objs
             [] r.kind = "abort" -> ups' = [ups EXCEPT ![r.id] = NoUpload] /\ UNCHANGED <<dest, objs>>
             [] r.kind = "delete" -> objs' = objs \ r.keys /\ UNCHANGED <<dest, ups>>
  BY DEF LateApply
<1>2. UNCHANGED <<size, chunk, stream, source, c>> /\ TypeInv
  BY DEF LateApply, CopyInv
<1>3. r.kind \in {"copy", "delete"} \/ (r.kind \in Multi /\ r.id \in Ids)
  BY <1>2 DEF TypeInv, LateOK
<1>4. WorkInv' /\ BudgetHonoured'
  BY <1>2, SameObject DEF CopyInv, WorkInv, BudgetHonoured
<1>l. \A j, i : Late(j, i)' => Late(j, i)
  BY <1>1 DEF Late
<1>t. ups' \in [Ids -> Upload] => TypeInv'
  BY <1>1, <1>2 DEF TypeInv, LateOK
<1>5. CASE UNCHANGED ups /\ dest' \in {dest, Units}
  <2>1. TypeInv'
    BY <1>t, <1>5 DEF CopyInv, TypeInv
  <2>2. \A i \in Ids : UploadOK(i)'
    BY <1>2, <1>5, <1>l, Unmoved DEF CopyInv
  <2>3. CopyCorrect'
    BY <1>2, <1>5, SameObject DEF CopyInv, CopyCorrect
  <2> QED BY <1>4, <2>1, <2>2, <2>3 DEF CopyInv
<1>6. CASE r.kind \in {"create", "complete", "abort"} /\ r.id \in Ids
  <2>k. PICK k \in Ids : k = r.id /\ Late(r.kind, k)
    BY <1>6 DEF Late
  <2>0. UploadOK(k) /\ ups[k] \in Upload /\ ups \in [Ids -> Upload]
    BY <1>2 DEF CopyInv, TypeInv
  <2>1. \E u \in Upload : ups' = [ups EXCEPT ![k] = u]
           /\ (u.open => u.excused \/ (u = ups[k] /\ r.kind = "create"))
           /\ (r.kind # "create" => u = NoUpload)
    <3>1. NoUpload \in Upload /\ [open |-> TRUE, parts |-> {}, excused |-> TRUE] \in Upload
          /\ [open |-> TRUE, parts |-> {}, excused |-> TRUE].excused = TRUE /\ ~NoUpload.open
      BY DEF NoUpload, Upload
    <3>2. CASE r.kind = "create" /\ ups[k].open
      BY <1>1, <2>k, <2>0, <3>2
    <3>3. CASE r.kind = "create" /\ ~ups[k].open
      BY <1>1, <2>k, <2>0, <3>1, <3>3
    <3>4. CASE r.kind \in {"complete", "abort"}
      BY <1>1, <2>k, <2>0, <3>1, <3>4
    <3> QED BY <1>6, <3>2, <3>3, <3>4
  <2>2. PICK u \in Upload : /\ ups' = [ups EXCEPT ![k] = u]
                            /\ u.open => u.excused \/ (u = ups[k] /\ r.kind = "create")
                            /\ r.kind # "create" => u = NoUpload
    BY <2>1
  <2>3. TypeInv'
    BY <1>t, <2>0, <2>2
  <2>4. ASSUME NEW i \in Ids PROVE UploadOK(i)'
    <3>1. CASE i # k
      BY <1>2, <1>l, <2>0, <2>2, <3>1, Unmoved DEF CopyInv
    <3>2. CASE i = k
      <4>1. ups'[k] = u /\ (Used(k)' <=> Used(k)) /\ (Working(k)' <=> Working(k))
        BY <1>2, <2>0, <2>2 DEF Used, Working
      <4>2. Used(k)
        BY <1>6, <2>k, <2>0 DEF UploadOK, Untouched
      <4>3. CASE r.kind = "create"
        <5>1. ~Working(k) /\ ~Late("complete", k)
          BY <2>k, <2>0, <4>3 DEF UploadOK
        <5> QED BY <1>l, <2>0, <2>2, <3>2, <4>1, <4>2, <5>1 DEF UploadOK
      <4>4. CASE r.kind # "create"
        <5>1. ~(Working(k) /\ c.pc \in {"parts", "sparts"})
          BY <1>6, <2>k, <2>0, <4>4 DEF UploadOK
        <5>2. ~u.open
          BY <2>2, <4>4 DEF NoUpload
        <5> QED BY <1>2, <1>l, <2>0, <3>2, <4>1, <4>2, <5>1, <5>2 DEF UploadOK
      <4> QED BY <4>3, <4>4
    <3> QED BY <3>1, <3>2
  <2>5. CopyCorrect'
    <3>1. CASE r.kind = "complete"
      <4>1. ups[k].parts = 0..(PartCount(k) - 1) /\ dest' = Assembled(k)
        BY <1>1, <2>k, <2>0, <3>1 DEF UploadOK
      <4> QED BY <1>2, <4>1, PartsCover, SameObject DEF CopyCorrect
    <3>2. CASE r.kind # "complete"
      BY <1>1, <1>2, <1>6, <3>2, SameObject DEF CopyInv, CopyCorrect
    <3> QED BY <3>1, <3>2
  <2> QED BY <1>4, <2>3, <2>4, <2>5 DEF CopyInv
<1>7. CASE r.kind \in {"copy", "delete"}
  BY <1>1, <1>5, <1>7
<1> QED BY <1>3, <1>6, <1>7 DEF Multi

(* Steps that leave the copy and its uploads alone. *)
LEMMA ElsewhereStep ==
    ASSUME CopyInv, Vanish \/ DeleteBatch \/ DeleteDone \/ ListPage \/ UNCHANGED vars
    PROVE  CopyInv'
<1>1. UNCHANGED <<size, chunk, stream, dest, ups, c>> /\ source' \in BOOLEAN
  BY DEF Vanish, DeleteBatch, DeleteDone, ListPage, vars, copyVars, input, CopyInv, TypeInv
<1>2. late' = late \/ \E S : late' = late \cup {[kind |-> "delete", id |-> 0, keys |-> S]}
  BY DEF Vanish, DeleteBatch, DeleteDone, ListPage, vars
<1>3. LateOK' /\ \A k \in Multi, i \in Ids : Late(k, i)' => Late(k, i)
  BY <1>2 DEF CopyInv, TypeInv, LateOK, Late, Multi
<1>4. TypeInv'
  BY <1>1, <1>3 DEF CopyInv, TypeInv
<1>5. WorkInv' /\ BudgetHonoured' /\ CopyCorrect'
  BY <1>1, SameObject DEF CopyInv, WorkInv, BudgetHonoured, CopyCorrect
<1>6. \A i \in Ids : UploadOK(i)'
  BY <1>1, <1>3, Unmoved DEF CopyInv
<1> QED BY <1>4, <1>5, <1>6 DEF CopyInv

LEMMA CopyInvInit == Init => CopyInv
<1> SUFFICES ASSUME Init PROVE CopyInv
  OBVIOUS
<1>1. /\ dest = {} /\ ups = [i \in Ids |-> NoUpload] /\ late = {}
      /\ c = Idle \/ c = [Idle EXCEPT !.pc = "off"]
  BY DEF Init
<1>2. size \in Sizes /\ chunk \in ChunkSizes /\ stream \in BOOLEAN /\ source \in BOOLEAN
  BY BoundsAssumption DEF Init
<1>3. c \in Copy /\ c.pc \in {"head", "off"} /\ c.attempt = 1
  <2>1. 1 \in 1..Attempts /\ 0 \in 0..(Attempts + 1) /\ 0 \in Nat
    BY DEF Attempts
  <2>2. Idle \in Copy /\ Idle.pc = "head" /\ Idle.attempt = 1
    BY <2>1 DEF Idle, Copy
  <2>3. /\ [Idle EXCEPT !.pc = "off"] \in Copy /\ [Idle EXCEPT !.pc = "off"].pc = "off"
        /\ [Idle EXCEPT !.pc = "off"].attempt = 1
    BY <2>2 DEF Copy
  <2> QED BY <1>1, <2>2, <2>3
<1>4. TypeInv
  <2>1. NoUpload \in Upload
    BY DEF NoUpload, Upload
  <2>2. size \in Nat \ {0} /\ chunk \in Nat
    BY <1>2, BoundsAssumption
  <2> QED BY <1>1, <1>2, <1>3, <2>1, <2>2 DEF TypeInv, LateOK
<1>5. \A i \in Ids : UploadOK(i)
  <2>1. \A k, i : ~Late(k, i)
    BY <1>1 DEF Late
  <2>2. \A i \in Ids : ups[i] = NoUpload /\ ~ups[i].open /\ ~Working(i)
    BY <1>1, <1>3 DEF NoUpload, Working
  <2> QED BY <2>1, <2>2 DEF UploadOK, Untouched
<1>6. WorkInv /\ BudgetHonoured /\ CopyCorrect
  BY <1>1, <1>3 DEF WorkInv, BudgetHonoured, CopyCorrect
<1> QED BY <1>4, <1>5, <1>6 DEF CopyInv

LEMMA CopyInvStep == CopyInv /\ [Next]_vars => CopyInv'
<1> SUFFICES ASSUME CopyInv, [Next]_vars PROVE CopyInv'
  OBVIOUS
<1>1. CASE ClientStep
  BY <1>1, HeadStep, CopyObjectStep, CreateStep, PartStep, CompleteStep, AbortStep,
     StreamGetStep, StreamCreateStep, StreamPartStep, StreamCompleteStep, StreamAbortStep
     DEF ClientStep
<1>2. CASE LateApply
  BY <1>2, LateApplyStep
<1>3. CASE Vanish \/ DeleteBatch \/ DeleteDone \/ ListPage \/ UNCHANGED vars
  BY <1>3, ElsewhereStep
<1> QED BY <1>1, <1>2, <1>3 DEF Next

LEMMA CopyInvHolds == Spec => []CopyInv
  BY CopyInvInit, CopyInvStep, PTL DEF Spec

-----------------------------------------------------------------------------
(* What follows *)

(* For every object size and chunk size: a copy that returns Ok has put    *)
(* each byte of the source at the destination, by one CopyObject, by parts *)
(* or by streaming, and neither failed attempts nor requests the service   *)
(* carries out after they were given up leave a torn object.               *)
THEOREM CopyIsCorrect == Spec => []CopyCorrect
<1>1. CopyInv => CopyCorrect
  BY DEF CopyInv
<1> QED BY <1>1, CopyInvHolds, PTL

(* A copy that is over has no multipart upload open that it could have     *)
(* aborted: those left are the ones whose create or abort went unanswered. *)
THEOREM NoForgottenUpload == Spec => []UploadsAccounted
<1>1. CopyInv => UploadsAccounted
  BY DEF CopyInv, UploadOK, UploadsAccounted, Working
<1> QED BY <1>1, CopyInvHolds, PTL

(* Create, parts and completion of a multipart copy together stay within   *)
(* the deadline of the whole object, whatever the chunk size, the rate and *)
(* the timeout are.                                                        *)
THEOREM BudgetIsHonoured == Spec => []BudgetHonoured
<1>1. CopyInv => BudgetHonoured
  BY DEF CopyInv
<1> QED BY <1>1, CopyInvHolds, PTL

=============================================================================
