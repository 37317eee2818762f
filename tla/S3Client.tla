------------------------------ MODULE S3Client ------------------------------
(***************************************************************************)
(* The S3 client.  One server-side copy with everything it may turn into   *)
(* (copy_object_with_retry_jitter: HEAD, CopyObject or a multipart copy    *)
(* under a whole-object time budget, three attempts, the streaming         *)
(* fallback), next to a batched delete and a paginated listing.            *)
(*                                                                         *)
(* Bytes are counted in units (5 GiB, 5 MiB and 32 MiB are CopyMax, MinPart*)
(* and Threshold units).  A request is answered, fails, or runs into its   *)
(* deadline; the service may still carry out a request the client has     *)
(* given up on.                                                            *)
(***************************************************************************)
EXTENDS Integers, FiniteSets, FiniteSetsExt

CONSTANTS
    Sizes,          \* sizes of the source object
    CopyMax,        \* COPY_OBJECT_MAX_SIZE
    MinPart,        \* S3_MIN_PART_SIZE
    Threshold,      \* STREAMING_COPY_THRESHOLD
    ChunkSizes,     \* values of s3.chunk_size (0 = auto)
    MaxParts,       \* s3.max_parts_count, and the number of parts the service accepts
    RequestTimeout, \* s3.request_timeout, 0 = no deadlines
    Rate,           \* s3.copy_min_bytes_per_second, 0 = no size allowance
    Streaming,      \* values of allow_streaming
    Keys,           \* keys (Nat) of the batched delete and of the listing
    BatchMax,       \* keys per DeleteObjects request (1000)
    PageMax,        \* keys per ListObjectsV2 page
    MaxFaults       \* bound: requests that fail or run into their deadline

ASSUME BoundsAssumption ==
    /\ Sizes \subseteq Nat \ {0} /\ ChunkSizes \subseteq Nat /\ Keys \subseteq Nat \ {0}
    /\ Sizes # {} /\ ChunkSizes # {} /\ Streaming \subseteq BOOLEAN
    /\ CopyMax \in Nat \ {0} /\ MinPart \in Nat \ {0} /\ Threshold \in Nat /\ MaxParts \in Nat \ {0}
    /\ RequestTimeout \in Nat /\ Rate \in Nat /\ BatchMax \in Nat \ {0} /\ PageMax \in Nat \ {0}

VARIABLES
    size, chunk, stream, \* the source's size, s3.chunk_size and allow_streaming of this run
    source,   \* BOOLEAN: the source object exists
    dest,     \* the units the destination object holds, {} when it is absent
    ups,      \* the service's multipart uploads, one per attempt (the last: streaming)
    late,     \* requests the client gave up on that the service may still carry out
    c,        \* the copy
    objs,     \* the keys that exist
    del, ls,  \* the batched delete and the listing
    faults

vars == <<size, chunk, stream, source, dest, ups, late, c, objs, del, ls, faults>>
input == <<size, chunk, stream>>
bulkVars == <<objs, del, ls>>
copyVars == <<size, chunk, stream, source, dest, ups, c>>

Attempts == 3
Ids == 1..(Attempts + 1)
Units == 0..(size - 1)
NoDeadline == -1
CLEANUP_TIMEOUT == 1
Outcomes == {"answer", "error", "timeout"}

s3_deadline(class, n) ==
    IF RequestTimeout = 0 THEN NoDeadline
    ELSE IF class = "metadata" \/ Rate = 0 THEN RequestTimeout
    ELSE RequestTimeout + n \div Rate

CeilDiv(a, b) == (a + b - 1) \div b

calculate_chunk_size(len, configured, maxParts) ==
    LET want == IF configured > 0 THEN configured ELSE CeilDiv(len, maxParts)
    IN  Min({Max({want, MinPart}), CopyMax})

(* The chunk size and the parts of the upload in hand: the fallback always sizes its chunks itself. *)
ChunkSize(id) == calculate_chunk_size(size, IF id > Attempts THEN 0 ELSE chunk, MaxParts)

\* Mutant: the last, short part is forgotten.
PartCountFloor(id) == size \div ChunkSize(id)

PartCount(id) == CeilDiv(size, ChunkSize(id))

PartRange(id, i) == (i * ChunkSize(id))..(Min({(i + 1) * ChunkSize(id), size}) - 1)

Idle == [pc |-> "head", attempt |-> 1, known |-> FALSE, id |-> 0, part |-> 0, spent |-> 0, missing |-> FALSE]
NoUpload == [open |-> FALSE, parts |-> {}, excused |-> FALSE]

(* Either a copy or the bulk requests: they touch different keys. *)
Init ==
    /\ dest = {} /\ ups = [i \in Ids |-> NoUpload] /\ late = {} /\ faults = 0
    /\ \/ size \in Sizes /\ chunk \in ChunkSizes /\ stream \in Streaming
          /\ c = Idle /\ source \in BOOLEAN /\ objs = {}
          /\ del = [pc |-> "off", left |-> {}, failed |-> 0]
          /\ ls = [pc |-> "off", after |-> 0, got |-> {}, was |-> {}]
       \/ size = (CHOOSE n \in Sizes : TRUE) /\ chunk = (CHOOSE n \in ChunkSizes : TRUE) /\ stream = FALSE
          /\ c = [Idle EXCEPT !.pc = "off"] /\ source = FALSE /\ objs = Keys
          /\ del = [pc |-> "batch", left |-> Keys, failed |-> 0]
          /\ ls = [pc |-> "page", after |-> 0, got |-> {}, was |-> Keys]

-----------------------------------------------------------------------------
(* with_deadline: a request is answered, fails, or is given up when its deadline expires. *)

with_deadline(outcome, deadline) ==
    /\ outcome = "timeout" => deadline # NoDeadline
    /\ outcome # "answer" => faults < MaxFaults
    /\ faults' = IF outcome = "answer" THEN faults ELSE faults + 1

(* How long a request may take: a deadline costs all of it. *)
Took(outcome, deadline) ==
    IF deadline = NoDeadline THEN {0} ELSE IF outcome = "timeout" THEN {deadline} ELSE {0, deadline}

GivenUp(outcome, kind) ==
    late' = IF outcome = "timeout" THEN late \cup {[kind |-> kind, id |-> c.id]} ELSE late

At(pc) == [c EXCEPT !.pc = pc]

(* The end of an attempt: a missing source fails fast, otherwise the next attempt, the
   streaming fallback, or the error. *)
AttemptFails(missing) ==
    c' = IF missing THEN At("err")
         ELSE IF c.attempt < Attempts THEN [Idle EXCEPT !.attempt = c.attempt + 1]
         ELSE At(IF stream THEN "get" ELSE "err")

(* HeadObject decides between one CopyObject and a multipart copy; a service error leaves the
   size unknown; a deadline fails the attempt. *)
Head ==
    /\ c.pc = "head"
    /\ \E o \in Outcomes :
         /\ with_deadline(o, s3_deadline("metadata", 0))
         /\ \/ o = "answer" /\ source
               /\ c' = [c EXCEPT !.pc = IF size > CopyMax THEN "create" ELSE "copy", !.known = TRUE]
            \/ (o = "error" \/ (o = "answer" /\ ~source)) /\ c' = At("copy")
            \/ o = "timeout" /\ AttemptFails(FALSE)
    /\ UNCHANGED <<input, source, dest, ups, late, bulkVars>>

CopyObject ==
    /\ c.pc = "copy"
    /\ \E o \in Outcomes :
         /\ with_deadline(o, s3_deadline("copy", IF c.known THEN size ELSE CopyMax))
         /\ GivenUp(o, "copy")
         /\ IF o = "answer" /\ source /\ size <= CopyMax
            THEN dest' = Units /\ c' = At("ok")
            ELSE AttemptFails(o = "answer" /\ ~source) /\ UNCHANGED dest
    /\ UNCHANGED <<input, source, ups, bulkVars>>

-----------------------------------------------------------------------------
(* copy_object_multipart: create, parts and completion draw on one budget; every failure after
   the create goes through the abort. *)

remaining_budget ==
    LET budget == s3_deadline("copy", size)
    IN  IF budget = NoDeadline THEN NoDeadline ELSE Max({0, budget - c.spent})

Opened(id) == ups' = [ups EXCEPT ![id] = [NoUpload EXCEPT !.open = TRUE]]

(* An unanswered create leaves an upload whose id nobody knows. *)
Create(id, o) ==
    /\ late' = IF o = "timeout" THEN late \cup {[kind |-> "create", id |-> id]} ELSE late
    /\ IF o = "answer" THEN Opened(id) ELSE UNCHANGED ups

CreateMultipartCopy ==
    /\ c.pc = "create"
    /\ LET deadline == s3_deadline("metadata", 0)
       IN \E o \in Outcomes : \E t \in Took(o, deadline) :
            /\ with_deadline(o, deadline) /\ Create(c.attempt, o)
            /\ IF o = "answer"
               THEN c' = [c EXCEPT !.pc = "parts", !.id = c.attempt, !.part = 0, !.spent = t]
               ELSE AttemptFails(FALSE)
    /\ UNCHANGED <<input, source, dest, bulkVars>>

\* Mutant: a part gets its own deadline whatever is left of the object's.
PartDeadlineFull(i) == s3_deadline("copy", Cardinality(PartRange(c.id, i)))

PartDeadline(i) ==
    LET d == s3_deadline("copy", Cardinality(PartRange(c.id, i)))
    IN  IF d = NoDeadline THEN d ELSE Min({d, remaining_budget})

upload_part(ok) == ups' = IF ok THEN [ups EXCEPT ![c.id].parts = @ \cup {c.part}] ELSE ups

UploadPartCopy ==
    /\ c.pc = "parts" /\ c.part < PartCount(c.id)
    /\ IF remaining_budget = 0
       THEN c' = At("abort") /\ UNCHANGED <<ups, late, faults>>
       ELSE \E o \in Outcomes : \E t \in Took(o, PartDeadline(c.part)) :
              /\ with_deadline(o, PartDeadline(c.part))
              /\ UNCHANGED late   \* a late part only adds to an upload that is being aborted
              /\ LET done == o = "answer" /\ source
                 IN /\ upload_part(done)
                    /\ c' = IF done THEN [c EXCEPT !.part = @ + 1, !.spent = @ + t]
                            ELSE [c EXCEPT !.pc = "abort", !.spent = @ + t,
                                           !.missing = o = "answer" /\ ~source]
    /\ UNCHANGED <<input, source, dest, bulkVars>>

Assembled(id) == UNION {PartRange(id, i) : i \in ups[id].parts \cap 0..(PartCount(id) - 1)}

(* The service refuses to assemble more than MaxParts parts. *)
Completion(deadline, failed) ==
    \E o \in Outcomes :
      /\ with_deadline(o, deadline)
      /\ GivenUp(o, "complete")
      /\ IF o = "answer" /\ PartCount(c.id) <= MaxParts
         THEN /\ dest' = Assembled(c.id)
              /\ ups' = [ups EXCEPT ![c.id] = NoUpload]
              /\ c' = At("ok")
         ELSE /\ c' = [c EXCEPT !.pc = failed,
                                !.spent = IF o = "timeout" THEN @ + deadline ELSE @]
              /\ UNCHANGED <<dest, ups>>

\* Mutant: a completion that fails is returned before the abort.
CompleteLeaks ==
    /\ c.pc = "parts" /\ c.part = PartCount(c.id)
    /\ \E o \in Outcomes :
         /\ with_deadline(o, remaining_budget)
         /\ IF o = "answer" /\ PartCount(c.id) <= MaxParts
            THEN /\ dest' = Assembled(c.id)
                 /\ ups' = [ups EXCEPT ![c.id] = NoUpload]
                 /\ c' = At("ok")
            ELSE AttemptFails(FALSE) /\ UNCHANGED <<dest, ups>>
    /\ UNCHANGED <<input, source, late, bulkVars>>

CompleteMultipartCopy ==
    /\ c.pc = "parts" /\ c.part = PartCount(c.id)
    /\ IF remaining_budget = 0
       THEN c' = At("abort") /\ UNCHANGED <<dest, ups, late, faults>>
       ELSE Completion(remaining_budget, "abort")
    /\ UNCHANGED <<input, source, bulkVars>>

(* The abort has its own fixed deadline (CLEANUP_TIMEOUT) and its failure is only logged. *)
abort_multipart_upload ==
    \E o \in Outcomes :
      /\ with_deadline(o, CLEANUP_TIMEOUT)
      /\ GivenUp(o, "abort")
      /\ ups' = [ups EXCEPT ![c.id] = IF o = "answer" THEN NoUpload ELSE [@ EXCEPT !.excused = TRUE]]

abort_upload_best_effort ==
    /\ c.pc = "abort" /\ abort_multipart_upload /\ AttemptFails(c.missing)
    /\ UNCHANGED <<input, source, dest, bulkVars>>

-----------------------------------------------------------------------------
(* copy_object_streaming: one GET, then one PUT or a multipart upload fed from its body.  The
   GET, its body, the PUT and the parts have no deadline of ours. *)

StreamGet ==
    /\ c.pc = "get"
    /\ \E o \in {"answer", "error"} :
         /\ with_deadline(o, NoDeadline)
         /\ c' = At(IF o = "error" \/ ~source THEN "err" ELSE IF size <= Threshold THEN "put" ELSE "screate")
    /\ UNCHANGED <<input, source, dest, ups, late, bulkVars>>

StreamPut ==
    /\ c.pc = "put"
    /\ \E o \in {"answer", "error"} :
         /\ with_deadline(o, NoDeadline)
         /\ c' = At(IF o = "answer" THEN "ok" ELSE "err")
         /\ dest' = IF o = "answer" THEN Units ELSE dest
    /\ UNCHANGED <<input, source, ups, late, bulkVars>>

StreamCreate ==
    /\ c.pc = "screate"
    /\ \E o \in Outcomes :
         /\ with_deadline(o, s3_deadline("metadata", 0)) /\ Create(Attempts + 1, o)
         /\ c' = IF o = "answer" THEN [c EXCEPT !.pc = "sparts", !.id = Attempts + 1, !.part = 0] ELSE At("err")
    /\ UNCHANGED <<input, source, dest, bulkVars>>

StreamPart ==
    /\ c.pc = "sparts" /\ c.part < PartCount(c.id)
    /\ \E o \in {"answer", "error"} :
         /\ with_deadline(o, NoDeadline)
         /\ upload_part(o = "answer")
         /\ c' = IF o = "answer" THEN [c EXCEPT !.part = @ + 1] ELSE At("sabort")
    /\ UNCHANGED <<input, source, dest, late, bulkVars>>

StreamComplete ==
    /\ c.pc = "sparts" /\ c.part = PartCount(c.id)
    /\ Completion(s3_deadline("copy", CopyMax), "sabort")
    /\ UNCHANGED <<input, source, bulkVars>>

StreamAbort ==
    /\ c.pc = "sabort" /\ abort_multipart_upload /\ c' = At("err")
    /\ UNCHANGED <<input, source, dest, bulkVars>>

-----------------------------------------------------------------------------
(* The service. *)

(* It may yet carry out a request the client no longer waits for. *)
LateApply ==
    \E r \in late :
      /\ late' = late \ {r}
      /\ CASE r.kind = "copy" -> /\ dest' = IF source /\ size <= CopyMax THEN Units ELSE dest
                                 /\ UNCHANGED <<ups, objs>>
           [] r.kind = "create" -> /\ ups' = [ups EXCEPT ![r.id] = IF @.open THEN @ ELSE
                                                [open |-> TRUE, parts |-> {}, excused |-> TRUE]]
                                   /\ UNCHANGED <<dest, objs>>
           [] r.kind = "complete" ->
                /\ ups[r.id].open /\ PartCount(r.id) <= MaxParts
                /\ dest' = Assembled(r.id)
                /\ ups' = [ups EXCEPT ![r.id] = NoUpload]
                /\ UNCHANGED objs
           [] r.kind = "abort" -> ups' = [ups EXCEPT ![r.id] = NoUpload] /\ UNCHANGED <<dest, objs>>
           [] r.kind = "delete" -> objs' = objs \ r.keys /\ UNCHANGED <<dest, ups>>
      /\ ls' = IF r.kind = "delete" THEN [ls EXCEPT !.was = @ \ r.keys] ELSE ls
    /\ UNCHANGED <<size, chunk, stream, source, c, del, faults>>

(* Someone deletes the source, or keys under the prefix being listed and deleted. *)
Vanish ==
    /\ \/ source /\ c.pc \notin {"ok", "err"} /\ source' = FALSE /\ UNCHANGED <<objs, ls>>
       \/ /\ UNCHANGED source
          /\ \E k \in objs : objs' = objs \ {k} /\ ls' = [ls EXCEPT !.was = @ \ {k}]
    /\ faults < MaxFaults /\ faults' = faults + 1
    /\ UNCHANGED <<input, dest, ups, late, c, del>>

-----------------------------------------------------------------------------
(* delete_objects and list_objects. *)

First(S, n) == {k \in S : Cardinality({j \in S : j < k}) < n}

Failed(n, errors) == n + Cardinality(errors)

DeleteBatch ==
    /\ del.pc = "batch" /\ del.left # {}
    /\ LET batch == First(del.left, BatchMax)
       IN \E o \in Outcomes, errors \in SUBSET batch :
            /\ o # "answer" => errors = {}
            /\ errors # {} => faults < MaxFaults
            /\ o = "timeout" => RequestTimeout > 0
            /\ o # "answer" => faults < MaxFaults
            /\ faults' = IF o = "answer" /\ errors = {} THEN faults ELSE faults + 1
            /\ late' = IF o = "timeout" THEN late \cup {[kind |-> "delete", id |-> 0, keys |-> batch]}
                       ELSE late
            /\ LET gone == IF o = "answer" THEN batch \ errors ELSE {}
               IN objs' = objs \ gone /\ ls' = [ls EXCEPT !.was = @ \ gone]
            /\ del' = IF o # "answer" \/ errors = batch THEN [del EXCEPT !.pc = "err"]
                      ELSE [del EXCEPT !.left = @ \ batch, !.failed = Failed(@, errors)]
    /\ UNCHANGED copyVars

DeleteDone ==
    /\ del.pc = "batch" /\ del.left = {}
    /\ del' = [del EXCEPT !.pc = "ok"]
    /\ UNCHANGED <<copyVars, late, objs, ls, faults>>

(* A page holds up to PageMax of the keys after the token, possibly fewer; it says whether more
   follow. *)
Truncated(page, rest) == page # rest

ListPage ==
    /\ ls.pc = "page"
    /\ LET rest == {k \in objs : k > ls.after}
       IN \E o \in Outcomes, n \in 1..PageMax :
            /\ with_deadline(o, s3_deadline("metadata", 0))
            /\ LET page == First(rest, n)
               IN ls' = IF o # "answer" THEN [ls EXCEPT !.pc = "err"]
                        ELSE [ls EXCEPT !.got = @ \cup page,
                                        !.after = Max({@} \cup page),
                                        !.pc = IF Truncated(page, rest) THEN "page" ELSE "ok"]
    /\ UNCHANGED <<copyVars, late, objs, del>>

-----------------------------------------------------------------------------
ClientStep ==
    \/ Head \/ CopyObject \/ CreateMultipartCopy \/ UploadPartCopy \/ CompleteMultipartCopy
    \/ abort_upload_best_effort \/ StreamGet \/ StreamPut
    \/ StreamCreate \/ StreamPart \/ StreamComplete \/ StreamAbort

Next == ClientStep \/ DeleteBatch \/ DeleteDone \/ ListPage \/ LateApply \/ Vanish

Spec == Init /\ [][Next]_vars /\ WF_vars(ClientStep)

-----------------------------------------------------------------------------
(* Properties *)

TypeOK ==
    /\ size \in Sizes /\ chunk \in ChunkSizes /\ stream \in Streaming /\ source \in BOOLEAN
    /\ dest \subseteq Units
    /\ \A i \in Ids : ups[i].parts \subseteq 0..(size - 1) /\ (~ups[i].open => ups[i].parts = {})
    /\ c.pc \in {"off", "head", "copy", "create", "parts", "abort", "get", "put", "screate", "sparts",
                 "sabort", "ok", "err"}
    /\ c.attempt \in 1..Attempts /\ c.id \in 0..(Attempts + 1)
    /\ del.pc \in {"off", "batch", "ok", "err"} /\ ls.pc \in {"off", "page", "ok", "err"}
    /\ objs \subseteq Keys /\ faults \in 0..MaxFaults

(* A copy that returns Ok has put every byte of the source at the destination, whichever of the
   three ways it took; and no failed attempt or late request leaves a torn destination. *)
CopyCorrect == dest \in {{}, Units} /\ (c.pc = "ok" => dest = Units)

(* When a copy is over, the only multipart uploads left open are those whose create or abort the
   service did not answer with success: the client forgets none. *)
UploadsAccounted ==
    c.pc \in {"ok", "err"} => \A i \in Ids : ups[i].open => ups[i].excused

(* The create, the parts and the completion of one multipart copy together never take longer
   than the deadline of the whole object. *)
BudgetHonoured ==
    (RequestTimeout > 0 /\ c.pc \in {"parts", "abort"}) => c.spent <= s3_deadline("copy", size)

(* delete_objects: Ok(n) means that at most n of the keys still exist. *)
DeleteCounts == del.pc = "ok" => Cardinality(objs) <= del.failed

(* list_objects: a key that exists throughout the listing is listed, whatever is deleted meanwhile. *)
ListComplete == ls.pc = "ok" => ls.was \subseteq ls.got

(* Every copy returns. *)
CopyReturns == (c.pc = "head") ~> (c.pc \in {"ok", "err"})

(* The doc comment of copy_object_multipart: the chunk size is calculated "to stay within the
   10,000 part limit".  It does not when s3.chunk_size is configured. *)
PartCountLegal == c.pc = "parts" => PartCount(c.id) <= MaxParts
=============================================================================
