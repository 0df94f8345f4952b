------------------------------ MODULE S3Store -------------------------------
(***************************************************************************)
(* S3Storage::store and fill_part (src/infra/aws.rs): the streamed upload  *)
(* of a PUT body as one PutObject or as a multipart upload, for the calls  *)
(* that race on one key, with the S3 calls in flight and the bucket.       *)
(*                                                                         *)
(* A body is its length; bytes lo+1..hi of the body are the span <<lo, hi>>. *)
(* The buffer of a call always holds the bytes from `base` to              *)
(* `bytes_received`.                                                       *)
(***************************************************************************)
EXTENDS Naturals, Sequences

CONSTANTS
  Writers,    \* the calls of `store` for this key
  Nothing,    \* the key holds no object
  Sizes,      \* lengths a body may have
  PART_SIZE,  \* MULTIPART_PART_SIZE
  MaxChunk,   \* the longest chunk a ReaderStream yields
  MinPart,    \* S3: the least length of a part that is not the last
  MaxParts    \* S3: the largest part number

ASSUME NothingAssumption == Nothing \notin Writers

ASSUME SizesAssumption ==
  /\ Sizes \subseteq Nat
  /\ PART_SIZE \in Nat \ {0}
  /\ MaxChunk \in Nat \ {0}
  /\ MinPart \in Nat
  /\ MaxParts \in Nat

(* The test multipart_part_size_meets_s3_minimum. *)
ASSUME PartSizeAssumption == MinPart <= PART_SIZE

VARIABLES
  pc,              \* where each call is
  size,            \* the length of its body
  bytes_received,  \* how much of the body it has read
  base,            \* where its buffer begins
  eof,             \* has fill_part seen the end of the body
  upload_id,       \* has it got an upload id
  part_number,     \* the number of its next part
  result,          \* the error it returns once the upload is aborted
  pending,         \* the S3 call that S3 may still execute
  late,            \* may S3 still execute an UploadPart that was given up
  upload,          \* S3: the multipart upload of this call
  orphan,          \* S3: an open upload whose id was lost with the reply
  parts,           \* S3: the parts of the upload, by number
  object,          \* S3: the object under the key
  committed        \* observer: the calls whose body became the object

callVars == <<size, bytes_received, base, eof, upload_id, part_number, result>>
s3Vars   == <<upload, orphan, parts, object, committed>>
vars     == <<pc, callVars, pending, late, s3Vars>>

Ended  == {"ok", "failed", "client_abort", "dropped"}
Active == {"filling", "putting", "creating", "uploading", "aborting", "completing"}
Calls  == {"none", "put", "create", "part", "abort", "complete"}
Span   == Nat \X Nat
NoObject == [by |-> Nothing, body |-> <<>>]

TypeOK ==
  /\ pc \in [Writers -> Active \cup Ended]
  /\ size \in [Writers -> Sizes]
  /\ bytes_received \in [Writers -> Nat]
  /\ base \in [Writers -> Nat]
  /\ eof \in [Writers -> BOOLEAN]
  /\ upload_id \in [Writers -> BOOLEAN]
  /\ part_number \in [Writers -> Nat]
  /\ result \in [Writers -> {"failed", "client_abort"}]
  /\ pending \in [Writers -> Calls]
  /\ late \in [Writers -> BOOLEAN]
  /\ upload \in [Writers -> {"none", "open", "closed"}]
  /\ orphan \in [Writers -> BOOLEAN]
  /\ parts \in [Writers -> Seq(Span)]
  /\ object \in [by : Writers \cup {Nothing}, body : Seq(Span)]
  /\ committed \in SUBSET Writers

Init ==
  /\ pc = [w \in Writers |-> "filling"]
  /\ size \in [Writers -> Sizes]
  /\ bytes_received = [w \in Writers |-> 0]
  /\ base = [w \in Writers |-> 0]
  /\ eof = [w \in Writers |-> FALSE]
  /\ upload_id = [w \in Writers |-> FALSE]
  /\ part_number = [w \in Writers |-> 1]
  /\ result = [w \in Writers |-> "failed"]
  /\ pending = [w \in Writers |-> "none"]
  /\ late = [w \in Writers |-> FALSE]
  /\ upload = [w \in Writers |-> "none"]
  /\ orphan = [w \in Writers |-> FALSE]
  /\ parts = [w \in Writers |-> <<>>]
  /\ object = NoObject
  /\ committed = {}

-----------------------------------------------------------------------------
(* The control of `store`. *)

(* Await the S3 call `call` at `place`. *)
Send(w, place, call) ==
  /\ pc' = [pc EXCEPT ![w] = place]
  /\ pending' = [pending EXCEPT ![w] = call]
  /\ UNCHANGED late

Finish(w, how) ==
  /\ pc' = [pc EXCEPT ![w] = how]
  /\ UNCHANGED <<pending, late>>

(* Give up a multipart upload: AbortMultipartUpload first, then the error. *)
(* A part that timed out may still be on its way to S3.                    *)
Abort(w, err) ==
  /\ result' = [result EXCEPT ![w] = err]
  /\ pc' = [pc EXCEPT ![w] = "aborting"]
  /\ pending' = [pending EXCEPT ![w] = "abort"]
  /\ late' = [late EXCEPT ![w] = pending[w] = "part"]

(* Mutants: fill_part goes on while `len <= part_size`; it returns after   *)
(* every chunk.                                                            *)
FullPast(len)   == len > PART_SIZE
FullAtOnce(len) == TRUE

(* fill_part's loop ends at this length of the buffer.                     *)
Full(len) == len >= PART_SIZE

(* fill_part reads a chunk; a full buffer ends fill_part and is uploaded.  *)
ReadChunk(w) ==
  /\ pc[w] = "filling"
  /\ \E n \in 1..MaxChunk :
       LET got == bytes_received[w] + n IN
       /\ got <= size[w]
       /\ bytes_received' = [bytes_received EXCEPT ![w] = got]
       /\ \/ ~Full(got - base[w]) /\ UNCHANGED <<pc, pending, late>>
          \/ Full(got - base[w]) /\ ~upload_id[w] /\ Send(w, "creating", "create")
          \/ Full(got - base[w]) /\ upload_id[w] /\ Send(w, "uploading", "part")
  /\ UNCHANGED <<size, base, eof, upload_id, part_number, result, s3Vars>>

(* What fill_part got, perhaps nothing, is the last of the body.           *)
LastPart(w) ==
  /\ eof' = [eof EXCEPT ![w] = TRUE]
  /\ \/ ~upload_id[w] /\ Send(w, "putting", "put")
     \/ upload_id[w] /\ base[w] < bytes_received[w] /\ Send(w, "uploading", "part")
     \/ upload_id[w] /\ base[w] = bytes_received[w] /\ Send(w, "completing", "complete")
  /\ UNCHANGED <<size, bytes_received, base, upload_id, part_number, result, s3Vars>>

(* The stream ends.                                                        *)
BodyEnds(w) ==
  /\ pc[w] = "filling"
  /\ bytes_received[w] = size[w]
  /\ LastPart(w)

(* Mutants: a read error is taken for the end of the body; the client abort *)
(* returns without the cleanup.                                            *)
BodyFailsAsEof(w) == pc[w] = "filling" /\ LastPart(w)

BodyFailsUncleaned(w) ==
  /\ pc[w] = "filling"
  /\ Finish(w, "client_abort")
  /\ UNCHANGED <<callVars, s3Vars>>

(* The stream fails: the client is gone.                                   *)
BodyFails(w) ==
  /\ pc[w] = "filling"
  /\ IF upload_id[w]
     THEN Abort(w, "client_abort")
     ELSE Finish(w, "client_abort") /\ UNCHANGED result
  /\ UNCHANGED <<size, bytes_received, base, eof, upload_id, part_number, s3Vars>>

(* The SDK returns Ok: S3 executed the call.                               *)
PutOk(w) ==
  /\ pc[w] = "putting" /\ pending[w] = "none"
  /\ Finish(w, "ok")
  /\ UNCHANGED <<callVars, s3Vars>>

CreateOk(w) ==
  /\ pc[w] = "creating" /\ pending[w] = "none"
  /\ upload_id' = [upload_id EXCEPT ![w] = TRUE]
  /\ Send(w, "uploading", "part")
  /\ UNCHANGED <<size, bytes_received, base, eof, part_number, result, s3Vars>>

PartOk(w) ==
  /\ pc[w] = "uploading" /\ pending[w] = "none"
  /\ base' = [base EXCEPT ![w] = bytes_received[w]]
  /\ part_number' = [part_number EXCEPT ![w] = @ + 1]
  /\ IF eof[w] THEN Send(w, "completing", "complete") ELSE Finish(w, "filling")
  /\ UNCHANGED <<size, bytes_received, eof, upload_id, result, s3Vars>>

(* Mutant: the result of CompleteMultipartUpload is dropped, and Ok returned. *)
CompleteUnchecked(w) ==
  /\ pc[w] = "completing"
  /\ Finish(w, "ok")
  /\ UNCHANGED <<callVars, s3Vars>>

CompleteOk(w) ==
  /\ pc[w] = "completing" /\ pending[w] = "none"
  /\ Finish(w, "ok")
  /\ UNCHANGED <<callVars, s3Vars>>

(* The SDK returns Err (refused, failed three times, timed out), or Ok     *)
(* without the id or the ETag the code needs. What S3 did is not known.    *)
CallErr(w) ==
  /\ pc[w] \in {"putting", "creating", "uploading", "completing"}
  /\ IF pc[w] = "uploading"
     THEN Abort(w, "failed")
     ELSE Finish(w, "failed") /\ UNCHANGED result
  /\ UNCHANGED <<size, bytes_received, base, eof, upload_id, part_number, s3Vars>>

(* Mutant: the error of the abort is returned instead of the first one. *)
AbortReturnsItsOwn(w) ==
  /\ pc[w] = "aborting"
  /\ Finish(w, IF pending[w] = "none" THEN result[w] ELSE "abort_failed")
  /\ UNCHANGED <<callVars, s3Vars>>

(* Mutant: a failed abort is awaited again for ever. *)
AbortReturnsOnceExecuted(w) ==
  /\ pc[w] = "aborting" /\ pending[w] = "none"
  /\ Finish(w, result[w])
  /\ UNCHANGED <<callVars, s3Vars>>

(* The abort succeeded or failed: the error that led to it is returned.    *)
AbortReturns(w) ==
  /\ pc[w] = "aborting"
  /\ Finish(w, result[w])
  /\ UNCHANGED <<callVars, s3Vars>>

(* The handler's future is dropped at an await: the process is killed, or  *)
(* the client disconnects once its body was received.                      *)
Drop(w) ==
  /\ pc[w] \in Active
  /\ Finish(w, "dropped")
  /\ UNCHANGED <<callVars, s3Vars>>

-----------------------------------------------------------------------------
(* S3 executes a call it was sent, perhaps after the caller gave up on it. *)
(* If the reply is lost the SDK sends the call again.                      *)

Executed(w) ==
  /\ \E lost \in BOOLEAN :
       pending' = IF lost THEN pending ELSE [pending EXCEPT ![w] = "none"]
  /\ UNCHANGED late

Commit(w, body) ==
  /\ object' = [by |-> w, body |-> body]
  /\ committed' = committed \cup {w}

PutObject(w) ==
  /\ pending[w] = "put"
  /\ Commit(w, <<<<base[w], bytes_received[w]>>>>)
  /\ Executed(w)
  /\ UNCHANGED <<pc, callVars, upload, orphan, parts>>

CreateMultipartUpload(w) ==
  /\ pending[w] = "create"
  /\ upload' = [upload EXCEPT ![w] = "open"]
  /\ orphan' = [orphan EXCEPT ![w] = @ \/ upload[w] = "open"]
  /\ Executed(w)
  /\ UNCHANGED <<pc, callVars, parts, object, committed>>

TakePart(w) ==
  /\ upload[w] = "open"
  /\ part_number[w] <= MaxParts
  /\ parts' = [parts EXCEPT ![w] = SubSeq(@, 1, part_number[w] - 1)
                                   \o <<<<base[w], bytes_received[w]>>>>]
  /\ UNCHANGED <<pc, callVars, upload, orphan, object, committed>>

UploadPart(w) ==
  /\ pending[w] = "part"
  /\ TakePart(w)
  /\ Executed(w)

(* The part that was given up arrives while its upload is being aborted.   *)
LatePart(w) ==
  /\ late[w]
  /\ TakePart(w)
  /\ late' = [late EXCEPT ![w] = FALSE]
  /\ UNCHANGED pending

AbortMultipartUpload(w) ==
  /\ pending[w] = "abort"
  /\ upload' = [upload EXCEPT ![w] = "closed"]
  /\ Executed(w)
  /\ UNCHANGED <<pc, callVars, orphan, parts, object, committed>>

(* The parts the Complete call lists: number 1 to part_number - 1.         *)
Listed(w) == SubSeq(parts[w], 1, part_number[w] - 1)

(* What S3 asks of the list: not empty, and no short part but the last.    *)
Acceptable(list) ==
  /\ list # <<>>
  /\ \A i \in 1..Len(list) - 1 : list[i][2] - list[i][1] >= MinPart

CompleteMultipartUpload(w) ==
  /\ pending[w] = "complete"
  /\ upload[w] = "open"
  /\ Acceptable(Listed(w))
  /\ upload' = [upload EXCEPT ![w] = "closed"]
  /\ Commit(w, Listed(w))
  /\ Executed(w)
  /\ UNCHANGED <<pc, callVars, orphan, parts>>

Next ==
  \E w \in Writers :
    \/ ReadChunk(w) \/ BodyEnds(w) \/ BodyFails(w)
    \/ PutOk(w) \/ CreateOk(w) \/ PartOk(w) \/ CompleteOk(w)
    \/ CallErr(w) \/ AbortReturns(w) \/ Drop(w)
    \/ PutObject(w) \/ CreateMultipartUpload(w) \/ UploadPart(w) \/ LatePart(w)
    \/ AbortMultipartUpload(w) \/ CompleteMultipartUpload(w)

(* The SDK ends every call, at the latest with its operation timeout. The  *)
(* client need not send, and S3 need not execute anything.                 *)
Fairness ==
  \A w \in Writers :
    WF_vars(PutOk(w) \/ CreateOk(w) \/ PartOk(w) \/ CompleteOk(w)
            \/ CallErr(w) \/ AbortReturns(w))

Spec == Init /\ [][Next]_vars /\ Fairness

-----------------------------------------------------------------------------
(* Properties. *)

(* The spans of a body tile it from its first byte to its last.            *)
Tiles(body, length) ==
  /\ body # <<>>
  /\ body[1][1] = 0
  /\ body[Len(body)][2] = length
  /\ \A i \in 1..Len(body) - 1 : body[i][2] = body[i + 1][1]

(* Whatever failed, raced, was cut off, retried or executed late, the key  *)
(* holds nothing or every byte of one body in order: `store` never leaves  *)
(* a truncated, shuffled or mixed artifact.                                *)
ObjectIsWhole ==
  object # NoObject => Tiles(object.body, size[object.by])

(* The boundary arithmetic of fill_part and of the part loop: when `store` *)
(* completes an upload, S3 holds exactly the listed parts, none of them    *)
(* empty or too short, and has no reason to refuse the list.               *)
CompleteIsAcceptable ==
  \A w \in Writers :
    pending[w] = "complete" /\ upload[w] = "open"
    => /\ Len(parts[w]) = part_number[w] - 1
       /\ Acceptable(Listed(w))
       /\ \A i \in 1..Len(parts[w]) : parts[w][i][1] < parts[w][i][2]

(* "so we never hold more than ~one part ... in memory at once": less than *)
(* a part and a chunk, whatever the chunk sizes are.                       *)
BufferBound ==
  \A w \in Writers : bytes_received[w] - base[w] < PART_SIZE + MaxChunk

(* A call that returned leaves the upload it has the id of open only if S3 *)
(* did not execute the abort or the completion it was sent.                *)
LeakNeedsUnexecutedCall ==
  \A w \in Writers :
    pc[w] \in {"ok", "failed", "client_abort"} /\ upload_id[w] /\ upload[w] = "open"
    => pending[w] \in {"abort", "complete"}

(* Once the body has been read to its end `store` returns, although S3 may *)
(* never execute anything: the SDK ends every call.                        *)
StoreReturns == \A w \in Writers : eof[w] ~> pc[w] \in Ended

(* What StorageProvider promises. An object that is not whole is no value  *)
(* of `content`.                                                           *)
Store == INSTANCE ArtifactStore WITH
  content <- IF ObjectIsWhole THEN object.by ELSE "partial",
  status  <- [w \in Writers |-> IF pc[w] \in Ended THEN pc[w] ELSE "running"]

(* S3Storage::store implements ArtifactStore.                              *)
StoreSpec == Store!StoreSpec

(* The comment on the upload block: any failure "breaks out of this block  *)
(* so we can always reach the AbortMultipartUpload cleanup below". A call  *)
(* that returned an error with its upload open at least tried to abort it. *)
FailedStoreTriedAbort ==
  \A w \in Writers :
    pc[w] \in {"failed", "client_abort"} /\ upload_id[w] /\ upload[w] = "open"
    => pending[w] = "abort"
=============================================================================
