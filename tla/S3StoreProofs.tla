---------------------------- MODULE S3StoreProofs ---------------------------
(***************************************************************************)
(* Proofs about S3Store, for every number of callers, every body length,   *)
(* every chunking and every part size that its assumptions admit.          *)
(***************************************************************************)
EXTENDS S3Store, SequenceTheorems, TLAPS

-----------------------------------------------------------------------------
(* The inductive invariant, in parts, each about one call. *)

(* How far a call has read its body, and what is in its buffer.            *)
Counts(w) ==
  /\ base[w] <= bytes_received[w] /\ bytes_received[w] <= size[w]
  /\ bytes_received[w] < base[w] + PART_SIZE + MaxChunk
  /\ pc[w] = "filling" => bytes_received[w] < base[w] + PART_SIZE
  /\ eof[w] => bytes_received[w] = size[w]

(* What each place of `store` tells of the call.                           *)
Stages(w) ==
  /\ pc[w] = "filling"    => ~eof[w] /\ pending[w] = "none"
  /\ pc[w] = "putting"    => eof[w] /\ ~upload_id[w] /\ pending[w] \in {"put", "none"}
  /\ pc[w] = "creating"   => ~eof[w] /\ ~upload_id[w] /\ pending[w] \in {"create", "none"}
  /\ pc[w] = "uploading"  => upload_id[w] /\ pending[w] \in {"part", "none"}
  /\ pc[w] = "completing" => eof[w] /\ upload_id[w] /\ pending[w] \in {"complete", "none"}
  /\ pc[w] = "aborting"   => upload_id[w] /\ pending[w] \in {"abort", "none"}
  /\ result[w] = "client_abort" =>
       ~eof[w] /\ pc[w] \in {"aborting", "client_abort", "dropped"}
  /\ pc[w] = "client_abort" => ~eof[w] /\ pending[w] \in {"abort", "none"}

(* What S3 may still be asked to do, also after the call has ended.        *)
InFlight(w) ==
  /\ pending[w] = "put"      => eof[w] /\ ~upload_id[w]
  /\ pending[w] = "create"   => ~upload_id[w]
  /\ pending[w] = "part"     => upload_id[w]
  /\ pending[w] = "complete" => eof[w] /\ upload_id[w]
  /\ late[w] => /\ pc[w] \in {"aborting", "failed", "client_abort", "dropped"}
                /\ pending[w] \in {"abort", "none"}

(* What is uploaded next is not empty, and not short unless it is the last. *)
FullPart(w) ==
  pc[w] \in {"creating", "uploading"} \/ pending[w] = "part" =>
    /\ base[w] < bytes_received[w]
    /\ ~eof[w] => base[w] + PART_SIZE <= bytes_received[w]

(* The number of parts that were uploaded and acknowledged.                *)
Acked(w) == part_number[w] - 1

(* The acknowledged parts are the body up to `base`, part by part; all but *)
(* the one that ends the body are full.                                    *)
Prefix(w) ==
  /\ part_number[w] >= 1
  /\ ~upload_id[w] => part_number[w] = 1
  /\ part_number[w] = 1 => base[w] = 0
  /\ part_number[w] > 1 => parts[w][1][1] = 0 /\ parts[w][Acked(w)][2] = base[w]
  /\ \A i \in 1..Acked(w) - 1 : parts[w][i][2] = parts[w][i + 1][1]
  /\ \A i \in 1..Acked(w) :
       /\ parts[w][i][1] < parts[w][i][2]
       /\ \/ parts[w][i][1] + PART_SIZE <= parts[w][i][2]
          \/ eof[w] /\ i = Acked(w) /\ base[w] = bytes_received[w]

(* S3 has these, and the one being uploaded if it executed the call.       *)
Uploaded(w) ==
  /\ Acked(w) <= Len(parts[w]) /\ Len(parts[w]) <= part_number[w]
  /\ Len(parts[w]) = part_number[w] =>
       parts[w][part_number[w]] = <<base[w], bytes_received[w]>>
  /\ pc[w] = "uploading" /\ pending[w] = "none" => Len(parts[w]) = part_number[w]
  /\ pc[w] \in {"filling", "completing"} \/ pending[w] = "complete" =>
       Len(parts[w]) = Acked(w)
  /\ pc[w] = "filling" /\ upload_id[w] => part_number[w] > 1
  /\ pc[w] = "completing" \/ pending[w] = "complete" =>
       part_number[w] > 1 /\ base[w] = bytes_received[w]

(* S3 closed an upload whose abort or completion it answered; no call      *)
(* returns without either.                                                 *)
Cleanup(w) ==
  /\ pc[w] \in {"completing", "aborting"} /\ pending[w] = "none" => upload[w] = "closed"
  /\ pc[w] \in {"ok", "failed", "client_abort"} /\ upload_id[w] /\ upload[w] = "open"
     => pending[w] \in {"abort", "complete"}

(* Only a body that was read to its end is put in place, and Ok is         *)
(* returned only for one that was.                                         *)
Commits(w) ==
  /\ w \in committed => eof[w]
  /\ pc[w] = "ok" \/ (pc[w] \in {"putting", "completing"} /\ pending[w] = "none")
     => w \in committed

CallInv(w) ==
  /\ Counts(w) /\ Stages(w) /\ InFlight(w) /\ FullPart(w) /\ Prefix(w) /\ Uploaded(w)
  /\ Cleanup(w) /\ Commits(w)

(* The object is nothing, or the whole body of a call.                     *)
Whole ==
  object # NoObject => object.by \in Writers /\ Tiles(object.body, size[object.by])

Inv == TypeOK /\ Whole /\ \A w \in Writers : CallInv(w)

-----------------------------------------------------------------------------
(* What the steps do. *)

USE DEF callVars, s3Vars

(* A step of one call, or of S3 on its behalf.                             *)
StepOf(w) ==
  \/ ReadChunk(w) \/ BodyEnds(w) \/ BodyFails(w)
  \/ PutOk(w) \/ CreateOk(w) \/ PartOk(w) \/ CompleteOk(w)
  \/ CallErr(w) \/ AbortReturns(w) \/ Drop(w)
  \/ PutObject(w) \/ CreateMultipartUpload(w) \/ UploadPart(w) \/ LatePart(w)
  \/ AbortMultipartUpload(w) \/ CompleteMultipartUpload(w)

(* What TakePart makes of the parts: the first n, and one more.          *)
LEMMA PartAppended ==
  ASSUME NEW s \in Seq(Span), NEW n \in Nat, n <= Len(s), NEW x \in Span
  PROVE  LET t == SubSeq(s, 1, n) \o <<x>>
         IN  /\ t \in Seq(Span)
             /\ Len(t) = n + 1
             /\ \A i \in 1..n : t[i] = s[i]
             /\ t[n + 1] = x
<1> DEFINE p == SubSeq(s, 1, n)
<1>1. \A i \in 1..n : s[i] \in Span
  BY ElementOfSeq
<1>2. p \in Seq(Span) /\ Len(p) = n /\ \A i \in 1..n : p[i] = s[i]
  BY <1>1, SubSeqProperties
<1>3. <<x>> \in Seq(Span) /\ Len(<<x>>) = 1 /\ <<x>>[1] = x
  OBVIOUS
<1> HIDE DEF p
<1>4. /\ p \o <<x>> \in Seq(Span)
      /\ Len(p \o <<x>>) = n + 1
      /\ \A i \in 1..n + 1 : (p \o <<x>>)[i] = IF i <= n THEN p[i] ELSE <<x>>[i - n]
  BY <1>2, <1>3, ConcatProperties
<1> QED
  BY <1>2, <1>3, <1>4 DEF p

(* The parts that the Complete call lists are all of them.                 *)
LEMMA ListedIsAll ==
  ASSUME TypeOK, NEW w \in Writers, Len(parts[w]) = Acked(w)
  PROVE  Listed(w) = parts[w] /\ parts[w] \in Seq(Span) /\ Len(parts[w]) \in Nat
BY SubSeqFull, LenProperties DEF TypeOK, Listed, Acked

(* The part that is uploaded is the one after the acknowledged ones.       *)
PartAdded(w) ==
  /\ parts' \in [Writers -> Seq(Span)]
  /\ Len(parts'[w]) = part_number[w]
  /\ \A i \in 1..Acked(w) : parts'[w][i] = parts[w][i]
  /\ parts'[w][part_number[w]] = <<base[w], bytes_received[w]>>
  /\ \A v \in Writers \ {w} : parts'[v] = parts[v]

LEMMA UploadFacts ==
  ASSUME TypeOK, NEW w \in Writers, Prefix(w), Uploaded(w), TakePart(w)
  PROVE  PartAdded(w)
<1>1. parts[w] \in Seq(Span) /\ <<base[w], bytes_received[w]>> \in Span
  BY DEF TypeOK, Span
<1>2. Acked(w) \in Nat /\ Acked(w) <= Len(parts[w]) /\ Acked(w) + 1 = part_number[w]
  BY DEF TypeOK, Prefix, Uploaded, Acked
<1>3. parts' = [parts EXCEPT ![w] = SubSeq(parts[w], 1, Acked(w))
                                    \o <<<<base[w], bytes_received[w]>>>>]
  BY DEF TakePart, Acked
<1>4. parts'[w] = SubSeq(parts[w], 1, Acked(w)) \o <<<<base[w], bytes_received[w]>>>>
  BY <1>3 DEF TypeOK
<1>5. /\ parts'[w] \in Seq(Span)
      /\ Len(parts'[w]) = Acked(w) + 1
      /\ \A i \in 1..Acked(w) : parts'[w][i] = parts[w][i]
      /\ parts'[w][Acked(w) + 1] = <<base[w], bytes_received[w]>>
  <2> DEFINE s == parts[w]
             n == Acked(w)
             x == <<base[w], bytes_received[w]>>
             t == SubSeq(s, 1, n) \o <<x>>
  <2>1. s \in Seq(Span) /\ n \in Nat /\ n <= Len(s) /\ x \in Span /\ parts'[w] = t
    BY <1>1, <1>2, <1>4
  <2> HIDE DEF s, n, x
  <2>2. t \in Seq(Span) /\ Len(t) = n + 1 /\ (\A i \in 1..n : t[i] = s[i]) /\ t[n + 1] = x
    BY <2>1, PartAppended
  <2> HIDE DEF t
  <2> QED
    BY <2>1, <2>2 DEF s, n, x
<1> QED
  BY <1>2, <1>3, <1>5 DEF TypeOK, PartAdded

(* fill_part took a chunk: the buffer is not full yet, or it is sent.      *)
ChunkRead(w) ==
  /\ pc[w] = "filling"
  /\ bytes_received' \in [Writers -> Nat]
  /\ \A v \in Writers \ {w} : bytes_received'[v] = bytes_received[v]
  /\ bytes_received[w] < bytes_received'[w]
  /\ bytes_received'[w] <= bytes_received[w] + MaxChunk
  /\ bytes_received'[w] <= size[w]
  /\ \/ bytes_received'[w] < base[w] + PART_SIZE /\ UNCHANGED <<pc, pending, late>>
     \/ /\ base[w] + PART_SIZE <= bytes_received'[w]
        /\ \/ ~upload_id[w] /\ Send(w, "creating", "create")
           \/ upload_id[w] /\ Send(w, "uploading", "part")
  /\ UNCHANGED <<size, base, eof, upload_id, part_number, result, s3Vars>>

LEMMA ChunkFacts ==
  ASSUME TypeOK, NEW w \in Writers, ReadChunk(w)
  PROVE  ChunkRead(w)
<1>1. PICK n \in 1..MaxChunk :
        LET got == bytes_received[w] + n IN
        /\ got <= size[w]
        /\ bytes_received' = [bytes_received EXCEPT ![w] = got]
        /\ \/ ~Full(got - base[w]) /\ UNCHANGED <<pc, pending, late>>
           \/ Full(got - base[w]) /\ ~upload_id[w] /\ Send(w, "creating", "create")
           \/ Full(got - base[w]) /\ upload_id[w] /\ Send(w, "uploading", "part")
  BY DEF ReadChunk
<1>2. /\ bytes_received[w] \in Nat /\ base[w] \in Nat
      /\ n \in Nat /\ n > 0 /\ n <= MaxChunk /\ MaxChunk \in Nat /\ PART_SIZE \in Nat
  BY SizesAssumption DEF TypeOK
<1>3. Full((bytes_received[w] + n) - base[w]) <=> base[w] + PART_SIZE <= bytes_received[w] + n
  BY <1>2 DEF Full
<1>4. /\ bytes_received'[w] = bytes_received[w] + n
      /\ bytes_received' \in [Writers -> Nat]
      /\ \A v \in Writers \ {w} : bytes_received'[v] = bytes_received[v]
  BY <1>1, <1>2 DEF TypeOK
<1>5. /\ bytes_received[w] < bytes_received'[w]
      /\ bytes_received'[w] <= bytes_received[w] + MaxChunk
      /\ bytes_received'[w] <= size[w]
      /\ base[w] + PART_SIZE <= bytes_received[w] + n
         <=> ~(bytes_received'[w] < base[w] + PART_SIZE)
  BY <1>1, <1>2, <1>4
<1>6. \/ bytes_received'[w] < base[w] + PART_SIZE /\ UNCHANGED <<pc, pending, late>>
      \/ /\ base[w] + PART_SIZE <= bytes_received'[w]
         /\ \/ ~upload_id[w] /\ Send(w, "creating", "create")
            \/ upload_id[w] /\ Send(w, "uploading", "part")
  <2> DEFINE full == Full((bytes_received[w] + n) - base[w])
  <2>1. \/ ~full /\ UNCHANGED <<pc, pending, late>>
        \/ full /\ ~upload_id[w] /\ Send(w, "creating", "create")
        \/ full /\ upload_id[w] /\ Send(w, "uploading", "part")
    BY <1>1
  <2>2. full => base[w] + PART_SIZE <= bytes_received'[w]
    BY <1>3, <1>4
  <2>3. ~full => bytes_received'[w] < base[w] + PART_SIZE
    BY <1>3, <1>5
  <2> HIDE DEF full
  <2> QED
    BY <2>1, <2>2, <2>3, Zenon
<1>7. /\ pc[w] = "filling"
      /\ UNCHANGED <<size, base, eof, upload_id, part_number, result, s3Vars>>
  BY DEF ReadChunk
<1> QED
  BY <1>4, <1>5, <1>6, <1>7 DEF ChunkRead

-----------------------------------------------------------------------------
(* The base, and the types. *)

(* Nothing is read, sent or stored yet.                                    *)
LEMMA InvInit == Init => Inv
<1> SUFFICES ASSUME Init PROVE Inv
  OBVIOUS
<1>1. <<>> \in Seq(Span) /\ Len(<<>>) = 0
  OBVIOUS
<1>2. TypeOK
  <2>1. NoObject \in [by : Writers \cup {Nothing}, body : Seq(Span)]
    BY <1>1 DEF NoObject
  <2> QED
    BY <1>1, <2>1 DEF Init, TypeOK, Active, Ended, Calls
<1>3. Whole
  BY DEF Init, Whole
<1>4. ASSUME NEW w \in Writers PROVE CallInv(w)
  <2>1. /\ part_number[w] = 1 /\ base[w] = 0 /\ bytes_received[w] = 0 /\ parts[w] = <<>>
        /\ pc[w] = "filling" /\ pending[w] = "none" /\ ~upload_id[w] /\ ~eof[w]
        /\ ~late[w] /\ result[w] = "failed" /\ w \notin committed /\ size[w] \in Nat
    BY SizesAssumption DEF Init
  <2>2. 0 < 0 + PART_SIZE /\ 0 < 0 + PART_SIZE + MaxChunk /\ Acked(w) = 0
    BY <2>1, SizesAssumption DEF Acked
  <2>3. Counts(w) /\ Stages(w) /\ InFlight(w) /\ FullPart(w) /\ Cleanup(w) /\ Commits(w)
    BY <2>1, <2>2 DEF Counts, Stages, InFlight, FullPart, Cleanup, Commits
  <2>4. Prefix(w) /\ Uploaded(w)
    BY <1>1, <2>1, <2>2 DEF Prefix, Uploaded
  <2> QED
    BY <2>3, <2>4 DEF CallInv
<1> QED
  BY <1>2, <1>3, <1>4 DEF Inv

(* Every action keeps the variables in their sets.                         *)
LEMMA TypeStep ==
  ASSUME TypeOK, \A w \in Writers : Prefix(w) /\ Uploaded(w), [Next]_vars
  PROVE  TypeOK'
<1> USE DEF TypeOK, Active, Ended, Calls
<1>1. ASSUME NEW w \in Writers, ReadChunk(w) PROVE TypeOK'
  <2>1. bytes_received' \in [Writers -> Nat]
    BY <1>1, SizesAssumption DEF ReadChunk
  <2>2. pc' \in [Writers -> Active \cup Ended] /\ pending' \in [Writers -> Calls]
    BY <1>1 DEF ReadChunk, Send
  <2>3. late' = late
    BY <1>1 DEF ReadChunk, Send
  <2> QED
    BY <1>1, <2>1, <2>2, <2>3 DEF ReadChunk
<1>2. ASSUME NEW w \in Writers, BodyEnds(w) PROVE TypeOK'
  BY <1>2 DEF BodyEnds, LastPart, Send
<1>3. ASSUME NEW w \in Writers, BodyFails(w) PROVE TypeOK'
  <2>1. pc' \in [Writers -> Active \cup Ended]
    <3>1. \E how \in {"aborting", "client_abort"} : pc' = [pc EXCEPT ![w] = how]
      BY <1>3, Zenon DEF BodyFails, Abort, Finish
    <3> QED
      BY <3>1
  <2>2. pending' \in [Writers -> Calls]
    BY <1>3 DEF BodyFails, Abort, Finish
  <2>3. result' \in [Writers -> {"failed", "client_abort"}]
    BY <1>3 DEF BodyFails, Abort
  <2>4. late' \in [Writers -> BOOLEAN]
    BY <1>3 DEF BodyFails, Abort, Finish
  <2> QED
    BY <1>3, <2>1, <2>2, <2>3, <2>4 DEF BodyFails
<1>4. ASSUME NEW w \in Writers, PutOk(w) PROVE TypeOK'
  BY <1>4 DEF PutOk, Finish
<1>5. ASSUME NEW w \in Writers, CreateOk(w) PROVE TypeOK'
  BY <1>5 DEF CreateOk, Send
<1>6. ASSUME NEW w \in Writers, PartOk(w) PROVE TypeOK'
  <2>1. part_number' \in [Writers -> Nat] /\ base' \in [Writers -> Nat]
    BY <1>6 DEF PartOk
  <2>2. pc' \in [Writers -> Active \cup Ended] /\ pending' \in [Writers -> Calls]
    BY <1>6 DEF PartOk, Send, Finish
  <2>3. late' = late
    BY <1>6 DEF PartOk, Send, Finish
  <2> QED
    BY <1>6, <2>1, <2>2, <2>3 DEF PartOk
<1>7. ASSUME NEW w \in Writers, CompleteOk(w) PROVE TypeOK'
  BY <1>7 DEF CompleteOk, Finish
<1>8. ASSUME NEW w \in Writers, CallErr(w) PROVE TypeOK'
  <2>1. pc' \in [Writers -> Active \cup Ended]
    <3>1. \E how \in {"aborting", "failed"} : pc' = [pc EXCEPT ![w] = how]
      BY <1>8, Zenon DEF CallErr, Abort, Finish
    <3> QED
      BY <3>1
  <2>2. pending' \in [Writers -> Calls]
    BY <1>8 DEF CallErr, Abort, Finish
  <2>3. result' \in [Writers -> {"failed", "client_abort"}]
    BY <1>8 DEF CallErr, Abort
  <2>4. late' \in [Writers -> BOOLEAN]
    BY <1>8 DEF CallErr, Abort, Finish
  <2> QED
    BY <1>8, <2>1, <2>2, <2>3, <2>4 DEF CallErr
<1>9. ASSUME NEW w \in Writers, AbortReturns(w) PROVE TypeOK'
  BY <1>9 DEF AbortReturns, Finish
<1>10. ASSUME NEW w \in Writers, Drop(w) PROVE TypeOK'
  BY <1>10 DEF Drop, Finish
<1>11. ASSUME NEW w \in Writers, PutObject(w) PROVE TypeOK'
  <2>1. <<<<base[w], bytes_received[w]>>>> \in Seq(Span)
    BY DEF Span
  <2> QED
    BY <1>11, <2>1 DEF PutObject, Executed, Commit
<1>12. ASSUME NEW w \in Writers, CreateMultipartUpload(w) PROVE TypeOK'
  BY <1>12 DEF CreateMultipartUpload, Executed
<1>13. ASSUME NEW w \in Writers, UploadPart(w) PROVE TypeOK'
  <2> HIDE DEF TypeOK
  <2>1. PartAdded(w)
    BY <1>13, UploadFacts DEF UploadPart
  <2> QED
    BY <1>13, <2>1 DEF PartAdded, UploadPart, TakePart, Executed, TypeOK
<1>14. ASSUME NEW w \in Writers, AbortMultipartUpload(w) PROVE TypeOK'
  BY <1>14 DEF AbortMultipartUpload, Executed
<1>15. ASSUME NEW w \in Writers, CompleteMultipartUpload(w) PROVE TypeOK'
  <2>1. Acked(w) \in Nat /\ Acked(w) <= Len(parts[w]) /\ parts[w] \in Seq(Span)
    BY DEF Prefix, Uploaded, Acked
  <2>2. \A i \in 1..Acked(w) : parts[w][i] \in Span
    BY <2>1, ElementOfSeq
  <2>3. Listed(w) \in Seq(Span)
    BY <2>1, <2>2, SubSeqProperties DEF Listed, Acked
  <2> QED
    BY <1>15, <2>3 DEF CompleteMultipartUpload, Executed, Commit
<1>16. ASSUME NEW w \in Writers, LatePart(w) PROVE TypeOK'
  <2> HIDE DEF TypeOK
  <2>1. PartAdded(w)
    BY <1>16, UploadFacts DEF LatePart
  <2> QED
    BY <1>16, <2>1 DEF PartAdded, LatePart, TakePart, TypeOK
<1>17. CASE UNCHANGED vars
  BY <1>17 DEF vars
<1> QED
  BY <1>1, <1>2, <1>3, <1>4, <1>5, <1>6, <1>7, <1>8, <1>9, <1>10, <1>11, <1>12,
     <1>13, <1>14, <1>15, <1>16, <1>17 DEF Next

-----------------------------------------------------------------------------
(* A step of one call leaves the others alone. *)

(* What a step of another call leaves alone.                               *)
CallKept(v) ==
  /\ UNCHANGED <<pc[v], pending[v], result[v], size[v], base[v], bytes_received[v], eof[v],
                 upload_id[v], part_number[v], parts[v], upload[v], late[v]>>
  /\ v \in committed' <=> v \in committed

LEMMA CallAlone ==
  ASSUME NEW v \in Writers, CallKept(v), CallInv(v)
  PROVE  CallInv(v)'
<1> USE DEF CallKept, CallInv
<1>1. Acked(v)' = Acked(v)
  BY DEF Acked
<1>2. Counts(v)' /\ FullPart(v)'
  BY DEF Counts, FullPart
<1>3. Stages(v)' /\ InFlight(v)'
  BY DEF Stages, InFlight
<1>4. Cleanup(v)' /\ Commits(v)'
  BY DEF Cleanup, Commits
<1>5. Prefix(v)' /\ Uploaded(v)'
  BY <1>1 DEF Prefix, Uploaded
<1> QED
  BY <1>2, <1>3, <1>4, <1>5

LEMMA OthersAlone ==
  ASSUME TypeOK, NEW w \in Writers, NEW v \in Writers, v # w, StepOf(w)
  PROVE  CallKept(v)
<1> USE DEF CallKept, TypeOK
<1>1. CASE ReadChunk(w)
  BY <1>1 DEF ReadChunk, Send
<1>2. CASE BodyEnds(w)
  BY <1>2 DEF BodyEnds, LastPart, Send
<1>3. CASE BodyFails(w)
  BY <1>3 DEF BodyFails, Abort, Finish
<1>4. CASE PutOk(w)
  BY <1>4 DEF PutOk, Finish
<1>5. CASE CreateOk(w)
  BY <1>5 DEF CreateOk, Send
<1>6. CASE PartOk(w)
  BY <1>6 DEF PartOk, Send, Finish
<1>7. CASE CompleteOk(w)
  BY <1>7 DEF CompleteOk, Finish
<1>8. CASE CallErr(w)
  BY <1>8 DEF CallErr, Abort, Finish
<1>9. CASE AbortReturns(w)
  BY <1>9 DEF AbortReturns, Finish
<1>10. CASE Drop(w)
  BY <1>10 DEF Drop, Finish
<1>11. CASE PutObject(w)
  BY <1>11 DEF PutObject, Executed, Commit
<1>12. CASE CreateMultipartUpload(w)
  BY <1>12 DEF CreateMultipartUpload, Executed
<1>13. CASE UploadPart(w)
  BY <1>13 DEF UploadPart, TakePart, Executed
<1>14. CASE AbortMultipartUpload(w)
  BY <1>14 DEF AbortMultipartUpload, Executed
<1>15. CASE CompleteMultipartUpload(w)
  BY <1>15 DEF CompleteMultipartUpload, Executed, Commit
<1>16. CASE LatePart(w)
  BY <1>16 DEF LatePart, TakePart
<1> QED
  BY <1>1, <1>2, <1>3, <1>4, <1>5, <1>6, <1>7, <1>8, <1>9, <1>10, <1>11, <1>12, <1>13,
     <1>14, <1>15, <1>16 DEF StepOf

-----------------------------------------------------------------------------
(* What a step does to its own call. *)

(* The buffer holds less than a part and a chunk, and no byte is skipped.  *)
LEMMA CountsStep ==
  ASSUME TypeOK, NEW w \in Writers, Counts(w), StepOf(w)
  PROVE  Counts(w)'
<1> USE DEF Counts
<1>1. CASE ReadChunk(w)
  <2>1. ChunkRead(w)
    BY <1>1, ChunkFacts
  <2>2. /\ size' = size /\ base' = base /\ eof' = eof
        /\ size[w] \in Nat /\ base[w] \in Nat /\ bytes_received[w] \in Nat
        /\ bytes_received'[w] \in Nat /\ PART_SIZE \in Nat /\ MaxChunk \in Nat
    BY <2>1, SizesAssumption DEF ChunkRead, TypeOK
  <2>3. bytes_received[w] < base[w] + PART_SIZE /\ base[w] <= bytes_received[w]
    BY <2>1 DEF ChunkRead
  <2>4. ~eof[w]
    BY <2>1, <2>2 DEF ChunkRead
  <2>5. pc'[w] = "filling" => bytes_received'[w] < base[w] + PART_SIZE
    BY <2>1 DEF ChunkRead, Send, TypeOK
  <2> QED
    BY <2>1, <2>2, <2>3, <2>4, <2>5 DEF ChunkRead
<1>2. CASE BodyEnds(w)
  BY <1>2 DEF BodyEnds, LastPart, Send, TypeOK
<1>3. CASE BodyFails(w)
  BY <1>3 DEF BodyFails, Abort, Finish, TypeOK
<1>4. CASE PutOk(w)
  BY <1>4 DEF PutOk, Finish, TypeOK
<1>5. CASE CreateOk(w)
  BY <1>5 DEF CreateOk, Send, TypeOK
<1>6. CASE PartOk(w)
  <2>1. /\ base'[w] = bytes_received[w] /\ bytes_received[w] \in Nat
        /\ UNCHANGED <<bytes_received, size, eof>>
    BY <1>6 DEF PartOk, TypeOK
  <2>2. bytes_received[w] < bytes_received[w] + PART_SIZE
    BY <2>1, SizesAssumption
  <2>3. bytes_received[w] < bytes_received[w] + PART_SIZE + MaxChunk
    BY <2>1, SizesAssumption
  <2> QED
    BY <2>1, <2>2, <2>3
<1>7. CASE CompleteOk(w)
  BY <1>7 DEF CompleteOk, Finish, TypeOK
<1>8. CASE CallErr(w)
  BY <1>8 DEF CallErr, Abort, Finish, TypeOK
<1>9. CASE AbortReturns(w)
  BY <1>9 DEF AbortReturns, Finish, TypeOK
<1>10. CASE Drop(w)
  BY <1>10 DEF Drop, Finish, TypeOK
<1>11. CASE PutObject(w)
  BY <1>11 DEF PutObject, Executed, Commit, TypeOK
<1>12. CASE CreateMultipartUpload(w)
  BY <1>12 DEF CreateMultipartUpload, Executed, TypeOK
<1>13. CASE UploadPart(w)
  BY <1>13 DEF UploadPart, TakePart, Executed, TypeOK
<1>14. CASE AbortMultipartUpload(w)
  BY <1>14 DEF AbortMultipartUpload, Executed, TypeOK
<1>15. CASE CompleteMultipartUpload(w)
  BY <1>15 DEF CompleteMultipartUpload, Executed, Commit, TypeOK
<1>16. CASE LatePart(w)
  BY <1>16 DEF LatePart, TakePart, TypeOK
<1> QED
  BY <1>1, <1>2, <1>3, <1>4, <1>5, <1>6, <1>7, <1>8, <1>9, <1>10, <1>11, <1>12, <1>13,
     <1>14, <1>15, <1>16 DEF StepOf

(* The control of `store`, and the calls it leaves with S3.                *)
LEMMA StagesStep ==
  ASSUME TypeOK, NEW w \in Writers, Stages(w), InFlight(w), StepOf(w)
  PROVE  Stages(w)' /\ InFlight(w)'
<1> USE DEF Stages, InFlight
<1>1. CASE ReadChunk(w)
  <2>1. /\ UNCHANGED <<eof, upload_id, result, late>> /\ ~eof[w] /\ pc[w] = "filling"
        /\ \/ pc'[w] = "filling" /\ pending'[w] = "none"
           \/ pc'[w] = "creating" /\ pending'[w] = "create" /\ ~upload_id[w]
           \/ pc'[w] = "uploading" /\ pending'[w] = "part" /\ upload_id[w]
    BY <1>1 DEF ReadChunk, Send, TypeOK
  <2> QED
    BY <2>1
<1>2. CASE BodyEnds(w)
  <2>1. /\ UNCHANGED <<upload_id, result, late>> /\ eof'[w] /\ pc[w] = "filling"
        /\ \/ pc'[w] = "putting" /\ pending'[w] = "put" /\ ~upload_id[w]
           \/ pc'[w] = "uploading" /\ pending'[w] = "part" /\ upload_id[w]
           \/ pc'[w] = "completing" /\ pending'[w] = "complete" /\ upload_id[w]
    BY <1>2 DEF BodyEnds, LastPart, Send, TypeOK
  <2> QED
    BY <2>1
<1>3. CASE BodyFails(w)
  BY <1>3 DEF BodyFails, Abort, Finish, TypeOK
<1>4. CASE PutOk(w)
  BY <1>4 DEF PutOk, Finish, TypeOK
<1>5. CASE CreateOk(w)
  BY <1>5 DEF CreateOk, Send, TypeOK
<1>6. CASE PartOk(w)
  BY <1>6 DEF PartOk, Send, Finish, TypeOK
<1>7. CASE CompleteOk(w)
  BY <1>7 DEF CompleteOk, Finish, TypeOK
<1>8. CASE CallErr(w)
  BY <1>8 DEF CallErr, Abort, Finish, TypeOK
<1>9. CASE AbortReturns(w)
  BY <1>9 DEF AbortReturns, Finish, TypeOK
<1>10. CASE Drop(w)
  BY <1>10 DEF Drop, Finish, TypeOK
<1>11. CASE PutObject(w)
  BY <1>11 DEF PutObject, Executed, Commit, TypeOK
<1>12. CASE CreateMultipartUpload(w)
  BY <1>12 DEF CreateMultipartUpload, Executed, TypeOK
<1>13. CASE UploadPart(w)
  BY <1>13 DEF UploadPart, TakePart, Executed, TypeOK
<1>14. CASE AbortMultipartUpload(w)
  BY <1>14 DEF AbortMultipartUpload, Executed, TypeOK
<1>15. CASE CompleteMultipartUpload(w)
  BY <1>15 DEF CompleteMultipartUpload, Executed, Commit, TypeOK
<1>16. CASE LatePart(w)
  BY <1>16 DEF LatePart, TakePart, TypeOK
<1> QED
  BY <1>1, <1>2, <1>3, <1>4, <1>5, <1>6, <1>7, <1>8, <1>9, <1>10, <1>11, <1>12, <1>13,
     <1>14, <1>15, <1>16 DEF StepOf

(* A part is uploaded when fill_part filled it or the body ended.          *)
LEMMA FullPartStep ==
  ASSUME TypeOK, NEW w \in Writers, Counts(w), Stages(w), InFlight(w), FullPart(w), StepOf(w)
  PROVE  FullPart(w)'
<1> USE DEF FullPart
<1>a. /\ pc[w] = "creating" => ~eof[w]
      /\ pc[w] = "filling" => pending[w] = "none"
  BY DEF Stages
<1>1. CASE ReadChunk(w)
  <2>1. ChunkRead(w)
    BY <1>1, ChunkFacts
  <2>2. /\ UNCHANGED <<eof, base>> /\ base[w] \in Nat /\ bytes_received'[w] \in Nat
        /\ \/ pc'[w] = "filling" /\ pending'[w] = "none"
           \/ base[w] + PART_SIZE <= bytes_received'[w]
    BY <2>1 DEF ChunkRead, Send, TypeOK, Stages
  <2>3. base[w] + PART_SIZE <= bytes_received'[w] => base[w] < bytes_received'[w]
    BY <2>2, SizesAssumption
  <2> QED
    BY <2>2, <2>3
<1>2. CASE BodyEnds(w)
  BY <1>2, <1>a DEF BodyEnds, LastPart, Send, TypeOK
<1>3. CASE BodyFails(w)
  BY <1>3, <1>a DEF BodyFails, Abort, Finish, TypeOK
<1>4. CASE PutOk(w)
  BY <1>4, <1>a DEF PutOk, Finish, TypeOK
<1>5. CASE CreateOk(w)
  BY <1>5, <1>a DEF CreateOk, Send, TypeOK
<1>6. CASE PartOk(w)
  BY <1>6, <1>a DEF PartOk, Send, Finish, TypeOK
<1>7. CASE CompleteOk(w)
  BY <1>7, <1>a DEF CompleteOk, Finish, TypeOK
<1>8. CASE CallErr(w)
  BY <1>8, <1>a DEF CallErr, Abort, Finish, TypeOK
<1>9. CASE AbortReturns(w)
  BY <1>9, <1>a DEF AbortReturns, Finish, TypeOK
<1>10. CASE Drop(w)
  BY <1>10, <1>a DEF Drop, Finish, TypeOK
<1>11. CASE PutObject(w)
  BY <1>11, <1>a DEF PutObject, Executed, Commit, TypeOK
<1>12. CASE CreateMultipartUpload(w)
  BY <1>12, <1>a DEF CreateMultipartUpload, Executed, TypeOK
<1>13. CASE UploadPart(w)
  BY <1>13, <1>a DEF UploadPart, TakePart, Executed, TypeOK
<1>14. CASE AbortMultipartUpload(w)
  BY <1>14, <1>a DEF AbortMultipartUpload, Executed, TypeOK
<1>15. CASE CompleteMultipartUpload(w)
  BY <1>15, <1>a DEF CompleteMultipartUpload, Executed, Commit, TypeOK
<1>16. CASE LatePart(w)
  BY <1>16, <1>a DEF LatePart, TakePart, TypeOK
<1> QED
  BY <1>1, <1>2, <1>3, <1>4, <1>5, <1>6, <1>7, <1>8, <1>9, <1>10, <1>11, <1>12, <1>13,
     <1>14, <1>15, <1>16 DEF StepOf

(* The acknowledged parts stay as they are while their number does, but    *)
(* for the one that ends the body.                                         *)
AckedKept(v) ==
  /\ part_number'[v] = part_number[v] /\ base'[v] = base[v]
  /\ ~upload_id'[v] => ~upload_id[v]
  /\ eof[v] => eof'[v] /\ bytes_received'[v] = bytes_received[v]
  /\ \A i \in 1..Acked(v) : parts'[v][i] = parts[v][i]

LEMMA PrefixKept ==
  ASSUME TypeOK, NEW v \in Writers, Prefix(v), AckedKept(v)
  PROVE  Prefix(v)'
<1> USE DEF AckedKept
<1>1. part_number[v] \in Nat /\ Acked(v)' = Acked(v) /\ Acked(v) \in Int
  BY DEF TypeOK, Acked
<1>2. \A i \in 1..Acked(v) - 1 : i \in 1..Acked(v) /\ i + 1 \in 1..Acked(v)
  BY <1>1
<1>3. \A i \in 1..Acked(v) - 1 : parts'[v][i][2] = parts'[v][i + 1][1]
  BY <1>2 DEF Prefix
<1>4. part_number[v] > 1 => 1 \in 1..Acked(v) /\ Acked(v) \in 1..Acked(v)
  BY <1>1 DEF Acked
<1>5. part_number[v] > 1 => parts'[v][1][1] = 0 /\ parts'[v][Acked(v)][2] = base[v]
  BY <1>4 DEF Prefix
<1>6. \A i \in 1..Acked(v) :
        /\ parts'[v][i][1] < parts'[v][i][2]
        /\ \/ parts'[v][i][1] + PART_SIZE <= parts'[v][i][2]
           \/ eof'[v] /\ i = Acked(v) /\ base[v] = bytes_received'[v]
  BY DEF Prefix
<1> QED
  BY <1>1, <1>3, <1>5, <1>6 DEF Prefix

(* The acknowledged parts of the call that acts.                           *)
LEMMA PrefixStep ==
  ASSUME TypeOK, NEW w \in Writers, CallInv(w), StepOf(w)
  PROVE  Prefix(w)'
<1>0. Prefix(w) /\ Uploaded(w)
  BY DEF CallInv
<1>a. ASSUME AckedKept(w) PROVE Prefix(w)'
  BY <1>0, <1>a, PrefixKept
<1>1. CASE ReadChunk(w)
  <2>1. ChunkRead(w) /\ ~eof[w]
    BY <1>0, <1>1, ChunkFacts DEF CallInv, Stages, ReadChunk
  <2> QED
    BY <1>a, <2>1 DEF ChunkRead, AckedKept
<1>2. CASE BodyEnds(w)
  BY <1>0, <1>a, <1>2 DEF BodyEnds, LastPart, Send, TypeOK, AckedKept
<1>3. CASE BodyFails(w)
  BY <1>0, <1>a, <1>3 DEF BodyFails, Abort, Finish, TypeOK, AckedKept
<1>4. CASE PutOk(w)
  BY <1>0, <1>a, <1>4 DEF PutOk, Finish, TypeOK, AckedKept
<1>5. CASE CreateOk(w)
  BY <1>0, <1>a, <1>5 DEF CreateOk, Send, TypeOK, AckedKept
<1>6. CASE PartOk(w)
  <2> DEFINE n == part_number[w]
             p == parts[w]
  <2>1. /\ part_number'[w] = n + 1 /\ base'[w] = bytes_received[w] /\ parts' = parts
        /\ eof' = eof /\ bytes_received' = bytes_received /\ upload_id' = upload_id
        /\ pc[w] = "uploading" /\ pending[w] = "none"
    BY <1>0, <1>6 DEF PartOk, TypeOK
  <2>2. /\ n \in Nat /\ n >= 1 /\ Acked(w) = n - 1 /\ Acked(w)' = n
        /\ base[w] \in Nat /\ bytes_received[w] \in Nat
    BY <1>0, <2>1 DEF TypeOK, Prefix, Acked
  <2>3. upload_id[w] /\ Len(p) = n /\ p[n] = <<base[w], bytes_received[w]>>
    BY <1>0, <2>1 DEF CallInv, Stages, Uploaded
  <2>4. /\ base[w] < bytes_received[w]
        /\ base[w] + PART_SIZE <= bytes_received[w] \/ eof[w]
    BY <1>0, <2>1 DEF CallInv, FullPart
  <2>5. p[n][1] = base[w] /\ p[n][2] = bytes_received[w]
    BY <2>3
  <2>6. p[1][1] = 0
    <3>1. CASE n = 1
      BY <1>0, <2>5, <3>1 DEF Prefix
    <3>2. CASE n > 1
      BY <1>0, <3>2 DEF Prefix
    <3> QED
      BY <2>2, <3>1, <3>2
  <2>7. \A i \in 1..n - 1 : p[i][2] = p[i + 1][1]
    <3> SUFFICES ASSUME NEW i \in 1..n - 1 PROVE p[i][2] = p[i + 1][1]
      OBVIOUS
    <3>1. CASE i = n - 1
      <4>1. n > 1 /\ i = Acked(w) /\ i + 1 = n
        BY <2>2, <3>1
      <4>2. p[Acked(w)][2] = base[w]
        BY <1>0, <4>1 DEF Prefix
      <4> QED
        BY <2>5, <4>1, <4>2
    <3>2. CASE i # n - 1
      <4>1. i \in 1..Acked(w) - 1
        BY <2>2, <3>2
      <4> QED
        BY <1>0, <4>1 DEF Prefix
    <3> QED
      BY <3>1, <3>2
  <2>8. \A i \in 1..n :
          /\ p[i][1] < p[i][2]
          /\ \/ p[i][1] + PART_SIZE <= p[i][2]
             \/ eof[w] /\ i = n
    <3> SUFFICES ASSUME NEW i \in 1..n
                 PROVE  /\ p[i][1] < p[i][2]
                        /\ p[i][1] + PART_SIZE <= p[i][2] \/ (eof[w] /\ i = n)
      OBVIOUS
    <3>1. CASE i = n
      BY <2>4, <2>5, <3>1
    <3>2. CASE i # n
      <4>1. i \in 1..Acked(w) /\ base[w] # bytes_received[w]
        BY <2>2, <2>4, <3>2
      <4>2. /\ p[i][1] < p[i][2]
            /\ \/ p[i][1] + PART_SIZE <= p[i][2]
               \/ base[w] = bytes_received[w]
        BY <1>0, <4>1, Zenon DEF Prefix
      <4> QED
        BY <4>1, <4>2, Zenon
    <3> QED
      BY <3>1, <3>2
  <2>9. /\ n + 1 >= 1 /\ n + 1 > 1 /\ n + 1 # 1
    BY <2>2
  <2> HIDE DEF n
  <2> QED
    BY <2>1, <2>2, <2>3, <2>5, <2>6, <2>7, <2>8, <2>9 DEF Prefix
<1>7. CASE CompleteOk(w)
  BY <1>0, <1>a, <1>7 DEF CompleteOk, Finish, TypeOK, AckedKept
<1>8. CASE CallErr(w)
  BY <1>0, <1>a, <1>8 DEF CallErr, Abort, Finish, TypeOK, AckedKept
<1>9. CASE AbortReturns(w)
  BY <1>0, <1>a, <1>9 DEF AbortReturns, Finish, TypeOK, AckedKept
<1>10. CASE Drop(w)
  BY <1>0, <1>a, <1>10 DEF Drop, Finish, TypeOK, AckedKept
<1>11. CASE PutObject(w)
  BY <1>0, <1>a, <1>11 DEF PutObject, Executed, Commit, TypeOK, AckedKept
<1>12. CASE CreateMultipartUpload(w)
  BY <1>0, <1>a, <1>12 DEF CreateMultipartUpload, Executed, TypeOK, AckedKept
<1>13. CASE UploadPart(w)
  <2>1. PartAdded(w)
    BY <1>0, <1>13, UploadFacts DEF UploadPart
  <2> QED
    BY <1>a, <1>13, <2>1 DEF UploadPart, TakePart, PartAdded, AckedKept
<1>14. CASE AbortMultipartUpload(w)
  BY <1>0, <1>a, <1>14 DEF AbortMultipartUpload, Executed, TypeOK, AckedKept
<1>15. CASE CompleteMultipartUpload(w)
  BY <1>0, <1>a, <1>15 DEF CompleteMultipartUpload, Executed, Commit, TypeOK, AckedKept
<1>16. CASE LatePart(w)
  <2>1. PartAdded(w)
    BY <1>0, <1>16, UploadFacts DEF LatePart
  <2> QED
    BY <1>a, <1>16, <2>1 DEF LatePart, TakePart, PartAdded, AckedKept
<1> QED
  BY <1>1, <1>2, <1>3, <1>4, <1>5, <1>6, <1>7, <1>8, <1>9, <1>10, <1>11, <1>12, <1>13,
     <1>14, <1>15, <1>16 DEF StepOf

(* What S3 has of the upload of the call that acts.                        *)
LEMMA UploadedStep ==
  ASSUME TypeOK, NEW w \in Writers, CallInv(w), StepOf(w)
  PROVE  Uploaded(w)'
<1>0. Prefix(w) /\ Uploaded(w) /\ Stages(w)
  BY DEF CallInv
<1>a. /\ part_number[w] \in Nat /\ part_number[w] >= 1 /\ Acked(w) = part_number[w] - 1
      /\ parts[w] \in Seq(Span) /\ Len(parts[w]) \in Nat
  BY <1>0 DEF TypeOK, Prefix, Acked
<1>b. part_number'[w] = part_number[w] => Acked(w)' = Acked(w)
  BY DEF Acked
<1>1. CASE ReadChunk(w)
  <2>1. ChunkRead(w)
    BY <1>0, <1>1, ChunkFacts
  <2>2. /\ part_number'[w] = part_number[w] /\ parts' = parts /\ base' = base
        /\ upload_id' = upload_id
        /\ pc[w] = "filling" /\ pending[w] = "none"
        /\ \/ pc'[w] = "filling" /\ pending'[w] = "none"
           \/ pc'[w] = "creating" /\ pending'[w] = "create"
           \/ pc'[w] = "uploading" /\ pending'[w] = "part"
    BY <1>0, <2>1 DEF ChunkRead, Send, TypeOK, Stages
  <2> QED
    BY <1>0, <1>a, <1>b, <2>2 DEF Uploaded
<1>2. CASE BodyEnds(w)
  <2>1. UNCHANGED <<part_number, parts, base, bytes_received>>
    BY <1>2 DEF BodyEnds, LastPart
  <2> QED
    BY <1>0, <1>a, <1>b, <1>2, <2>1 DEF BodyEnds, LastPart, Send, TypeOK, Stages, Uploaded
<1>3. CASE BodyFails(w)
  <2>1. UNCHANGED <<part_number, parts, base, bytes_received>>
    BY <1>3 DEF BodyFails
  <2> QED
    BY <1>0, <1>a, <1>b, <1>3, <2>1
       DEF BodyFails, Abort, Finish, TypeOK, Stages, Uploaded
<1>4. CASE PutOk(w)
  <2>1. UNCHANGED <<part_number, parts, base, bytes_received>>
    BY <1>4 DEF PutOk
  <2> QED
    BY <1>0, <1>a, <1>b, <1>4, <2>1 DEF PutOk, Finish, TypeOK, Stages, Uploaded
<1>5. CASE CreateOk(w)
  <2>1. UNCHANGED <<part_number, parts, base, bytes_received>>
    BY <1>5 DEF CreateOk
  <2> QED
    BY <1>0, <1>a, <1>b, <1>5, <2>1 DEF CreateOk, Send, TypeOK, Stages, Uploaded
<1>6. CASE PartOk(w)
  <2>1. /\ part_number'[w] = part_number[w] + 1 /\ parts' = parts
        /\ base'[w] = bytes_received[w] /\ bytes_received' = bytes_received
        /\ pc[w] = "uploading" /\ pending[w] = "none"
        /\ \/ pc'[w] = "filling" /\ pending'[w] = "none"
           \/ pc'[w] = "completing" /\ pending'[w] = "complete"
    BY <1>0, <1>6 DEF PartOk, Send, Finish, TypeOK
  <2>2. Len(parts[w]) = part_number[w]
    BY <1>0, <2>1 DEF Uploaded
  <2>3. Acked(w)' = part_number[w] /\ part_number[w] + 1 > 1
    BY <1>a, <2>1 DEF Acked
  <2> QED
    BY <1>a, <2>1, <2>2, <2>3 DEF Uploaded
<1>7. CASE CompleteOk(w)
  <2>1. UNCHANGED <<part_number, parts, base, bytes_received>>
    BY <1>7 DEF CompleteOk
  <2> QED
    BY <1>0, <1>a, <1>b, <1>7, <2>1 DEF CompleteOk, Finish, TypeOK, Stages, Uploaded
<1>8. CASE CallErr(w)
  <2>1. UNCHANGED <<part_number, parts, base, bytes_received>>
    BY <1>8 DEF CallErr
  <2> QED
    BY <1>0, <1>a, <1>b, <1>8, <2>1
       DEF CallErr, Abort, Finish, TypeOK, Stages, Uploaded
<1>9. CASE AbortReturns(w)
  <2>1. UNCHANGED <<part_number, parts, base, bytes_received>>
    BY <1>9 DEF AbortReturns
  <2> QED
    BY <1>0, <1>a, <1>b, <1>9, <2>1 DEF AbortReturns, Finish, TypeOK, Stages, Uploaded
<1>10. CASE Drop(w)
  <2>1. UNCHANGED <<part_number, parts, base, bytes_received>>
    BY <1>10 DEF Drop
  <2> QED
    BY <1>0, <1>a, <1>b, <1>10, <2>1 DEF Drop, Finish, TypeOK, Stages, Uploaded
<1>11. CASE PutObject(w)
  <2>1. UNCHANGED <<part_number, parts, base, bytes_received>>
    BY <1>11 DEF PutObject
  <2> QED
    BY <1>0, <1>a, <1>b, <1>11, <2>1
       DEF PutObject, Executed, Commit, TypeOK, Stages, Uploaded
<1>12. CASE CreateMultipartUpload(w)
  <2>1. UNCHANGED <<part_number, parts, base, bytes_received>>
    BY <1>12 DEF CreateMultipartUpload
  <2> QED
    BY <1>0, <1>a, <1>b, <1>12, <2>1
       DEF CreateMultipartUpload, Executed, TypeOK, Stages, Uploaded
<1>13. CASE UploadPart(w)
  <2>1. PartAdded(w)
    BY <1>0, <1>13, UploadFacts DEF UploadPart
  <2>2. /\ UNCHANGED <<pc, part_number, base, bytes_received, upload_id>>
        /\ pending[w] = "part" /\ pending'[w] \in {"part", "none"}
    BY <1>0, <1>13 DEF UploadPart, TakePart, Executed, TypeOK
  <2>3. pc[w] # "filling" /\ pc[w] # "completing"
    BY <1>0, <2>2 DEF Stages
  <2> QED
    BY <1>a, <1>b, <2>1, <2>2, <2>3 DEF PartAdded, Uploaded
<1>14. CASE AbortMultipartUpload(w)
  <2>1. UNCHANGED <<part_number, parts, base, bytes_received>>
    BY <1>14 DEF AbortMultipartUpload
  <2> QED
    BY <1>0, <1>a, <1>b, <1>14, <2>1
       DEF AbortMultipartUpload, Executed, TypeOK, Stages, Uploaded
<1>15. CASE CompleteMultipartUpload(w)
  <2>1. UNCHANGED <<part_number, parts, base, bytes_received>>
    BY <1>15 DEF CompleteMultipartUpload
  <2> QED
    BY <1>0, <1>a, <1>b, <1>15, <2>1
       DEF CompleteMultipartUpload, Executed, Commit, TypeOK, Stages, Uploaded
<1>16. CASE LatePart(w)
  <2>1. PartAdded(w)
    BY <1>0, <1>16, UploadFacts DEF LatePart
  <2>2. UNCHANGED <<pc, pending, part_number, base, bytes_received, upload_id>>
    BY <1>16 DEF LatePart, TakePart
  <2>3. pc[w] # "filling" /\ pc[w] # "completing" /\ pending[w] # "complete"
    BY <1>16 DEF LatePart, CallInv, InFlight
  <2> QED
    BY <1>a, <1>b, <2>1, <2>2, <2>3 DEF PartAdded, Uploaded
<1> QED
  BY <1>1, <1>2, <1>3, <1>4, <1>5, <1>6, <1>7, <1>8, <1>9, <1>10, <1>11, <1>12, <1>13,
     <1>14, <1>15, <1>16 DEF StepOf

(* A call with an answer from an abort or a completion has closed its upload, *)
(* and none returns without either.                                        *)
LEMMA CleanupStep ==
  ASSUME TypeOK, NEW w \in Writers, Stages(w), InFlight(w), Cleanup(w), StepOf(w)
  PROVE  Cleanup(w)'
<1> USE DEF Stages, InFlight, Cleanup
<1>1. CASE ReadChunk(w)
  BY <1>1 DEF ReadChunk, Send, TypeOK
<1>2. CASE BodyEnds(w)
  BY <1>2 DEF BodyEnds, LastPart, Send, TypeOK
<1>3. CASE BodyFails(w)
  BY <1>3 DEF BodyFails, Abort, Finish, TypeOK
<1>4. CASE PutOk(w)
  BY <1>4 DEF PutOk, Finish, TypeOK
<1>5. CASE CreateOk(w)
  BY <1>5 DEF CreateOk, Send, TypeOK
<1>6. CASE PartOk(w)
  BY <1>6 DEF PartOk, Send, Finish, TypeOK
<1>7. CASE CompleteOk(w)
  BY <1>7 DEF CompleteOk, Finish, TypeOK
<1>8. CASE CallErr(w)
  BY <1>8 DEF CallErr, Abort, Finish, TypeOK
<1>9. CASE AbortReturns(w)
  BY <1>9 DEF AbortReturns, Finish, TypeOK
<1>10. CASE Drop(w)
  BY <1>10 DEF Drop, Finish, TypeOK
<1>11. CASE PutObject(w)
  BY <1>11 DEF PutObject, Executed, Commit, TypeOK
<1>12. CASE CreateMultipartUpload(w)
  BY <1>12 DEF CreateMultipartUpload, Executed, TypeOK
<1>13. CASE UploadPart(w)
  BY <1>13 DEF UploadPart, TakePart, Executed, TypeOK
<1>14. CASE AbortMultipartUpload(w)
  BY <1>14 DEF AbortMultipartUpload, Executed, TypeOK
<1>15. CASE CompleteMultipartUpload(w)
  BY <1>15 DEF CompleteMultipartUpload, Executed, Commit, TypeOK
<1>16. CASE LatePart(w)
  BY <1>16 DEF LatePart, TakePart, TypeOK
<1> QED
  BY <1>1, <1>2, <1>3, <1>4, <1>5, <1>6, <1>7, <1>8, <1>9, <1>10, <1>11, <1>12, <1>13,
     <1>14, <1>15, <1>16 DEF StepOf

(* Only a body read to its end is put in place, and Ok says that it was.   *)
LEMMA CommitsStep ==
  ASSUME TypeOK, NEW w \in Writers, Stages(w), InFlight(w), Commits(w), StepOf(w)
  PROVE  Commits(w)'
<1> USE DEF Stages, InFlight, Commits
<1>1. CASE ReadChunk(w)
  BY <1>1 DEF ReadChunk, Send, TypeOK
<1>2. CASE BodyEnds(w)
  BY <1>2 DEF BodyEnds, LastPart, Send, TypeOK
<1>3. CASE BodyFails(w)
  BY <1>3 DEF BodyFails, Abort, Finish, TypeOK
<1>4. CASE PutOk(w)
  BY <1>4 DEF PutOk, Finish, TypeOK
<1>5. CASE CreateOk(w)
  BY <1>5 DEF CreateOk, Send, TypeOK
<1>6. CASE PartOk(w)
  BY <1>6 DEF PartOk, Send, Finish, TypeOK
<1>7. CASE CompleteOk(w)
  BY <1>7 DEF CompleteOk, Finish, TypeOK
<1>8. CASE CallErr(w)
  BY <1>8 DEF CallErr, Abort, Finish, TypeOK
<1>9. CASE AbortReturns(w)
  BY <1>9 DEF AbortReturns, Finish, TypeOK
<1>10. CASE Drop(w)
  BY <1>10 DEF Drop, Finish, TypeOK
<1>11. CASE PutObject(w)
  BY <1>11 DEF PutObject, Executed, Commit, TypeOK
<1>12. CASE CreateMultipartUpload(w)
  BY <1>12 DEF CreateMultipartUpload, Executed, TypeOK
<1>13. CASE UploadPart(w)
  BY <1>13 DEF UploadPart, TakePart, Executed, TypeOK
<1>14. CASE AbortMultipartUpload(w)
  BY <1>14 DEF AbortMultipartUpload, Executed, TypeOK
<1>15. CASE CompleteMultipartUpload(w)
  BY <1>15 DEF CompleteMultipartUpload, Executed, Commit, TypeOK
<1>16. CASE LatePart(w)
  BY <1>16 DEF LatePart, TakePart, TypeOK
<1> QED
  BY <1>1, <1>2, <1>3, <1>4, <1>5, <1>6, <1>7, <1>8, <1>9, <1>10, <1>11, <1>12, <1>13,
     <1>14, <1>15, <1>16 DEF StepOf

-----------------------------------------------------------------------------
(* The object. *)

(* What `store` lists when it completes an upload is what S3 holds: not    *)
(* empty, tiling the body from its first byte to its last, no part empty   *)
(* and none but the last short.                                            *)
LEMMA CompleteFacts ==
  ASSUME TypeOK, NEW w \in Writers, CallInv(w), pending[w] = "complete"
  PROVE  /\ Len(parts[w]) = Acked(w)
         /\ Listed(w) = parts[w]
         /\ Acceptable(Listed(w))
         /\ \A i \in 1..Len(parts[w]) : parts[w][i][1] < parts[w][i][2]
         /\ Tiles(Listed(w), size[w])
<1>1. Prefix(w) /\ Uploaded(w)
  BY DEF CallInv
<1>2. Len(parts[w]) = Acked(w) /\ part_number[w] > 1 /\ base[w] = bytes_received[w]
  BY <1>1 DEF Uploaded
<1>3. Listed(w) = parts[w] /\ parts[w] \in Seq(Span)
  BY <1>1, <1>2, ListedIsAll
<1>4. Acked(w) \in Nat /\ Acked(w) > 0 /\ part_number[w] = Acked(w) + 1
  BY <1>1, <1>2 DEF TypeOK, Acked
<1>5. \A i \in 1..Acked(w) : parts[w][i][1] < parts[w][i][2]
  BY <1>1 DEF Prefix
<1>6. parts[w] # <<>>
  BY <1>2, <1>4
<1>7. Acceptable(Listed(w))
  <2> SUFFICES ASSUME NEW i \in 1..Acked(w) - 1
               PROVE  parts[w][i][2] - parts[w][i][1] >= MinPart
    BY <1>2, <1>3, <1>6 DEF Acceptable
  <2>1. i \in 1..Acked(w) /\ i # Acked(w)
    BY <1>4
  <2>2. parts[w][i][1] + PART_SIZE <= parts[w][i][2]
    BY <1>1, <2>1 DEF Prefix
  <2>3. parts[w][i] \in Span
    BY <1>2, <1>3, <2>1, ElementOfSeq
  <2>4. parts[w][i][1] \in Nat /\ parts[w][i][2] \in Nat
    BY <2>3 DEF Span
  <2> HIDE DEF Span
  <2> QED
    BY <2>2, <2>4, SizesAssumption, PartSizeAssumption
<1>8. Tiles(Listed(w), size[w])
  <2>1. bytes_received[w] = size[w]
    BY DEF CallInv, InFlight, Counts
  <2>2. parts[w][1][1] = 0 /\ parts[w][Acked(w)][2] = base[w]
    BY <1>1, <1>2 DEF Prefix
  <2>3. \A i \in 1..Acked(w) - 1 : parts[w][i][2] = parts[w][i + 1][1]
    BY <1>1 DEF Prefix
  <2> QED
    BY <1>2, <1>3, <1>6, <2>1, <2>2, <2>3 DEF Tiles
<1> QED
  BY <1>2, <1>3, <1>5, <1>7, <1>8

(* A commit puts a whole body in place.                                    *)
LEMMA WholeStep ==
  ASSUME Inv, [Next]_vars
  PROVE  Whole'
<1>1. ASSUME UNCHANGED <<object, size>> PROVE Whole'
  BY <1>1 DEF Inv, Whole, NoObject
<1>2. ASSUME NEW w \in Writers, PutObject(w) PROVE Whole'
  <2> DEFINE b == <<<<base[w], bytes_received[w]>>>>
  <2>1. object' = [by |-> w, body |-> b] /\ size' = size /\ pending[w] = "put"
    BY <1>2 DEF PutObject, Commit
  <2>2. eof[w] /\ ~upload_id[w]
    BY <2>1 DEF Inv, CallInv, InFlight
  <2>3. base[w] = 0 /\ bytes_received[w] = size[w]
    BY <2>2 DEF Inv, CallInv, Counts, Prefix
  <2>4. Len(b) = 1 /\ b[1] = <<base[w], bytes_received[w]>> /\ b # <<>>
    OBVIOUS
  <2>5. Tiles(b, size[w])
    BY <2>3, <2>4 DEF Tiles
  <2> HIDE DEF b
  <2> QED
    BY <2>1, <2>5 DEF Whole
<1>3. ASSUME NEW w \in Writers, CompleteMultipartUpload(w) PROVE Whole'
  <2>1. object' = [by |-> w, body |-> Listed(w)] /\ size' = size /\ pending[w] = "complete"
    BY <1>3 DEF CompleteMultipartUpload, Commit
  <2>2. Tiles(Listed(w), size[w])
    BY <2>1, CompleteFacts DEF Inv
  <2> QED
    BY <2>1, <2>2 DEF Whole
<1>4. ASSUME NEW w \in Writers,
             \/ ReadChunk(w) \/ BodyEnds(w) \/ BodyFails(w)
             \/ PutOk(w) \/ CreateOk(w) \/ PartOk(w) \/ CompleteOk(w)
             \/ CallErr(w) \/ AbortReturns(w) \/ Drop(w)
             \/ CreateMultipartUpload(w) \/ UploadPart(w) \/ LatePart(w)
             \/ AbortMultipartUpload(w)
      PROVE  UNCHANGED <<object, size>>
  BY <1>4 DEF ReadChunk, BodyEnds, LastPart, BodyFails, PutOk, CreateOk, PartOk, CompleteOk,
              CallErr, AbortReturns, Drop, CreateMultipartUpload, UploadPart,
              LatePart, TakePart, AbortMultipartUpload
<1>5. CASE UNCHANGED vars
  BY <1>1, <1>5 DEF vars
<1> QED
  BY <1>1, <1>2, <1>3, <1>4, <1>5 DEF Next

(* Every step keeps the invariant: of its own call, part by part, of the   *)
(* others because it leaves them alone, and of the object.                 *)
LEMMA InvStep == Inv /\ [Next]_vars => Inv'
<1> SUFFICES ASSUME Inv, [Next]_vars PROVE Inv'
  OBVIOUS
<1>1. TypeOK /\ \A v \in Writers : CallInv(v)
  BY DEF Inv
<1>2. TypeOK'
  BY <1>1, TypeStep DEF CallInv
<1>3. Whole'
  BY WholeStep
<1>4. ASSUME NEW v \in Writers PROVE CallInv(v)'
  <2>1. CASE Next
    <3>1. PICK w \in Writers : StepOf(w)
      BY <2>1 DEF Next, StepOf
    <3>2. CASE v = w
      <4>1. StepOf(v) /\ CallInv(v)
        BY <1>1, <3>1, <3>2
      <4>2. /\ Counts(v) /\ Stages(v) /\ InFlight(v) /\ FullPart(v)
            /\ Cleanup(v) /\ Commits(v)
        BY <4>1 DEF CallInv
      <4>3. Counts(v)' /\ Stages(v)' /\ InFlight(v)' /\ FullPart(v)'
        BY <1>1, <4>1, <4>2, CountsStep, StagesStep, FullPartStep
      <4>4. Prefix(v)' /\ Uploaded(v)'
        BY <1>1, <4>1, PrefixStep, UploadedStep
      <4>5. Cleanup(v)' /\ Commits(v)'
        BY <1>1, <4>1, <4>2, CleanupStep, CommitsStep
      <4> QED
        BY <4>3, <4>4, <4>5 DEF CallInv
    <3>3. CASE v # w
      BY <1>1, <3>1, <3>3, OthersAlone, CallAlone
    <3> QED
      BY <3>2, <3>3
  <2>2. CASE UNCHANGED vars
    <3>1. CallKept(v)
      BY <2>2 DEF vars, CallKept
    <3> QED
      BY <1>1, <3>1, CallAlone
  <2> QED
    BY <2>1, <2>2
<1> QED
  BY <1>2, <1>3, <1>4 DEF Inv

-----------------------------------------------------------------------------
(* The theorems. *)

(* The invariant holds in every reachable state.                           *)
THEOREM Invariance == Spec => []Inv
BY InvInit, InvStep, PTL DEF Spec

(* `store` keeps every variable in its set: an upload never gets a part    *)
(* that is not a span of the body, a call never a result it cannot return. *)
THEOREM TypeCorrect == Spec => []TypeOK
<1>1. Inv => TypeOK
  BY DEF Inv
<1> QED
  BY <1>1, Invariance, PTL

(* `store` buffers less than one part and one chunk of a body, whatever    *)
(* the chunks of the stream are.                                           *)
THEOREM BoundedBuffer == Spec => []BufferBound
<1>1. Inv => BufferBound
  <2> SUFFICES ASSUME Inv, NEW w \in Writers
               PROVE  bytes_received[w] - base[w] < PART_SIZE + MaxChunk
    BY DEF BufferBound
  <2>1. /\ bytes_received[w] \in Nat /\ base[w] \in Nat
        /\ PART_SIZE \in Nat /\ MaxChunk \in Nat
    BY SizesAssumption DEF Inv, TypeOK
  <2>2. bytes_received[w] < base[w] + PART_SIZE + MaxChunk
    BY DEF Inv, CallInv, Counts
  <2> QED
    BY <2>1, <2>2
<1> QED
  BY <1>1, Invariance, PTL

(* When `store` completes an upload, S3 holds exactly the listed parts and *)
(* has no reason to refuse them.                                           *)
THEOREM CompletionsAccepted == Spec => []CompleteIsAcceptable
<1>1. Inv => CompleteIsAcceptable
  BY CompleteFacts DEF Inv, CompleteIsAcceptable, Acked
<1> QED
  BY <1>1, Invariance, PTL

LEMMA WholeIsWhole == Whole => ObjectIsWhole
BY DEF Whole, ObjectIsWhole

(* Whatever failed, raced, was retried or executed late, the key holds     *)
(* nothing or every byte of one body in order: `store` never leaves a      *)
(* truncated, shuffled or mixed artifact.                                  *)
THEOREM ObjectsAreWhole == Spec => []ObjectIsWhole
<1>1. Inv => ObjectIsWhole
  BY WholeIsWhole DEF Inv
<1> QED
  BY <1>1, Invariance, PTL

(* A call that returned leaves the upload it has the id of open only if S3 *)
(* did not execute the abort or the completion it was sent: no path of     *)
(* `store` forgets the cleanup.                                            *)
THEOREM LeaksHaveCause == Spec => []LeakNeedsUnexecutedCall
<1>1. Inv => LeakNeedsUnexecutedCall
  BY DEF Inv, CallInv, Cleanup, LeakNeedsUnexecutedCall
<1> QED
  BY <1>1, Invariance, PTL

-----------------------------------------------------------------------------
(* The refinement. *)

(* Every step of S3Storage::store and of S3 is a step of the promise, or   *)
(* none: the bodies become the object at once, and the callers are told    *)
(* the truth.                                                              *)
LEMMA StoreStep ==
  ASSUME Inv, Whole', [Next]_vars
  PROVE  [Store!StoreNext]_(Store!storeVars)
<1> DEFINE known == [w \in Writers |-> IF pc[w] \in Ended THEN pc[w] ELSE "running"]
<1>1. ObjectIsWhole /\ ObjectIsWhole'
  BY WholeIsWhole DEF Inv, Whole, ObjectIsWhole
<1>2. pc \in [Writers -> Active \cup Ended] /\ Active \cap Ended = {} /\ "running" \notin Ended
  BY DEF Inv, TypeOK, Active, Ended
<1>3. ASSUME UNCHANGED <<object, committed>>, known' = known
      PROVE  UNCHANGED Store!storeVars
  BY <1>1, <1>3 DEF Store!storeVars
<1>4. ASSUME NEW w \in Writers, NEW how \in Ended, pc[w] \notin Ended,
             how = "ok" => w \in committed, how = "client_abort" => w \notin committed,
             pc' = [pc EXCEPT ![w] = how], UNCHANGED <<object, committed>>
      PROVE  Store!StoreNext
  <2>1. known' = [known EXCEPT ![w] = how] /\ known[w] = "running"
    BY <1>2, <1>4
  <2>2. Store!Return(w, how)
    BY <1>1, <1>4, <2>1 DEF Store!Return
  <2>3. how \in Store!Results
    BY DEF Ended, Store!Results
  <2> QED
    BY <2>2, <2>3 DEF Store!StoreNext
<1>5. ASSUME NEW w \in Writers, NEW b, Commit(w, b), UNCHANGED pc, pc[w] # "client_abort"
      PROVE  Store!StoreNext
  <2>1. object'.by = w /\ committed' = committed \cup {w}
    BY <1>5 DEF Commit
  <2>2. known' = known /\ known[w] # "client_abort"
    BY <1>5
  <2>3. Store!Commit(w)
    BY <1>1, <2>1, <2>2 DEF Store!Commit
  <2> QED
    BY <2>3 DEF Store!StoreNext
<1>6. ASSUME NEW w \in Writers, NEW how \in Active, pc[w] \in Active,
             pc' = [pc EXCEPT ![w] = how]
      PROVE  known' = known
  BY <1>2, <1>6
<1> HIDE DEF known
<1>7. ASSUME NEW w \in Writers, ReadChunk(w) PROVE [Store!StoreNext]_(Store!storeVars)
  <2>1. /\ pc[w] \in Active /\ UNCHANGED <<object, committed>>
        /\ pc' = pc \/ \E how \in {"creating", "uploading"} : pc' = [pc EXCEPT ![w] = how]
    BY <1>7 DEF ReadChunk, Send, Active
  <2>2. known' = known
    BY <1>6, <2>1 DEF Active, known
  <2> QED
    BY <1>3, <2>2, <2>1
<1>8. ASSUME NEW w \in Writers, BodyEnds(w) PROVE [Store!StoreNext]_(Store!storeVars)
  <2>1. /\ pc[w] \in Active /\ UNCHANGED <<object, committed>>
        /\ \E how \in {"putting", "uploading", "completing"} : pc' = [pc EXCEPT ![w] = how]
    BY <1>8 DEF BodyEnds, LastPart, Send, Active
  <2>2. known' = known
    BY <1>6, <2>1 DEF Active, known
  <2> QED
    BY <1>3, <2>2, <2>1
<1>9. ASSUME NEW w \in Writers, BodyFails(w) PROVE [Store!StoreNext]_(Store!storeVars)
  <2>1. /\ pc[w] \in Active /\ UNCHANGED <<object, committed>>
        /\ \/ pc' = [pc EXCEPT ![w] = "aborting"]
           \/ pc' = [pc EXCEPT ![w] = "client_abort"]
    BY <1>9 DEF BodyFails, Abort, Finish, Active
  <2>2. w \notin committed
    BY <1>9 DEF BodyFails, Inv, CallInv, Stages, Commits
  <2> QED
    BY <1>2, <1>3, <1>4, <1>6, <2>1, <2>2 DEF Active, Ended
<1>10. ASSUME NEW w \in Writers, PutOk(w) PROVE [Store!StoreNext]_(Store!storeVars)
  <2>1. w \in committed
    BY <1>10 DEF PutOk, Inv, CallInv, Commits
  <2>2. /\ pc' = [pc EXCEPT ![w] = "ok"] /\ pc[w] \notin Ended
        /\ UNCHANGED <<object, committed>>
    BY <1>10 DEF PutOk, Finish, Ended
  <2> QED
    BY <1>4, <2>1, <2>2 DEF Ended
<1>11. ASSUME NEW w \in Writers, CreateOk(w) PROVE [Store!StoreNext]_(Store!storeVars)
  <2>1. /\ pc[w] \in Active /\ UNCHANGED <<object, committed>>
        /\ \E how \in {"uploading"} : pc' = [pc EXCEPT ![w] = how]
    BY <1>11 DEF CreateOk, Send, Active
  <2>2. known' = known
    BY <1>6, <2>1 DEF Active, known
  <2> QED
    BY <1>3, <2>2, <2>1
<1>12. ASSUME NEW w \in Writers, PartOk(w) PROVE [Store!StoreNext]_(Store!storeVars)
  <2>1. /\ pc[w] \in Active /\ UNCHANGED <<object, committed>>
        /\ \E how \in {"filling", "completing"} : pc' = [pc EXCEPT ![w] = how]
    BY <1>12 DEF PartOk, Send, Finish, Active
  <2>2. known' = known
    BY <1>6, <2>1 DEF Active, known
  <2> QED
    BY <1>3, <2>2, <2>1
<1>13. ASSUME NEW w \in Writers, CompleteOk(w) PROVE [Store!StoreNext]_(Store!storeVars)
  <2>1. w \in committed
    BY <1>13 DEF CompleteOk, Inv, CallInv, Commits
  <2>2. /\ pc' = [pc EXCEPT ![w] = "ok"] /\ pc[w] \notin Ended
        /\ UNCHANGED <<object, committed>>
    BY <1>13 DEF CompleteOk, Finish, Ended
  <2> QED
    BY <1>4, <2>1, <2>2 DEF Ended
<1>14. ASSUME NEW w \in Writers, CallErr(w) PROVE [Store!StoreNext]_(Store!storeVars)
  <2>1. /\ pc[w] \in Active /\ UNCHANGED <<object, committed>>
        /\ \/ pc' = [pc EXCEPT ![w] = "aborting"]
           \/ pc' = [pc EXCEPT ![w] = "failed"]
    BY <1>14 DEF CallErr, Abort, Finish, Active
  <2> QED
    BY <1>2, <1>3, <1>4, <1>6, <2>1 DEF Active, Ended
<1>15. ASSUME NEW w \in Writers, AbortReturns(w) PROVE [Store!StoreNext]_(Store!storeVars)
  <2>1. /\ pc' = [pc EXCEPT ![w] = result[w]] /\ pc[w] \notin Ended
        /\ UNCHANGED <<object, committed>>
    BY <1>15 DEF AbortReturns, Finish, Ended
  <2>2. result[w] \in {"failed", "client_abort"}
    BY DEF Inv, TypeOK
  <2>3. result[w] = "client_abort" => w \notin committed
    BY DEF Inv, CallInv, Stages, Commits
  <2> QED
    BY <1>4, <2>1, <2>2, <2>3 DEF Ended
<1>16. ASSUME NEW w \in Writers, Drop(w) PROVE [Store!StoreNext]_(Store!storeVars)
  <2>1. /\ pc' = [pc EXCEPT ![w] = "dropped"] /\ pc[w] \notin Ended
        /\ UNCHANGED <<object, committed>>
    BY <1>2, <1>16 DEF Drop, Finish
  <2> QED
    BY <1>4, <2>1 DEF Ended
<1>17. ASSUME NEW w \in Writers, PutObject(w) PROVE [Store!StoreNext]_(Store!storeVars)
  <2>1. Commit(w, <<<<base[w], bytes_received[w]>>>>) /\ UNCHANGED pc
    BY <1>17 DEF PutObject
  <2>2. eof[w]
    BY <1>17 DEF PutObject, Inv, CallInv, InFlight
  <2>3. pc[w] # "client_abort"
    BY <2>2 DEF Inv, CallInv, Stages
  <2> QED
    BY <1>5, <2>1, <2>3
<1>18. ASSUME NEW w \in Writers, CreateMultipartUpload(w)
       PROVE  [Store!StoreNext]_(Store!storeVars)
  BY <1>3, <1>18 DEF CreateMultipartUpload, known
<1>19. ASSUME NEW w \in Writers, UploadPart(w) PROVE [Store!StoreNext]_(Store!storeVars)
  BY <1>3, <1>19 DEF UploadPart, TakePart, known
<1>20. ASSUME NEW w \in Writers, AbortMultipartUpload(w)
       PROVE  [Store!StoreNext]_(Store!storeVars)
  BY <1>3, <1>20 DEF AbortMultipartUpload, known
<1>21. ASSUME NEW w \in Writers, CompleteMultipartUpload(w)
       PROVE  [Store!StoreNext]_(Store!storeVars)
  <2>1. Commit(w, Listed(w)) /\ UNCHANGED pc
    BY <1>21 DEF CompleteMultipartUpload
  <2>2. eof[w]
    BY <1>21 DEF CompleteMultipartUpload, Inv, CallInv, InFlight
  <2>3. pc[w] # "client_abort"
    BY <2>2 DEF Inv, CallInv, Stages
  <2> QED
    BY <1>5, <2>1, <2>3
<1>22. ASSUME NEW w \in Writers, LatePart(w) PROVE [Store!StoreNext]_(Store!storeVars)
  BY <1>3, <1>22 DEF LatePart, TakePart, known
<1>23. CASE UNCHANGED vars
  BY <1>3, <1>23 DEF vars, known
<1> QED
  BY <1>7, <1>8, <1>9, <1>10, <1>11, <1>12, <1>13, <1>14, <1>15, <1>16, <1>17, <1>18,
     <1>19, <1>20, <1>21, <1>22, <1>23 DEF Next

(* S3Storage::store implements what StorageProvider promises.              *)
THEOREM StoreImplementsArtifactStore == Spec => StoreSpec
<1>1. Init => Store!StoreInit
  <2> SUFFICES ASSUME Init PROVE Store!StoreInit
    OBVIOUS
  <2>1. object.by = Nothing /\ ObjectIsWhole /\ committed = {}
    BY DEF Init, NoObject, ObjectIsWhole
  <2>2. \A w \in Writers : pc[w] = "filling"
    BY DEF Init
  <2> QED
    BY <2>1, <2>2 DEF Store!StoreInit, Ended
<1>2. Inv /\ Inv' /\ [Next]_vars => [Store!StoreNext]_(Store!storeVars)
  BY StoreStep DEF Inv
<1> QED
  BY <1>1, <1>2, InvInit, InvStep, PTL DEF Spec, StoreSpec, Store!StoreSpec
=============================================================================
