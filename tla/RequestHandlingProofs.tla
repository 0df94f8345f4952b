----------------------- MODULE RequestHandlingProofs ------------------------
(***************************************************************************)
(* Proofs about RequestHandling, for every number of requests and every    *)
(* set of paths, methods and tokens they may come with.                    *)
(***************************************************************************)
EXTENDS RequestHandling, SequenceTheorems, FiniteSetTheorems, TLAPS

-----------------------------------------------------------------------------
(* The inductive invariant, in parts. *)

(* The request passed the gate, the router and validate_hash.              *)
Named(r)    == Decodable(req[r].path) /\ Valid(Key(r))
Accepted(r) == req[r].method = "PUT" /\ req[r].token = "rw" /\ Named(r)

(* The body of this request is, or was, or may become the object.          *)
InS3(r) == writing[r] \/ r \in committed

(* What each place of a handler tells of its request.                      *)
Place(r) ==
  /\ pc[r] \in {"exists", "storing"} => Accepted(r)
  /\ pc[r] \in {"probing", "retrieving"} => IsRead(req[r]) /\ Named(r)
  /\ pc[r] \in {"received", "exists"} => ~InS3(r) /\ (Uploads(req[r]) => ~consumed[r])
  /\ pc[r] = "storing" /\ consumed[r] => InS3(r)
  /\ pc[r] # "answered" => status[r] = 0
  /\ pc[r] \notin {"draining", "answered", "dropped"} => verdict[r] = "none"

(* What a handler has decided when it begins to drain.                     *)
Drain(r) ==
  pc[r] = "draining" =>
    /\ verdict[r] \in {"Forbidden", "BadRequest", "Conflict"}
    /\ verdict[r] = "Conflict" => Decodable(req[r].path) /\ object[Key(r)] # Nothing
    /\ verdict[r] = "BadRequest" => ~InS3(r)

(* A body that S3 was sent: the observer's set only grows.                 *)
Sent(r) == InS3(r) => Accepted(r) /\ body[r] = "sent" /\ consumed[r]

(* What an answer told the client, and still holds.                        *)
Told(r) ==
  /\ status[r] # 500
  /\ verdict[r] = "ClientAbort" => ~InS3(r)
  /\ Uploads(req[r]) /\ Decodable(req[r].path) /\ status[r] \in {200, 400, 403, 409}
     => consumed[r] \/ r \in gaveUp
  /\ req[r].method = "PUT" =>
       /\ status[r] = 200 => r \in committed
       /\ status[r] = 409 => Decodable(req[r].path) /\ object[Key(r)] # Nothing
       /\ status[r] = 400 => ~InS3(r)

Handlers(r) == Place(r) /\ Drain(r) /\ Sent(r) /\ Told(r)

Inv == TypeOK /\ \A r \in Requests : Handlers(r)

-----------------------------------------------------------------------------
(* Lemmas on the operators. *)

USE DEF storageVars

(* ServerError::into_response, verdict by verdict.                         *)
LEMMA StatusOf ==
  /\ Status("Ok") = 200 /\ Status("Conflict") = 409 /\ Status("MethodNotAllowed") = 405
  /\ Status("NotFound") = 404 /\ Status("ClientAbort") = 400 /\ Status("BadRequest") = 400
  /\ Status("Unauthorized") = 401 /\ Status("Forbidden") = 403
BY DEF Status

(* The gate lets through a read with a token and a write with the          *)
(* read-write token.                                                       *)
LEMMA GateOf ==
  ASSUME NEW kind \in Kinds
  PROVE  /\ Gate(kind) = "Ok" => kind.token = "rw" \/ IsRead(kind)
         /\ Gate(kind) = "Forbidden" => ~IsRead(kind)
<1>1. kind.token \in {"rw", "ro", "none"}
  BY KindsAssumption
<1>2. CASE kind.token = "none"
  BY <1>2 DEF Gate
<1>3. CASE kind.token = "ro" /\ ~IsRead(kind)
  BY <1>3 DEF Gate
<1>4. CASE kind.token = "rw" \/ (kind.token = "ro" /\ IsRead(kind))
  BY <1>4 DEF Gate
<1> QED
  BY <1>1, <1>2, <1>3, <1>4

(* A path decodes to as many characters as it has pieces; their bytes are  *)
(* counted by a number that is no less.                                    *)
LEMMA DecodedLength ==
  ASSUME NEW path \in Seq(Raw)
  PROVE  /\ Len(Decode(path)) = Len(path)
         /\ DOMAIN Decode(path) = 1..Len(path)
         /\ Bytes(Decode(path)) \in Nat
         /\ Bytes(Decode(path)) >= Len(path)
<1> DEFINE hash == Decode(path)
           wide == {i \in DOMAIN hash : hash[i] = "letter"}
<1>1. DOMAIN path = 1..Len(path) /\ Len(path) \in Nat
  BY LenProperties
<1>2. DOMAIN hash = 1..Len(path)
  BY <1>1 DEF Decode
<1>3. hash \in Seq({path[i].char : i \in 1..Len(path)})
  BY <1>1 DEF Decode
<1>4. Len(hash) = Len(path)
  BY <1>1, <1>2, <1>3, LenProperties
<1>5. IsFiniteSet(1..Len(path))
  BY <1>1, FS_Interval
<1>6. IsFiniteSet(wide)
  BY <1>2, <1>5, FS_Subset
<1>7. Cardinality(wide) \in Nat
  BY <1>6, FS_CardinalityType
<1> QED
  BY <1>1, <1>2, <1>4, <1>7 DEF Bytes

(* What validate_hash accepts is inert as a key.                           *)
LEMMA ValidIsInert ==
  ASSUME NEW path \in Seq(Raw) \ {<<>>}, Valid(Decode(path))
  PROVE  Inert(Decode(path))
<1>1. Len(path) \in Nat /\ Len(path) > 0
  BY LenProperties, EmptySeq
<1>2. Bytes(Decode(path)) \in Nat /\ Bytes(Decode(path)) >= 1
  BY <1>1, DecodedLength
<1> QED
  BY <1>2, MaxBytesAssumption DEF Valid, Inert

(* A path that decodes names a key of the bucket.                          *)
LEMMA KeyOf ==
  ASSUME TypeOK, NEW r \in Requests
  PROVE  /\ req[r] \in Kinds /\ req[r].path \in Paths
         /\ req[r].method \in {"GET", "HEAD", "PUT", "POST"}
         /\ Decodable(req[r].path) => Key(r) \in Keys
<1>1. req[r] \in Kinds
  BY DEF TypeOK
<1>2. req[r].path \in Paths /\ req[r].method \in {"GET", "HEAD", "PUT", "POST"}
  BY <1>1, KindsAssumption
<1> QED
  BY <1>1, <1>2 DEF Key, Keys

-----------------------------------------------------------------------------
(* The invariant is inductive. *)

LEMMA InvInit == Init => Inv
<1> SUFFICES ASSUME Init PROVE Inv
  OBVIOUS
<1>1. TypeOK
  BY DEF Init, TypeOK, Verdicts
<1>2. ASSUME NEW r \in Requests PROVE Handlers(r)
  <2>1. /\ pc[r] = "received" /\ status[r] = 0 /\ ~InS3(r) /\ verdict[r] = "none"
        /\ Uploads(req[r]) => ~consumed[r]
    BY DEF Init, InS3
  <2> QED
    BY <2>1 DEF Handlers, Place, Drain, Sent, Told
<1> QED
  BY <1>1, <1>2 DEF Inv

(* Every action keeps the variables in their sets.                         *)
LEMMA TypeStep ==
  ASSUME TypeOK, \A r \in Requests : Drain(r), [Next]_vars
  PROVE  TypeOK'
<1> USE DEF TypeOK, Waits, Verdicts, ServerErrors
<1>1. ASSUME NEW r \in Requests, Receive(r) PROVE TypeOK'
  BY <1>1, StatusOf DEF Receive, Handle, Go, Answer, DrainThen
<1>2. ASSUME NEW r \in Requests, Exists(r) PROVE TypeOK'
  BY <1>2 DEF Exists, Go, DrainThen
<1>3. ASSUME NEW r \in Requests, StoreReads(r) PROVE TypeOK'
  BY <1>3 DEF StoreReads
<1>4. ASSUME NEW r \in Requests, StoreAborts(r) PROVE TypeOK'
  BY <1>4, StatusOf DEF StoreAborts, Answer
<1>5. ASSUME NEW r \in Requests, Commit(r) PROVE TypeOK'
  <2>1. writing' \in [Requests -> BOOLEAN]
    <3>1. writing \in [Requests -> BOOLEAN]
      OBVIOUS
    <3> HIDE DEF TypeOK
    <3>2. PICK lost \in BOOLEAN : writing' = [writing EXCEPT ![r] = lost]
      BY <1>5 DEF Commit
    <3> QED
      BY <3>1, <3>2, Zenon
  <2>2. object' \in [Keys -> Requests \cup {Nothing}]
    <3>1. object \in [Keys -> Requests \cup {Nothing}]
      OBVIOUS
    <3> HIDE DEF TypeOK
    <3> QED
      BY <1>5, <3>1 DEF Commit
  <2>3. committed' \subseteq Requests
    BY <1>5 DEF Commit
  <2>4. UNCHANGED <<req, pc, verdict, status, body, consumed, gaveUp>>
    BY <1>5 DEF Commit
  <2> QED
    BY <2>1, <2>2, <2>3, <2>4
<1>6. ASSUME NEW r \in Requests, StoreOk(r) PROVE TypeOK'
  BY <1>6, StatusOf DEF StoreOk, Answer
<1>7. ASSUME NEW r \in Requests, StoreErr(r) PROVE TypeOK'
  BY <1>7 DEF StoreErr, DrainThen
<1>8. ASSUME NEW r \in Requests, DrainEnds(r) PROVE TypeOK'
  BY <1>8, StatusOf DEF DrainEnds, Answer, Drain
<1>9. ASSUME NEW r \in Requests, DrainTimesOut(r) PROVE TypeOK'
  BY <1>9, StatusOf DEF DrainTimesOut, Answer, Drain
<1>10. ASSUME NEW r \in Requests, Probe(r) PROVE TypeOK'
  BY <1>10, StatusOf DEF Probe, Go, Answer
<1>11. ASSUME NEW r \in Requests, Retrieve(r) PROVE TypeOK'
  BY <1>11, StatusOf DEF Retrieve, Answer, Miss
<1>12. ASSUME NEW r \in Requests, ClientSends(r) PROVE TypeOK'
  BY <1>12 DEF ClientSends
<1>13. ASSUME NEW r \in Requests, ClientLeaves(r) PROVE TypeOK'
  BY <1>13 DEF ClientLeaves
<1>14. CASE UNCHANGED vars
  BY <1>14 DEF vars
<1> QED
  BY <1>1, <1>2, <1>3, <1>4, <1>5, <1>6, <1>7, <1>8, <1>9, <1>10, <1>11, <1>12, <1>13,
     <1>14 DEF Next

(* A step of one request's handler or client: any but S3's write.          *)
StepOf(r) ==
  \/ Receive(r) \/ Exists(r) \/ StoreReads(r) \/ StoreAborts(r)
  \/ StoreOk(r) \/ StoreErr(r) \/ DrainEnds(r) \/ DrainTimesOut(r)
  \/ Probe(r) \/ Retrieve(r) \/ ClientSends(r) \/ ClientLeaves(r)

(* What a step leaves of a request that it is not about: all but the key's *)
(* object, which may be replaced and is never removed.                     *)
Kept(q) ==
  /\ req' = req
  /\ UNCHANGED <<pc[q], verdict[q], status[q], body[q], consumed[q], writing[q]>>
  /\ q \in committed' <=> q \in committed
  /\ q \in gaveUp => q \in gaveUp'
  /\ \A key \in Keys : object[key] # Nothing => object'[key] # Nothing

(* A request is asked once.                                                *)
LEMMA SameRequest ==
  ASSUME req' = req, NEW q \in Requests
  PROVE  /\ Named(q)' <=> Named(q)
         /\ Accepted(q)' <=> Accepted(q)
         /\ Key(q)' = Key(q)
BY DEF Named, Accepted, Key

LEMMA HandlersKept ==
  ASSUME TypeOK, NEW q \in Requests, Handlers(q), Kept(q)
  PROVE  Handlers(q)'
<1>1. Decodable(req[q].path) => Key(q) \in Keys
  BY KeyOf
<1>2. req' = req /\ (Named(q)' <=> Named(q)) /\ (Accepted(q)' <=> Accepted(q)) /\ Key(q)' = Key(q)
  BY SameRequest DEF Kept
<1>3. InS3(q)' <=> InS3(q)
  BY DEF InS3, Kept
<1>4. Place(q)'
  BY <1>2, <1>3 DEF Handlers, Place, Kept
<1>5. Drain(q)'
  BY <1>1, <1>2, <1>3 DEF Handlers, Drain, Kept
<1>6. Sent(q)'
  BY <1>2, <1>3 DEF Handlers, Sent, Kept
<1>7. Told(q)'
  BY <1>1, <1>2, <1>3 DEF Handlers, Told, Kept
<1> QED
  BY <1>4, <1>5, <1>6, <1>7 DEF Handlers

(* A step of one request leaves the others alone.                          *)
LEMMA OthersKept ==
  ASSUME TypeOK, NEW r \in Requests, NEW q \in Requests, q # r, StepOf(r) \/ Commit(r)
  PROVE  Kept(q)
<1> USE DEF TypeOK, Kept
<1>1. CASE Receive(r)
  BY <1>1 DEF Receive, Handle, Go, Answer, DrainThen
<1>2. CASE Exists(r)
  BY <1>2 DEF Exists, Go, DrainThen
<1>3. CASE StoreReads(r)
  BY <1>3 DEF StoreReads
<1>4. CASE StoreAborts(r)
  BY <1>4 DEF StoreAborts, Answer
<1>5. CASE Commit(r)
  BY <1>5, NothingAssumption DEF Commit
<1>6. CASE StoreOk(r)
  BY <1>6 DEF StoreOk, Answer
<1>7. CASE StoreErr(r)
  BY <1>7 DEF StoreErr, DrainThen
<1>8. CASE DrainEnds(r)
  BY <1>8 DEF DrainEnds, Answer
<1>9. CASE DrainTimesOut(r)
  BY <1>9 DEF DrainTimesOut, Answer
<1>10. CASE Probe(r)
  BY <1>10 DEF Probe, Go, Answer
<1>11. CASE Retrieve(r)
  BY <1>11 DEF Retrieve, Answer, Miss
<1>12. CASE ClientSends(r)
  BY <1>12 DEF ClientSends
<1>13. CASE ClientLeaves(r)
  BY <1>13 DEF ClientLeaves
<1> QED
  BY <1>1, <1>2, <1>3, <1>4, <1>5, <1>6, <1>7, <1>8, <1>9, <1>10, <1>11, <1>12, <1>13
     DEF StepOf

(* A step of a request's own handler, client or write.                     *)
LEMMA OwnStep ==
  ASSUME Inv, NEW r \in Requests, StepOf(r) \/ Commit(r)
  PROVE  Handlers(r)'
<1>a. /\ TypeOK /\ Place(r) /\ Drain(r) /\ Sent(r) /\ Told(r)
      /\ req[r].method \in {"GET", "HEAD", "PUT", "POST"}
      /\ Decodable(req[r].path) => Key(r) \in Keys
  BY KeyOf DEF Inv, Handlers
<1>b. /\ req' = req /\ Key(r)' = Key(r)
      /\ (Named(r)' <=> Named(r)) /\ (Accepted(r)' <=> Accepted(r))
  <2>1. req' = req
    BY
       DEF StepOf, Receive, Exists, StoreReads, StoreAborts, Commit, StoreOk, StoreErr,
           DrainEnds,
           DrainTimesOut, Probe, Retrieve, ClientSends, ClientLeaves
  <2> QED
    BY <2>1, SameRequest
<1>1. CASE Receive(r)
  <2>1. /\ pc[r] = "received" /\ UNCHANGED <<body, consumed, writing, object, committed, gaveUp>>
        /\ ~InS3(r) /\ ~InS3(r)' /\ status[r] = 0 /\ verdict[r] = "none"
        /\ Uploads(req[r]) => ~consumed[r]
    BY <1>a, <1>1 DEF Receive, Place, InS3
  <2>2. CASE Gate(req[r]) = "Unauthorized" /\ Answer(r, "Unauthorized")
    <3>1. pc'[r] = "answered" /\ status'[r] = 401
      BY <1>a, <2>2, StatusOf DEF Answer, TypeOK
    <3> QED
      BY <1>b, <2>1, <3>1 DEF Handlers, Place, Drain, Sent, Told
  <2>3. CASE Gate(req[r]) = "Forbidden" /\ DrainThen(r, "Forbidden")
    <3>1. pc'[r] = "draining" /\ status'[r] = 0 /\ verdict'[r] = "Forbidden"
      BY <1>a, <2>1, <2>3 DEF DrainThen, TypeOK
    <3> QED
      BY <1>b, <2>1, <3>1 DEF Handlers, Place, Drain, Sent, Told
  <2>4. CASE Gate(req[r]) = "Ok" /\ Handle(r)
    <3>1. \/ /\ pc'[r] = "answered" /\ status'[r] = 405
         \/ /\ pc'[r] = "answered" /\ status'[r] = 400
            /\ ~Decodable(req[r].path) \/ IsRead(req[r])
         \/ /\ pc'[r] = "probing" /\ status'[r] = 0 /\ verdict'[r] = "none"
            /\ IsRead(req[r]) /\ Named(r)
         \/ /\ pc'[r] = "exists" /\ status'[r] = 0 /\ verdict'[r] = "none"
            /\ ~IsRead(req[r]) /\ req[r].method # "POST" /\ Named(r)
         \/ /\ pc'[r] = "draining" /\ status'[r] = 0 /\ verdict'[r] = "BadRequest"
      BY <1>a, <2>1, <2>4, StatusOf DEF Handle, Go, Answer, DrainThen, Named, TypeOK
    <3>2. ~IsRead(req[r]) => req[r].token = "rw"
      BY <1>a, <2>4, KeyOf, GateOf
    <3>3. ~IsRead(req[r]) /\ req[r].method # "POST" /\ Named(r) => Accepted(r)
      BY <1>a, <3>2 DEF IsRead, Accepted
    <3> QED
      BY <1>b, <2>1, <3>1, <3>3 DEF Handlers, Place, Drain, Sent, Told, Uploads, IsRead
  <2> QED
    BY <1>1, <2>2, <2>3, <2>4 DEF Receive
<1>2. CASE Exists(r)
  <2>1. /\ pc[r] = "exists" /\ UNCHANGED <<body, consumed, writing, object, committed, gaveUp>>
        /\ ~InS3(r) /\ ~InS3(r)' /\ status[r] = 0 /\ Accepted(r) /\ ~consumed[r]
        /\ verdict[r] = "none"
    BY <1>a, <1>2 DEF Exists, Place, InS3, Accepted, Uploads
  <2>2. CASE object[Key(r)] # Nothing /\ DrainThen(r, "Conflict")
    <3>1. pc'[r] = "draining" /\ status'[r] = 0 /\ verdict'[r] = "Conflict"
      BY <1>a, <2>1, <2>2 DEF DrainThen, TypeOK
    <3>2. Decodable(req[r].path)
      BY <2>1 DEF Accepted, Named
    <3> QED
      BY <1>b, <2>1, <2>2, <3>1, <3>2 DEF Handlers, Place, Drain, Sent, Told
  <2>3. CASE Go(r, "storing")
    <3>1. pc'[r] = "storing" /\ status'[r] = 0 /\ verdict'[r] = "none"
      BY <1>a, <2>1, <2>3 DEF Go, TypeOK
    <3> QED
      BY <1>b, <2>1, <3>1 DEF Handlers, Place, Drain, Sent, Told
  <2> QED
    BY <1>2, <2>2, <2>3 DEF Exists
<1>3. CASE StoreReads(r)
  BY <1>a, <1>b, <1>3 DEF StoreReads, TypeOK, Handlers, Place, Drain, Sent, Told, InS3
<1>4. CASE StoreAborts(r)
  BY <1>a, <1>b, <1>4, StatusOf DEF StoreAborts, Answer, TypeOK, Handlers, Place, Drain,
     Sent, Told, InS3
<1>5. CASE Commit(r)
  BY <1>a, <1>b, <1>5, NothingAssumption DEF Commit, TypeOK, Handlers, Place, Drain, Sent,
     Told, InS3
<1>6. CASE StoreOk(r)
  BY <1>a, <1>b, <1>6, StatusOf DEF StoreOk, Answer, TypeOK, Handlers, Place, Drain, Sent,
     Told, InS3
<1>7. CASE StoreErr(r)
  BY <1>a, <1>b, <1>7 DEF StoreErr, DrainThen, TypeOK, Handlers, Place, Drain, Sent, Told,
     InS3
<1>8. CASE DrainEnds(r)
  BY <1>a, <1>b, <1>8, StatusOf DEF DrainEnds, Answer, TypeOK, Handlers, Place, Drain, Sent,
     Told, InS3
<1>9. CASE DrainTimesOut(r)
  BY <1>a, <1>b, <1>9, StatusOf DEF DrainTimesOut, Answer, TypeOK, Handlers, Place, Drain,
     Sent, Told, InS3
<1>10. CASE Probe(r)
  BY <1>a, <1>b, <1>10, StatusOf DEF Probe, Go, Answer, TypeOK, Handlers, Place, Drain,
     Sent, Told, InS3, Uploads, IsRead
<1>11. CASE Retrieve(r)
  BY <1>a, <1>b, <1>11, StatusOf DEF Retrieve, Answer, Miss, TypeOK, Handlers, Place, Drain,
     Sent, Told, InS3, Uploads, IsRead
<1>12. CASE ClientSends(r)
  BY <1>a, <1>b, <1>12 DEF ClientSends, TypeOK, Handlers, Place, Drain, Sent, Told, InS3
<1>13. CASE ClientLeaves(r)
  BY <1>a, <1>b, <1>13 DEF ClientLeaves, TypeOK, Handlers, Place, Drain, Sent, Told, InS3,
     Waits
<1> QED
  BY <1>1, <1>2, <1>3, <1>4, <1>5, <1>6, <1>7, <1>8, <1>9, <1>10, <1>11, <1>12, <1>13
     DEF StepOf

LEMMA InvStep == Inv /\ [Next]_vars => Inv'
<1> SUFFICES ASSUME Inv, [Next]_vars PROVE Inv'
  OBVIOUS
<1>1. TypeOK /\ \A q \in Requests : Handlers(q)
  BY DEF Inv
<1>2. TypeOK'
  BY <1>1, TypeStep DEF Handlers
<1>3. ASSUME NEW q \in Requests PROVE Handlers(q)'
  <2>1. CASE Next
    <3>1. PICK r \in Requests : StepOf(r) \/ Commit(r)
      BY <2>1 DEF Next, StepOf
    <3>2. CASE q = r
      BY <3>1, <3>2, OwnStep
    <3>3. CASE q # r
      BY <1>1, <3>1, <3>3, OthersKept, HandlersKept
    <3> QED
      BY <3>2, <3>3
  <2>2. CASE UNCHANGED vars
    <3>1. Kept(q)
      BY <2>2 DEF vars, Kept
    <3> QED
      BY <1>1, <3>1, HandlersKept
  <2> QED
    BY <2>1, <2>2
<1> QED
  BY <1>2, <1>3 DEF Inv

-----------------------------------------------------------------------------
(* The theorems. *)

(* The invariant holds in every reachable state.                           *)
THEOREM Invariance == Spec => []Inv
BY InvInit, InvStep, PTL DEF Spec

(* Every status is one of the table's, and every object of the bucket is   *)
(* the body of a request or nothing.                                       *)
THEOREM TypeCorrect == Spec => []TypeOK
<1>1. Inv => TypeOK
  BY DEF Inv
<1> QED
  BY <1>1, Invariance, PTL

(* A 200, 403, 409 or a handler's 400 closes no connection under a client  *)
(* that is still sending, however the request was refused.                 *)
THEOREM UploadsAreRead == Spec => []UploadReadBeforeAnswer
<1>1. Inv => UploadReadBeforeAnswer
  BY DEF Inv, Handlers, Told, UploadReadBeforeAnswer
<1> QED
  BY <1>1, Invariance, PTL

(* No failure of storage, on any path, is answered with a 5xx.             *)
THEOREM NoServerErrors == Spec => []NeverServerError
<1>1. Inv => NeverServerError
  <2> SUFFICES ASSUME Inv, NEW r \in Requests PROVE status[r] < 500
    BY DEF NeverServerError
  <2>1. status[r] \in {0, 200, 400, 401, 403, 404, 405, 409, 500} /\ status[r] # 500
    BY DEF Inv, TypeOK, Handlers, Told
  <2> QED
    BY <2>1
<1> QED
  BY <1>1, Invariance, PTL

(* Whatever the paths are and however they are encoded, S3 is called with  *)
(* keys of 1 to MAX_BYTES bytes without a `.` or a `/`.                    *)
THEOREM KeysStayInert == Spec => []KeysAreInert
<1>1. Inv => KeysAreInert
  <2> SUFFICES ASSUME Inv, NEW r \in Requests,
                      \/ pc[r] \in {"exists", "storing", "probing", "retrieving"}
                      \/ r \in committed
               PROVE  Inert(Key(r))
    BY DEF KeysAreInert
  <2>1. Named(r)
    BY DEF Inv, Handlers, Place, Sent, InS3, Accepted
  <2>2. req[r].path \in Seq(Raw) \ {<<>>}
    BY KeyOf, PathsAssumption DEF Inv
  <2> QED
    BY <2>1, <2>2, ValidIsInert DEF Named, Key
<1> QED
  BY <1>1, Invariance, PTL

(* Only a body that was sent whole, by a PUT with the read-write token,    *)
(* ever becomes an object.                                                 *)
THEOREM BodiesAreWholeAndAuthorised == Spec => []OnlyWholeAuthorisedBodies
<1>1. Inv => OnlyWholeAuthorisedBodies
  BY DEF Inv, TypeOK, Handlers, Sent, InS3, Accepted, OnlyWholeAuthorisedBodies
<1> QED
  BY <1>1, Invariance, PTL

(* A client that reads 200, 409 or 400 for its PUT was told the truth, and *)
(* it stays true.                                                          *)
THEOREM StatusesAreTrue == Spec => []PutStatusIsTrue
<1>1. Inv => PutStatusIsTrue
  BY DEF Inv, Handlers, Told, InS3, PutStatusIsTrue
<1> QED
  BY <1>1, Invariance, PTL

-----------------------------------------------------------------------------
(* The contract of `store`, kept over HTTP. *)

(* Every step but S3's write leaves the objects alone, and tells at most   *)
(* one client, once and truly, what became of its PUT.                     *)
Tells(r) ==
  /\ UNCHANGED <<req, object, committed>>
  /\ \A q \in Requests \ {r} : Outcome(q)' = Outcome(q)
  /\ \/ Outcome(r)' = Outcome(r)
     \/ /\ Outcome(r) = "running"
        /\ Outcome(r)' \in {"ok", "failed", "client_abort", "dropped"}
        /\ Outcome(r)' = "ok" => r \in committed
        /\ Outcome(r)' = "client_abort" => r \notin committed

LEMMA TellsStep ==
  ASSUME Inv, NEW r \in Requests, StepOf(r)
  PROVE  Tells(r)
<1>a. TypeOK /\ Place(r) /\ Drain(r) /\ Sent(r)
  BY DEF Inv, Handlers
<1>b. UNCHANGED <<req, object, committed>>
  BY DEF StepOf, Receive, Exists, StoreReads, StoreAborts, StoreOk, StoreErr, DrainEnds,
         DrainTimesOut, Probe, Retrieve, ClientSends, ClientLeaves
<1>c. ASSUME NEW q \in Requests \ {r} PROVE Outcome(q)' = Outcome(q)
  <2>1. Kept(q)
    BY <1>a, OthersKept
  <2> QED
    BY <1>b, <2>1 DEF Outcome, Kept
<1>d. DOMAIN Returned = {"Ok", "Forbidden", "ClientAbort"}
  BY DEF Returned
<1>e. /\ Returned["Ok"] = "ok" /\ Returned["Forbidden"] = "failed"
      /\ Returned["ClientAbort"] = "client_abort"
  BY DEF Returned
<1> HIDE DEF Returned
<1>1. CASE Receive(r)
  <2>1. /\ pc[r] = "received" /\ pc'[r] # "dropped"
        /\ verdict'[r] \in {"Unauthorized", "Forbidden", "MethodNotAllowed", "BadRequest", "none"}
    BY <1>a, <1>1 DEF Receive, Handle, Go, Answer, DrainThen, TypeOK, Place
  <2>2. Outcome(r) = "running"
    BY <1>a, <1>d, <2>1 DEF Place, Outcome
  <2> QED
    BY <1>b, <1>c, <1>d, <1>e, <2>1, <2>2 DEF Tells, Outcome
<1>2. CASE Exists(r)
  <2>1. pc[r] = "exists" /\ pc'[r] # "dropped" /\ verdict'[r] \in {"Conflict", "none"}
    BY <1>a, <1>2 DEF Exists, Go, DrainThen, TypeOK, Place
  <2>2. Outcome(r) = "running"
    BY <1>a, <1>d, <2>1 DEF Place, Outcome
  <2> QED
    BY <1>b, <1>c, <1>d, <1>e, <2>1, <2>2 DEF Tells, Outcome
<1>3. CASE StoreReads(r)
  <2>1. verdict'[r] = verdict[r] /\ (pc'[r] = "dropped" <=> pc[r] = "dropped")
    BY <1>a, <1>3 DEF StoreReads, TypeOK
  <2>2. Outcome(r)' = Outcome(r)
    BY <1>b, <2>1 DEF Outcome
  <2> QED
    BY <1>b, <1>c, <2>2 DEF Tells
<1>4. CASE StoreAborts(r)
  <2>1. /\ pc[r] = "storing" /\ pc'[r] # "dropped"
        /\ verdict'[r] = "ClientAbort" /\ ~consumed[r]
    BY <1>a, <1>4 DEF StoreAborts, Answer, TypeOK, Place
  <2>2. Outcome(r) = "running"
    BY <1>a, <1>d, <2>1 DEF Place, Outcome
  <2>3. r \notin committed
    BY <1>a, <2>1 DEF Sent, InS3
  <2> QED
    BY <1>b, <1>c, <1>d, <1>e, <2>1, <2>2, <2>3 DEF Tells, Outcome
<1>5. CASE StoreOk(r)
  <2>1. /\ pc[r] = "storing" /\ pc'[r] # "dropped"
        /\ verdict'[r] = "Ok" /\ consumed[r] /\ ~writing[r]
    BY <1>a, <1>5 DEF StoreOk, Answer, TypeOK, Place
  <2>2. Outcome(r) = "running"
    BY <1>a, <1>d, <2>1 DEF Place, Outcome
  <2>3. r \in committed
    BY <1>a, <2>1 DEF Place, InS3
  <2> QED
    BY <1>b, <1>c, <1>d, <1>e, <2>1, <2>2, <2>3 DEF Tells, Outcome
<1>6. CASE StoreErr(r)
  <2>1. pc[r] = "storing" /\ pc'[r] # "dropped" /\ verdict'[r] = "Forbidden"
    BY <1>a, <1>6 DEF StoreErr, DrainThen, TypeOK, Place
  <2>2. Outcome(r) = "running"
    BY <1>a, <1>d, <2>1 DEF Place, Outcome
  <2> QED
    BY <1>b, <1>c, <1>d, <1>e, <2>1, <2>2 DEF Tells, Outcome
<1>7. CASE DrainEnds(r)
  <2>1. verdict'[r] = verdict[r] /\ (pc'[r] = "dropped" <=> pc[r] = "dropped")
    BY <1>a, <1>7 DEF DrainEnds, Answer, TypeOK
  <2>2. Outcome(r)' = Outcome(r)
    BY <1>b, <2>1 DEF Outcome
  <2> QED
    BY <1>b, <1>c, <2>2 DEF Tells
<1>8. CASE DrainTimesOut(r)
  <2>1. verdict'[r] = verdict[r] /\ (pc'[r] = "dropped" <=> pc[r] = "dropped")
    BY <1>a, <1>8 DEF DrainTimesOut, Answer, TypeOK
  <2>2. Outcome(r)' = Outcome(r)
    BY <1>b, <2>1 DEF Outcome
  <2> QED
    BY <1>b, <1>c, <2>2 DEF Tells
<1>9. CASE Probe(r)
  <2>1. pc[r] = "probing" /\ pc'[r] # "dropped" /\ verdict'[r] \in {"NotFound", "none"}
    BY <1>a, <1>9 DEF Probe, Go, Answer, TypeOK, Place
  <2>2. Outcome(r) = "running"
    BY <1>a, <1>d, <2>1 DEF Place, Outcome
  <2> QED
    BY <1>b, <1>c, <1>d, <1>e, <2>1, <2>2 DEF Tells, Outcome
<1>10. CASE Retrieve(r)
  <2>1. /\ pc[r] = "retrieving" /\ pc'[r] # "dropped"
        /\ verdict'[r] \in {"Ok", "NotFound"}
    BY <1>a, <1>10 DEF Retrieve, Answer, Miss, TypeOK, Place
  <2>2. Outcome(r) = "running"
    BY <1>a, <1>d, <2>1 DEF Place, Outcome
  <2>3. ~Uploads(req[r])
    BY <1>a, <2>1 DEF Place, IsRead, Uploads
  <2> QED
    BY <1>b, <1>c, <1>d, <1>e, <2>1, <2>2, <2>3 DEF Tells, Outcome
<1>11. CASE ClientSends(r)
  <2>1. verdict'[r] = verdict[r] /\ (pc'[r] = "dropped" <=> pc[r] = "dropped")
    BY <1>a, <1>11 DEF ClientSends, TypeOK
  <2>2. Outcome(r)' = Outcome(r)
    BY <1>b, <2>1 DEF Outcome
  <2> QED
    BY <1>b, <1>c, <2>2 DEF Tells
<1>12. CASE ClientLeaves(r)
  <2>1. /\ pc[r] \in Waits /\ pc'[r] = "dropped"
        /\ verdict'[r] = verdict[r]
    BY <1>a, <1>12 DEF ClientLeaves, TypeOK, Place
  <2>2. pc[r] # "dropped"
    BY <2>1 DEF Waits
  <2> QED
    BY <1>b, <1>c, <1>d, <1>e, <2>1, <2>2 DEF Tells, Outcome
<1> QED
  BY <1>1, <1>2, <1>3, <1>4, <1>5, <1>6, <1>7, <1>8, <1>9, <1>10, <1>11, <1>12 DEF StepOf

(* Seen at one key, every step is a step of the contract, or none.         *)
LEMMA ContractStep ==
  ASSUME Inv, [Next]_vars, NEW key \in Keys
  PROVE  UNCHANGED Contract(key)!storeVars \/ Contract(key)!StoreNext
<1> DEFINE known == [q \in Requests |-> IF Key(q) = key THEN Outcome(q) ELSE "running"]
           here  == {q \in committed : Key(q) = key}
<1>1. ASSUME NEW r \in Requests, Tells(r)
      PROVE  UNCHANGED Contract(key)!storeVars \/ Contract(key)!StoreNext
  <2>1. \A q \in Requests : Key(q)' = Key(q)
    BY <1>1 DEF Tells, Key
  <2>2. here' = here /\ object'[key] = object[key]
    <3>1. committed' = committed /\ object' = object /\ committed \subseteq Requests
      BY <1>1 DEF Tells, Inv, TypeOK
    <3> QED
      BY <2>1, <3>1
  <2>3. CASE Key(r) # key \/ Outcome(r)' = Outcome(r)
    <3>1. known' = known
      BY <1>1, <2>1, <2>3 DEF Tells
    <3> QED
      BY <2>2, <3>1 DEF Contract!storeVars
  <2>4. CASE Key(r) = key /\ Outcome(r)' # Outcome(r)
    <3>1. /\ known[r] = "running" /\ Outcome(r)' \in Contract(key)!Results
          /\ known' = [known EXCEPT ![r] = Outcome(r)']
      BY <1>1, <2>1, <2>4 DEF Tells, Contract!Results
    <3>2. /\ Outcome(r)' = "ok" => r \in here
          /\ Outcome(r)' = "client_abort" => r \notin here
      BY <1>1, <2>4 DEF Tells
    <3> DEFINE told == Outcome(r)'
    <3> HIDE DEF told
    <3>3. Contract(key)!Return(r, told)
      BY <2>2, <3>1, <3>2 DEF Contract!Return, told
    <3> QED
      BY <3>1, <3>3 DEF Contract!StoreNext, told
  <2> QED
    BY <2>3, <2>4
<1>2. ASSUME NEW r \in Requests, Commit(r)
      PROVE  UNCHANGED Contract(key)!storeVars \/ Contract(key)!StoreNext
  <2>1. /\ TypeOK /\ writing[r] /\ Accepted(r) /\ verdict[r] # "ClientAbort"
    BY <1>2 DEF Commit, Inv, Handlers, Sent, Told, InS3
  <2>2. Key(r) \in Keys
    BY <2>1, KeyOf DEF Accepted, Named
  <2>3. /\ UNCHANGED <<req, pc, verdict>> /\ committed' = committed \cup {r}
        /\ object' = [object EXCEPT ![Key(r)] = r]
    BY <1>2 DEF Commit
  <2>4. \A q \in Requests : Key(q)' = Key(q) /\ Outcome(q)' = Outcome(q)
    BY <2>3 DEF Key, Outcome
  <2>5. known' = known
    BY <2>4
  <2>6. CASE Key(r) = key
    <3>1. here' = here \cup {r} /\ object'[key] = r
      BY <2>1, <2>2, <2>3, <2>4, <2>6 DEF TypeOK
    <3>2. known[r] # "client_abort"
      BY <2>1 DEF Outcome, Returned
    <3>3. Contract(key)!Commit(r)
      BY <2>5, <3>1, <3>2 DEF Contract!Commit
    <3> QED
      BY <3>3 DEF Contract!StoreNext
  <2>7. CASE Key(r) # key
    <3>1. here' = here /\ object'[key] = object[key]
      BY <2>1, <2>3, <2>4, <2>7 DEF TypeOK
    <3> QED
      BY <2>5, <3>1 DEF Contract!storeVars
  <2> QED
    BY <2>6, <2>7
<1>3. CASE UNCHANGED vars
  <2>1. \A q \in Requests : Key(q)' = Key(q) /\ Outcome(q)' = Outcome(q)
    BY <1>3 DEF vars, Key, Outcome
  <2>2. known' = known /\ object' = object
    BY <1>3, <2>1 DEF vars
  <2>3. here' = here
    BY <1>3, <2>1 DEF vars, Inv, TypeOK
  <2> QED
    BY <2>2, <2>3 DEF Contract!storeVars
<1>4. CASE Next
  <2>1. PICK r \in Requests : Tells(r) \/ Commit(r)
    BY <1>4, TellsStep DEF Next, StepOf
  <2> QED
    BY <1>1, <1>2, <2>1
<1> QED
  BY <1>3, <1>4

(* Under every key of every set of paths, the PUTs over HTTP are calls of  *)
(* `store` that keep its contract: whole bodies, true answers, nothing     *)
(* written for a client that broke off.                                    *)
THEOREM ContractIsKept == Spec => KeysKeepContract
<1>1. ASSUME Init, NEW key \in Keys PROVE Contract(key)!StoreInit
  <2>1. object[key] = Nothing /\ committed = {}
    BY <1>1 DEF Init
  <2>2. \A r \in Requests : Outcome(r) = "running"
    BY <1>1 DEF Init, Outcome, Returned
  <2> QED
    BY <2>1, <2>2 DEF Contract!StoreInit
<1>2. Init => \A key \in Keys : Contract(key)!StoreInit
  BY <1>1
<1>3. Inv /\ [Next]_vars =>
        [\A key \in Keys : UNCHANGED Contract(key)!storeVars \/ Contract(key)!StoreNext]_vars
  BY ContractStep
<1> QED
  BY <1>2, <1>3, InvInit, InvStep, PTL DEF Spec, KeysKeepContract
=============================================================================
