-------------------------- MODULE RequestHandling ---------------------------
(***************************************************************************)
(* How a request is answered: the auth middleware, the two handlers, the   *)
(* drain of an upload that is refused and the mapping of errors to         *)
(* statuses (src/server/{mod,middleware,handlers,error}.rs), for requests  *)
(* that race on the keys their paths decode to. Storage is seen through    *)
(* the StorageProvider trait; the answer of the probe cache, which         *)
(* ProbeCache models, is any of its three outcomes.                        *)
(***************************************************************************)
EXTENDS HashValidation

CONSTANTS
  Requests,  \* the requests
  Paths,     \* the path segments that requests name
  Kinds,     \* what a request may be: [method, token, path]
  Nothing    \* a key holds no object

(* The route matches no empty segment.                                     *)
ASSUME PathsAssumption == Paths \subseteq Seq(Raw) \ {<<>>}

ASSUME KindsAssumption ==
  Kinds \subseteq [method : {"GET", "HEAD", "PUT", "POST"},
                   token : {"rw", "ro", "none"},
                   path : Paths]

ASSUME NothingAssumption == Nothing \notin Requests

VARIABLES
  req,        \* what each request asks for, and with which token
  pc,         \* where its handler is
  verdict,    \* what the handler has decided to answer
  status,     \* the status answered
  body,       \* the client's side of the upload
  consumed,   \* has the server read the upload to its end, or to an error
  writing,    \* S3 may still execute the write that commits the body
  object,     \* whose body each key holds
  committed,  \* observer: the requests whose body their key held
  gaveUp      \* observer: the requests whose drain ran into DRAIN_TIMEOUT

storageVars  == <<writing, object, committed>>
vars == <<req, pc, verdict, status, body, consumed, storageVars, gaveUp>>

ServerErrors == {"BadRequest", "Unauthorized", "Forbidden", "InternalError",
                 "NotFound", "AlreadyExists", "OperationFailed", "ClientAbort"}
Verdicts == ServerErrors \cup {"Ok", "Conflict", "MethodNotAllowed", "none"}
Waits == {"exists", "storing", "draining", "probing", "retrieving"}

Uploads(kind) == kind.method \in {"PUT", "POST"}
Key(r)        == Decode(req[r].path)
Keys          == {Decode(path) : path \in {p \in Paths : Decodable(p)}}

TypeOK ==
  /\ req \in [Requests -> Kinds]
  /\ pc \in [Requests -> {"received", "answered", "dropped"} \cup Waits]
  /\ verdict \in [Requests -> Verdicts]
  /\ status \in [Requests -> {0, 200, 400, 401, 403, 404, 405, 409, 500}]
  /\ body \in [Requests -> {"none", "sending", "sent", "broken"}]
  /\ consumed \in [Requests -> BOOLEAN]
  /\ writing \in [Requests -> BOOLEAN]
  /\ object \in [Keys -> Requests \cup {Nothing}]
  /\ committed \subseteq Requests
  /\ gaveUp \subseteq Requests

Init ==
  /\ req \in [Requests -> Kinds]
  /\ pc = [r \in Requests |-> "received"]
  /\ verdict = [r \in Requests |-> "none"]
  /\ status = [r \in Requests |-> 0]
  /\ body = [r \in Requests |-> IF Uploads(req[r]) THEN "sending" ELSE "none"]
  /\ consumed = [r \in Requests |-> ~Uploads(req[r])]
  /\ writing = [r \in Requests |-> FALSE]
  /\ object = [key \in Keys |-> Nothing]
  /\ committed = {}
  /\ gaveUp = {}

-----------------------------------------------------------------------------
(* Mutant: a stored artifact is answered 202, as the OpenAPI document says. *)
StatusAccepted(v) == IF v = "Ok" THEN 202 ELSE 404

(* ServerError::into_response, and the statuses that are no ServerError.   *)
Status(v) ==
  CASE v = "Ok"               -> 200
    [] v = "Conflict"         -> 409
    [] v = "MethodNotAllowed" -> 405
    [] v = "NotFound"         -> 404
    [] v = "AlreadyExists"    -> 409
    [] v = "ClientAbort"      -> 400
    [] v = "BadRequest"       -> 400
    [] v = "Unauthorized"     -> 401
    [] v = "Forbidden"        -> 403
    [] OTHER                  -> 500

Go(r, place) ==
  /\ pc' = [pc EXCEPT ![r] = place]
  /\ UNCHANGED <<verdict, status>>

Answer(r, v) ==
  /\ verdict' = [verdict EXCEPT ![r] = v]
  /\ status' = [status EXCEPT ![r] = Status(v)]
  /\ pc' = [pc EXCEPT ![r] = "answered"]

(* drain_body, then the answer.                                            *)
DrainThen(r, v) ==
  /\ verdict' = [verdict EXCEPT ![r] = v]
  /\ pc' = [pc EXCEPT ![r] = "draining"]
  /\ UNCHANGED status

IsRead(kind) == kind.method \in {"GET", "HEAD"}

(* Mutant: any token will do.                                              *)
GateByToken(kind) == IF kind.token = "none" THEN "Unauthorized" ELSE "Ok"

(* auth_middleware: what it decides.                                       *)
Gate(kind) ==
  CASE kind.token = "none"                  -> "Unauthorized"
    [] kind.token = "ro" /\ ~IsRead(kind)   -> "Forbidden"
    [] kind.token = "rw" \/ (kind.token = "ro" /\ IsRead(kind)) -> "Ok"

(* The router, the Path extractor and the handler up to its first await.   *)
Handle(r) ==
  LET kind == req[r] IN
  IF kind.method = "POST" THEN Answer(r, "MethodNotAllowed")
  ELSE IF ~Decodable(kind.path) THEN Answer(r, "BadRequest")  \* PathRejection
  ELSE IF IsRead(kind)
       THEN IF Valid(Key(r)) THEN Go(r, "probing") ELSE Answer(r, "BadRequest")
       ELSE IF Valid(Key(r)) THEN Go(r, "exists") ELSE DrainThen(r, "BadRequest")

(* auth_middleware refuses, or lets the request through.                   *)
Receive(r) ==
  /\ pc[r] = "received"
  /\ \/ Gate(req[r]) = "Unauthorized" /\ Answer(r, "Unauthorized")
     \/ Gate(req[r]) = "Forbidden" /\ DrainThen(r, "Forbidden")
     \/ Gate(req[r]) = "Ok" /\ Handle(r)
  /\ UNCHANGED <<req, body, consumed, storageVars, gaveUp>>

(* store_artifact: `exists` says yes (mark_present, drain, 409), or it says *)
(* no or fails (store).                                                    *)
Exists(r) ==
  /\ pc[r] = "exists"
  /\ \/ object[Key(r)] # Nothing /\ DrainThen(r, "Conflict")
     \/ Go(r, "storing")
  /\ UNCHANGED <<req, body, consumed, storageVars, gaveUp>>

(* `store` reads the body to its end and only then sends what commits it.  *)
StoreReads(r) ==
  /\ pc[r] = "storing" /\ ~consumed[r]
  /\ body[r] = "sent"
  /\ consumed' = [consumed EXCEPT ![r] = TRUE]
  /\ writing' = [writing EXCEPT ![r] = TRUE]
  /\ UNCHANGED <<req, pc, verdict, status, body, object, committed, gaveUp>>

(* Mutant: what was read of a body that broke off is written all the same. *)
StoreAbortsAndWrites(r) ==
  /\ pc[r] = "storing" /\ ~consumed[r]
  /\ body[r] = "broken"
  /\ consumed' = [consumed EXCEPT ![r] = TRUE]
  /\ writing' = [writing EXCEPT ![r] = TRUE]
  /\ Answer(r, "ClientAbort")
  /\ UNCHANGED <<req, body, object, committed, gaveUp>>

(* `store` meets a read error: ClientAbort.                                *)
StoreAborts(r) ==
  /\ pc[r] = "storing" /\ ~consumed[r]
  /\ body[r] = "broken"
  /\ consumed' = [consumed EXCEPT ![r] = TRUE]
  /\ Answer(r, "ClientAbort")
  /\ UNCHANGED <<req, body, storageVars, gaveUp>>

(* S3 executes the write, perhaps after its caller gave up on it; a lost   *)
(* reply makes the SDK send it again.                                      *)
Commit(r) ==
  /\ writing[r]
  /\ object' = [object EXCEPT ![Key(r)] = r]
  /\ committed' = committed \cup {r}
  /\ \E lost \in BOOLEAN : writing' = [writing EXCEPT ![r] = lost]
  /\ UNCHANGED <<req, pc, verdict, status, body, consumed, gaveUp>>

(* Mutant: a write that timed out is taken for done. *)
StoreOkOnTimeout(r) ==
  /\ pc[r] = "storing"
  /\ consumed[r]
  /\ Answer(r, "Ok")
  /\ UNCHANGED <<req, body, consumed, storageVars, gaveUp>>

(* `store` returns Ok: mark_present and 200.                               *)
StoreOk(r) ==
  /\ pc[r] = "storing"
  /\ consumed[r] /\ ~writing[r]
  /\ Answer(r, "Ok")
  /\ UNCHANGED <<req, body, consumed, storageVars, gaveUp>>

(* Mutant: the error of `store` is passed on, and the rest left unread. *)
StoreErrUndrained(r) ==
  /\ pc[r] = "storing"
  /\ Answer(r, "Forbidden")
  /\ UNCHANGED <<req, body, consumed, storageVars, gaveUp>>

(* `store` returns OperationFailed, perhaps before it read the whole body: *)
(* the rest is read and the answer is 403.                                 *)
StoreErr(r) ==
  /\ pc[r] = "storing"
  /\ DrainThen(r, "Forbidden")
  /\ UNCHANGED <<req, body, consumed, storageVars, gaveUp>>

(* The drain ends with the body or with a read error ...                   *)
DrainEnds(r) ==
  /\ pc[r] = "draining"
  /\ consumed[r] \/ body[r] # "sending"
  /\ consumed' = [consumed EXCEPT ![r] = TRUE]
  /\ Answer(r, verdict[r])
  /\ UNCHANGED <<req, body, storageVars, gaveUp>>

(* Mutant: the drain has no limit (a timer that needs the client's next    *)
(* chunk to be looked at).                                                 *)
DrainNeverTimesOut(r) ==
  /\ pc[r] = "draining"
  /\ ~consumed[r] /\ body[r] # "sending"
  /\ gaveUp' = gaveUp \cup {r}
  /\ Answer(r, verdict[r])
  /\ UNCHANGED <<req, body, consumed, storageVars>>

(* ... or after DRAIN_TIMEOUT.                                             *)
DrainTimesOut(r) ==
  /\ pc[r] = "draining"
  /\ ~consumed[r] /\ body[r] = "sending"
  /\ gaveUp' = gaveUp \cup {r}
  /\ Answer(r, verdict[r])
  /\ UNCHANGED <<req, body, consumed, storageVars>>

(* retrieve_artifact: the probe says present, or absent, or fails.         *)
Probe(r) ==
  /\ pc[r] = "probing"
  /\ \/ Go(r, "retrieving")
     \/ Answer(r, "NotFound")
  /\ UNCHANGED <<req, body, consumed, storageVars, gaveUp>>

(* Mutant: the error of `retrieve` is passed on with `?`. *)
MissItself(error) == error

(* map_err: whatever the error of `retrieve`, the read is a miss.          *)
Miss(error) == "NotFound"

(* `retrieve` finds the object, or does not, or fails.                     *)
Retrieve(r) ==
  /\ pc[r] = "retrieving"
  /\ \/ object[Key(r)] # Nothing /\ Answer(r, "Ok")
     \/ \E error \in {"NotFound", "OperationFailed"} : Answer(r, Miss(error))
  /\ UNCHANGED <<req, body, consumed, storageVars, gaveUp>>

(* The client sends the rest of its body, or breaks off. Without a drain   *)
(* the answer closes the connection under a client that is still sending.  *)
ClientSends(r) ==
  /\ body[r] = "sending"
  /\ pc[r] # "answered"
  /\ \E b \in {"sent", "broken"} : body' = [body EXCEPT ![r] = b]
  /\ UNCHANGED <<req, pc, verdict, status, consumed, storageVars, gaveUp>>

(* The client disconnects after its body was read: the handler is dropped. *)
ClientLeaves(r) ==
  /\ pc[r] \in Waits
  /\ consumed[r]
  /\ pc' = [pc EXCEPT ![r] = "dropped"]
  /\ UNCHANGED <<req, verdict, status, body, consumed, storageVars, gaveUp>>

Next ==
  \E r \in Requests :
    \/ Receive(r) \/ Exists(r) \/ StoreReads(r) \/ StoreAborts(r) \/ Commit(r)
    \/ StoreOk(r) \/ StoreErr(r) \/ DrainEnds(r) \/ DrainTimesOut(r)
    \/ Probe(r) \/ Retrieve(r) \/ ClientSends(r) \/ ClientLeaves(r)

(* The runtime polls what can move, timers fire, and the SDK ends every    *)
(* call. A client need never send anything.                                *)
Fairness ==
  \A r \in Requests :
    /\ WF_vars(Receive(r) \/ Exists(r) \/ DrainEnds(r) \/ DrainTimesOut(r)
               \/ Probe(r) \/ Retrieve(r))
    /\ WF_vars(StoreReads(r))
    /\ WF_vars(StoreAborts(r))
    /\ WF_vars(consumed[r] /\ (StoreOk(r) \/ StoreErr(r)))

Spec == Init /\ [][Next]_vars /\ Fairness

-----------------------------------------------------------------------------
(* Properties. *)

Inert(key) == Bytes(key) \in 1..MAX_BYTES /\ \A i \in DOMAIN key : key[i] \notin {"dot", "slash"}

(* No answer closes the connection under an upload that the server knows   *)
(* how to read on, wherever on its way it was refused: a 200, 403, 409, or *)
(* 400 of a handler comes after the end of the body, or of the drain's     *)
(* patience. The path that is no UTF-8 is the exception (see               *)
(* EveryRefusalReads).                                                     *)
UploadReadBeforeAnswer ==
  \A r \in Requests :
    Uploads(req[r]) /\ Decodable(req[r].path) /\ status[r] \in {200, 400, 403, 409}
    => consumed[r] \/ r \in gaveUp

(* "Never a 5xx toward Nx": no storage failure on any path becomes one, a  *)
(* failed write included. Two comments say otherwise of the write (see     *)
(* FailedWriteIsServerError).                                              *)
NeverServerError == \A r \in Requests : status[r] < 500

(* However its path was encoded, no request makes an S3 call under a key   *)
(* that is empty, too long or has a `.` or `/` in it, which "keeps the     *)
(* probe key and anything with a `/` or `.` out of reach".                 *)
KeysAreInert ==
  \A r \in Requests :
    pc[r] \in {"exists", "storing", "probing", "retrieving"} \/ r \in committed
    => Inert(Key(r))

(* Only a body sent whole, by a PUT with the read-write token, ever        *)
(* becomes the object, also when S3 executes the write late.               *)
OnlyWholeAuthorisedBodies ==
  \A r \in committed :
    req[r].method = "PUT" /\ req[r].token = "rw" /\ body[r] = "sent"

(* What the statuses of a PUT tell the client is so: its artifact was      *)
(* stored (200), some artifact is stored (409), its own never is (400).    *)
PutStatusIsTrue ==
  \A r \in Requests :
    req[r].method = "PUT" =>
      /\ status[r] = 200 => r \in committed
      /\ status[r] = 409 => object[Key(r)] # Nothing
      /\ status[r] = 400 => r \notin committed

(* What a PUT told its client, in the words of StorageProvider::store.     *)
Returned   == [Ok |-> "ok", Forbidden |-> "failed", ClientAbort |-> "client_abort"]
Outcome(r) == IF Uploads(req[r]) /\ verdict[r] \in DOMAIN Returned THEN Returned[verdict[r]]
              ELSE IF pc[r] = "dropped" THEN "dropped" ELSE "running"

Contract(key) == INSTANCE ArtifactStore WITH
  Writers   <- Requests,
  content   <- object[key],
  committed <- {r \in committed : Key(r) = key},
  status    <- [r \in Requests |-> IF Key(r) = key THEN Outcome(r) ELSE "running"]

(* The HTTP interface passes the contract of `store` on: under every key,  *)
(* the PUTs whose paths decode to it, however they race, are refused or    *)
(* outlive their clients, do to its object and tell their clients only     *)
(* what ArtifactStore allows calls of `store` to do and to return.         *)
KeysKeepContract ==
  /\ \A key \in Keys : Contract(key)!StoreInit
  /\ [][\A key \in Keys : UNCHANGED Contract(key)!storeVars \/ Contract(key)!StoreNext]_vars

(* The drain bound is "the server's only request-side timeout": a request  *)
(* is answered, or its client left, or `store` is waiting for a client     *)
(* that does not go on with its upload.                                    *)
OnlyUploadsStall ==
  \A r \in Requests :
    <>(\/ pc[r] \in {"answered", "dropped"}
       \/ [](pc[r] = "storing" /\ body[r] = "sending"))

(* The README: "any response decided while the client is still uploading   *)
(* (400, 403, 409) first reads the request body to its end", and the test  *)
(* table: "every response the cache route can produce".                    *)
EveryRefusalReads ==
  \A r \in Requests :
    Uploads(req[r]) /\ status[r] \in {400, 403, 409} => consumed[r] \/ r \in gaveUp

(* The README: "Hash not [A-Za-z0-9_-]{1,128}" is answered 400, so no PUT  *)
(* with such a hash is answered 200.                                       *)
OnlyDocumentedHashes ==
  \A r \in Requests :
    req[r].method = "PUT" /\ status[r] = 200
    => \A i \in DOMAIN Key(r) : Key(r)[i] \in {"alnum", "dash"}

(* store_artifact: "a genuine 500 now means only one thing: the write      *)
(* itself failed"; its test: "Only a failed `store` is a real 500 now". Of *)
(* the PUTs that may write and were sent whole, those that were not stored *)
(* or already there failed to be written, and are answered 500.            *)
FailedWriteIsServerError ==
  \A r \in Requests :
    /\ req[r].method = "PUT" /\ Gate(req[r]) = "Ok"
    /\ Decodable(req[r].path) /\ Valid(Key(r))
    /\ body[r] = "sent" /\ pc[r] = "answered"
    => status[r] \in {200, 409, 500}
=============================================================================
