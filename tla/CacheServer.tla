---------------------------- MODULE CacheServer -----------------------------
(***************************************************************************)
(* The two handlers (src/server/handlers.rs) composed with the existence   *)
(* cache: every step of a handler is a step of ProbeCache, or leaves it    *)
(* alone, together with what the handler makes of it. S3 may fail any call *)
(* and a client may leave at any await. Tokens, keys and the upload itself *)
(* are RequestHandling's.                                                  *)
(***************************************************************************)
EXTENDS ProbeCache

CONSTANT Puts  \* the requests that are PUTs; the others are GETs

ASSUME PutsAssumption == Puts \subseteq Requests

VARIABLES
  stage,   \* where the handler of each request is
  status   \* the status it answered

(* Observers. *)
VARIABLES
  kept,    \* PUTs whose object has been in the bucket since they learnt of it
  due,     \* GETs received after such a PUT was answered
  faulty   \* GETs that had an S3 call of their own fail

handlerVars == <<stage, status>>
faultVars   == <<kept, due, faulty>>
serverVars  == <<vars, handlerVars, faultVars>>

GetStages == {"probing", "retrieving", "streaming"}
PutStages == {"checking", "conflict", "draining", "storing", "created", "declining"}

ServerTypeOK ==
  /\ stage  \in [Requests -> {"none", "answered", "broken", "gone"} \cup GetStages \cup PutStages]
  /\ status \in [Requests -> {0, 200, 400, 403, 404, 409}]
  /\ kept   \in SUBSET Requests
  /\ due    \in SUBSET Requests
  /\ faulty \in SUBSET Requests

ServerInit ==
  /\ Init
  /\ stage  = [r \in Requests |-> "none"]
  /\ status = [r \in Requests |-> 0]
  /\ kept = {} /\ due = {} /\ faulty = {}

Go(r, place) ==
  /\ stage' = [stage EXCEPT ![r] = place]
  /\ UNCHANGED status

Reply(r, code, place) ==
  /\ stage' = [stage EXCEPT ![r] = place]
  /\ status' = [status EXCEPT ![r] = code]

-----------------------------------------------------------------------------
(* retrieve_artifact *)

Get(r) ==
  /\ r \notin Puts
  /\ stage[r] = "none"
  /\ Slot(r)
  /\ Go(r, "probing")
  /\ due' = IF \E p \in kept : hash[p] = hash[r] /\ stage[p] = "answered"
            THEN due \cup {r} ELSE due
  /\ UNCHANGED <<kept, faulty>>

(* What `present` returned, with unwrap_or(false) applied to it.           *)
Resolve(r, outcome) ==
  IF outcome = "present" THEN Go(r, "retrieving") ELSE Reply(r, 404, "answered")

GetAnswered(r) ==
  /\ \/ ReadCell(r) /\ Resolve(r, present[at[r]])
     \/ ProbeOk(r) /\ Resolve(r, reply[r])
  /\ UNCHANGED faultVars

GetProbeFails(r) ==
  /\ ProbeErr(r)
  /\ Resolve(r, "error")
  /\ faulty' = faulty \cup {r}
  /\ UNCHANGED <<kept, due>>

(* `retrieve`: GetObject finds the object and its body is streamed; it is  *)
(* gone by now; or the call fails, which is a miss too.                    *)
Retrieve(r) ==
  /\ stage[r] = "retrieving"
  /\ \/ stored[hash[r]] /\ Reply(r, 200, "streaming") /\ UNCHANGED faulty
     \/ ~stored[hash[r]] /\ Reply(r, 404, "answered") /\ UNCHANGED faulty
     \/ Reply(r, 404, "answered") /\ faulty' = faulty \cup {r}
  /\ UNCHANGED <<vars, kept, due>>

(* The body ends, or breaks off after the 200 was sent.                    *)
Stream(r) ==
  /\ stage[r] = "streaming"
  /\ \/ Go(r, "answered") /\ UNCHANGED faulty
     \/ Go(r, "broken") /\ faulty' = faulty \cup {r}
  /\ UNCHANGED <<vars, kept, due>>

-----------------------------------------------------------------------------
(* store_artifact *)

PutReceived(r) ==
  /\ r \in Puts
  /\ stage[r] = "none"
  /\ Go(r, "checking")
  /\ UNCHANGED <<vars, faultVars>>

(* S3 says yes to `exists`. When the reply is here: mark_present, drain,   *)
(* 409.                                                                    *)
ExistsYes(r) ==
  /\ stage[r] = "checking"
  /\ stored[hash[r]]
  /\ PutSettled(r)
  /\ Go(r, "conflict")
  /\ kept' = kept \cup {r}
  /\ UNCHANGED <<due, faulty>>

(* It says no, or fails: unwrap_or(false).                                 *)
ExistsNo(r) ==
  /\ stage[r] = "checking"
  /\ Go(r, "storing")
  /\ UNCHANGED <<vars, faultVars>>

(* Mutant: only a write of its own marks the key.                          *)
ConflictUnmarked(r) ==
  /\ stage[r] = "conflict"
  /\ Go(r, "draining")
  /\ UNCHANGED <<vars, faultVars>>

Conflict(r) ==
  /\ stage[r] = "conflict"
  /\ MarkPresent(r)
  /\ Go(r, "draining")
  /\ UNCHANGED faultVars

(* The rest of the upload was read, or the drain gave up.                  *)
Drained(r) ==
  /\ \/ stage[r] = "draining" /\ Reply(r, 409, "answered")
     \/ stage[r] = "declining" /\ Reply(r, 403, "answered")
  /\ UNCHANGED <<vars, faultVars>>

(* S3 executes the write; its reply, which ends `store`, is on its way.    *)
Stored(r) ==
  /\ stage[r] = "storing"
  /\ PutSettled(r)
  /\ Go(r, "created")
  /\ kept' = kept \cup {r}
  /\ UNCHANGED <<due, faulty>>

Created(r) ==
  /\ stage[r] = "created"
  /\ MarkPresent(r)
  /\ Reply(r, 200, "answered")
  /\ UNCHANGED faultVars

(* Mutant: the error of `store` is passed on with `?`.                     *)
StoreFailsLoudly(r) ==
  /\ stage[r] = "storing"
  /\ Reply(r, 500, "answered")
  /\ UNCHANGED <<vars, faultVars>>

(* `store` fails: ClientAbort is answered at once; otherwise S3 may        *)
(* execute the write all the same (UnseenPut), and the rest of the upload  *)
(* is read before the 403.                                                 *)
StoreFails(r) ==
  /\ stage[r] = "storing"
  /\ \/ Reply(r, 400, "answered")
     \/ Go(r, "declining")
  /\ UNCHANGED <<vars, faultVars>>

-----------------------------------------------------------------------------
(* The client leaves and the handler is dropped at the await it is in.     *)
Dropped(r) ==
  /\ \/ stage[r] = "probing" /\ Cancel(r)
     \/ stage[r] \in {"retrieving", "streaming"} \cup PutStages /\ UNCHANGED vars
  /\ Go(r, "gone")
  /\ UNCHANGED faultVars

(* Steps of the cache's inside and of the world, which no handler sees.    *)
Unseen ==
  /\ \/ \E r \in Requests : Enqueue(r) \/ Acquire(r) \/ Granted(r) \/ HeadObject(r)
     \/ \E h \in Hashes : UnseenPut(h)
     \/ Tick
  /\ UNCHANGED <<handlerVars, faultVars>>

Deleted(h) ==
  /\ Expire(h)
  /\ kept' = {r \in kept : hash[r] # h}
  /\ due' = {r \in due : hash[r] # h}
  /\ UNCHANGED <<handlerVars, faulty>>

ServerNext ==
  \/ \E r \in Requests :
       \/ Get(r) \/ GetAnswered(r) \/ GetProbeFails(r) \/ Retrieve(r) \/ Stream(r)
       \/ PutReceived(r) \/ ExistsYes(r) \/ ExistsNo(r) \/ Conflict(r) \/ Drained(r)
       \/ Stored(r) \/ Created(r) \/ StoreFails(r)
       \/ Dropped(r)
  \/ Unseen
  \/ \E h \in Hashes : Deleted(h)

(* The runtime polls every handler that can move, and the SDK ends every   *)
(* call. Nothing makes a body come to its end, and clients owe nothing.    *)
ServerFairness ==
  \A r \in Requests :
    /\ WF_serverVars(GetAnswered(r) \/ GetProbeFails(r))
    /\ WF_serverVars((Enqueue(r) \/ Acquire(r) \/ Granted(r)) /\ UNCHANGED <<handlerVars, faultVars>>)
    /\ WF_serverVars(Retrieve(r))

ServerSpec == ServerInit /\ [][ServerNext]_serverVars /\ ServerFairness

-----------------------------------------------------------------------------
(* Properties. *)

(* Read-after-write over HTTP: once a PUT here was answered 200 or 409, a   *)
(* GET received later is answered 404 only if an S3 call of its own failed, *)
(* as long as the object stays in the bucket; no cached or late "absent"   *)
(* from before the write reaches it.                                       *)
ReadAfterWrite ==
  \A r \in due : status[r] = 404 => r \in faulty

(* "A failed cache read is a cache miss" for its own caller alone: whoever *)
(* else's probe, GetObject or stream failed or was dropped on the same     *)
(* slot, a GET without a failed call of its own misses a stored object     *)
(* only within the stale-404 window.                                       *)
FailuresStayPrivate ==
  \A r \in Requests \ faulty :
    status[r] = 404 /\ stored[hash[r]]
    => entered[r] <= storedAt[hash[r]] + Larger(NEGATIVE_TTL, ATTEMPT_TIMEOUT)

(* A GET gets its status, or its client left, although it may wait for the *)
(* probe of another GET that fails or is dropped.                          *)
GetsAreAnswered ==
  \A r \in Requests :
    stage[r] \in {"probing", "retrieving"} ~> stage[r] \in {"streaming", "answered", "broken", "gone"}
=============================================================================
