--------------------------- MODULE ArtifactStore ----------------------------
(***************************************************************************)
(* What StorageProvider::store promises for one key (src/domain/storage.rs *)
(* and the comments of its S3 implementation): the key holds nothing or    *)
(* the whole body of one caller; Ok is returned only for a body that was   *)
(* put there; a body whose client went away is never put there. A call     *)
(* that returned an error, or whose caller was dropped, may still take     *)
(* effect later.                                                           *)
(***************************************************************************)
CONSTANTS
  Writers,   \* the calls of `store` for this key
  Nothing    \* the key holds no object: no member of Writers

VARIABLES
  content,    \* whose body the key holds
  committed,  \* the calls whose body was put there at least once
  status      \* what each caller knows

storeVars == <<content, committed, status>>

Results == {"ok", "failed", "client_abort", "dropped"}

StoreInit ==
  /\ content = Nothing
  /\ committed = {}
  /\ status = [w \in Writers |-> "running"]

(* The body becomes the object, all of it at once. *)
Commit(w) ==
  /\ status[w] # "client_abort"
  /\ content' = w
  /\ committed' = committed \cup {w}
  /\ UNCHANGED status

Return(w, result) ==
  /\ status[w] = "running"
  /\ result = "ok" => w \in committed
  /\ result = "client_abort" => w \notin committed
  /\ status' = [status EXCEPT ![w] = result]
  /\ UNCHANGED <<content, committed>>

StoreNext ==
  \E w \in Writers : Commit(w) \/ \E result \in Results : Return(w, result)

StoreSpec == StoreInit /\ [][StoreNext]_storeVars
=============================================================================
