--------------------------- MODULE StartupProofs ----------------------------
(***************************************************************************)
(* Proofs about Startup, for every set of configurations a task may be     *)
(* deployed with and any number of outages and restarts.                   *)
(***************************************************************************)
EXTENDS Startup, TLAPS

-----------------------------------------------------------------------------
(* The inductive invariant: how far the boot got tells what it has passed, *)
(* since a restart forgets all of it, and an exit what it has not.         *)
Passed ==
  /\ phase \notin {"start", "exited"} => ServerValid(config.server)
  /\ phase \in {"storage_valid", "region", "storage", "binding", "serving"} =>
       StorageValid(config.storage) /\ found
  /\ phase \in {"storage", "binding", "serving"} => tried \in {"ok", "failed"}

Inv == TypeOK /\ Passed /\ ExitsHaveCause

LEMMA InvInit == Init => Inv
BY DEF Init, Inv, TypeOK, Passed, ExitsHaveCause

(* Where a test of the boot leads.                                         *)
LEMMA Continued ==
  ASSUME NEW ok \in BOOLEAN, NEW place, Continue(ok, place)
  PROVE  (ok /\ phase' = place) \/ (~ok /\ phase' = "exited")
BY DEF Continue

(* Each step of the boot adds its test to what was passed, or exits for    *)
(* the reason it found.                                                    *)
LEMMA InvStep == Inv /\ [Next]_vars => Inv'
<1> SUFFICES ASSUME Inv, [Next]_vars PROVE Inv'
  OBVIOUS
<1> USE DEF bootVars, probeVars, Inv, TypeOK, Passed, ExitsHaveCause
<1>1. CASE ValidateServer
  <2>1. ServerValid(config.server) \in BOOLEAN
    BY DEF ServerValid
  <2>2. \/ ServerValid(config.server) /\ phase' = "server_valid"
        \/ ~ServerValid(config.server) /\ phase' = "exited"
    BY <1>1, <2>1, Continued DEF ValidateServer
  <2> QED
    BY <1>1, <2>2 DEF ValidateServer
<1>2. CASE ValidateStorage
  <2>1. /\ found' \in BOOLEAN
        /\ StorageValid(config.storage) /\ config.storage.region => found'
    BY <1>2 DEF ValidateStorage, Region
  <2>2. StorageValid(config.storage) \in BOOLEAN
    BY DEF StorageValid
  <2>3. \/ StorageValid(config.storage) /\ found' /\ phase' = "storage_valid"
        \/ ~(StorageValid(config.storage) /\ found') /\ phase' = "exited"
    BY <1>2, <2>1, <2>2 DEF ValidateStorage, Continue
  <2> QED
    BY <1>2, <2>1, <2>3 DEF ValidateStorage
<1>3. CASE ResolveRegion
  <2>1. found' \in BOOLEAN /\ (config.storage.region => found')
    BY <1>3 DEF ResolveRegion, Region
  <2>2. (found' /\ phase' = "region") \/ (~found' /\ phase' = "exited")
    BY <1>3, <2>1, Continued DEF ResolveRegion
  <2> QED
    BY <1>3, <2>1, <2>2 DEF ResolveRegion
<1>4. CASE StartupProbe
  <2>1. tried' \in {"ok", "refused", "failed"} /\ probeKey' \in BOOLEAN
    BY <1>4 DEF StartupProbe, Credentials
  <2>2. \/ tried' # "refused" /\ phase' = "storage"
        \/ tried' = "refused" /\ phase' = "exited"
    BY <1>4 DEF StartupProbe, Continue, Stops
  <2> QED
    BY <1>4, <2>1, <2>2 DEF StartupProbe
<1>5. CASE RunServer
  BY <1>5 DEF RunServer
<1>6. CASE Bind
  <2>1. bound' \in BOOLEAN /\ selfProbe' \in {"off", "waiting", "checking"}
    BY <1>6 DEF Bind
  <2>2. (bound' /\ phase' = "serving") \/ (~bound' /\ phase' = "exited")
    BY <1>6, <2>1, Continued DEF Bind
  <2> QED
    BY <1>6, <2>1, <2>2 DEF Bind
<1>7. CASE SelfProbeTick
  BY <1>7 DEF SelfProbeTick
<1>8. CASE SelfProbeOnce
  BY <1>8 DEF SelfProbeOnce, AfterProbe
<1>9. CASE S3Changes
  BY <1>9 DEF S3Changes
<1>10. CASE Restart
  BY <1>10 DEF Restart
<1>11. CASE UNCHANGED vars
  BY <1>11 DEF vars
<1> QED
  BY <1>1, <1>2, <1>3, <1>4, <1>5, <1>6, <1>7, <1>8, <1>9, <1>10, <1>11 DEF Next

-----------------------------------------------------------------------------
(* The theorems. *)

(* The invariant holds in every reachable state.                           *)
THEOREM Invariance == Spec => []Inv
BY InvInit, InvStep, PTL DEF Spec

(* `main` is always in one of its phases; none is left by an error that    *)
(* neither goes on nor exits.                                              *)
THEOREM TypeCorrect == Spec => []TypeOK
<1>1. Inv => TypeOK
  BY DEF Inv
<1> QED
  BY <1>1, Invariance, PTL

(* Through any number of restarts, outages and changes of the bucket's     *)
(* policy, a task serves only after its own boot has found both tokens,    *)
(* the port, the bucket name, the endpoint, the key pair and the region to *)
(* be usable, and was not refused by the bucket.                           *)
THEOREM ServedWasPassed == Spec => []ServesOnlyWhatPassed
<1>1. Inv => ServesOnlyWhatPassed
  <2> SUFFICES ASSUME Inv, phase = "serving" PROVE ServesOnlyWhatPassed
    BY DEF ServesOnlyWhatPassed
  <2>1. /\ tried \in {"ok", "failed"} /\ found
        /\ ServerValid(config.server) /\ StorageValid(config.storage)
    BY DEF Inv, Passed
  <2>2. config.storage \in AwsStorageConfig
    BY ConfigsAssumption DEF Inv, TypeOK
  <2>3. /\ config.server.service_access_token # ""
        /\ config.server.read_only_access_token \notin {"", config.server.service_access_token}
        /\ config.server.port # 0
    BY <2>1, Zenon DEF ServerValid
  <2>4. /\ config.storage.bucket_name # ""
        /\ config.storage.endpoint_url # "other"
        /\ config.storage.access_key_id <=> config.storage.secret_access_key
    BY <2>1, <2>2 DEF StorageValid, AwsStorageConfig
  <2> QED
    BY <2>1, <2>3, <2>4 DEF ServesOnlyWhatPassed
<1> QED
  BY <1>1, Invariance, PTL

(* A boot ends only for a configuration that is not valid, a region that   *)
(* was not found, a definite refusal of the bucket or an address in use:   *)
(* never for an outage of S3.                                              *)
THEOREM ExitsAreCaused == Spec => []ExitsHaveCause
<1>1. Inv => ExitsHaveCause
  BY DEF Inv
<1> QED
  BY <1>1, Invariance, PTL
=============================================================================
