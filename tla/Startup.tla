------------------------------ MODULE Startup -------------------------------
(***************************************************************************)
(* The life of one server task: `main` (src/bin/aws.rs), the validation of *)
(* the two configurations (src/domain/config.rs, src/infra/aws.rs), the    *)
(* startup probe of S3Storage::new, `run_server` and its self-probe task   *)
(* (src/server/mod.rs), through S3 outages and restarts.                   *)
(***************************************************************************)
EXTENDS Naturals

(* The options of the command line, as far as anything depends on them.    *)
ServerConfig ==
  [service_access_token : {"", "a", "b"},
   read_only_access_token : {"none", "", "a", "b"},
   port : {0, 3000}]

AwsStorageConfig ==
  [bucket_name : {"", "bucket"},
   endpoint_url : {"none", "http", "other"},
   access_key_id : BOOLEAN, secret_access_key : BOOLEAN,  \* are they given
   region : BOOLEAN]                                      \* given, or to be discovered

CONSTANT Configs   \* the configurations the task may be deployed with

ASSUME ConfigsAssumption ==
  Configs \subseteq [server : ServerConfig, storage : AwsStorageConfig]

VARIABLES
  config,     \* the configuration of the task
  phase,      \* how far `main` has got
  tried,      \* how this boot's startup probe ended
  bound,      \* could this boot bind its address
  found,      \* did this boot's last region lookup find one
  selfProbe,  \* the spawned self-probe task
  reachable,  \* the last self-probe's `exists(PROBE_KEY)`
  s3,         \* what S3 does with our calls just now
  probeKey    \* S3: is there an object under PROBE_KEY

bootVars == <<phase, tried, bound, found>>
probeVars == <<selfProbe, reachable>>
vars == <<config, bootVars, probeVars, s3, probeKey>>

TypeOK ==
  /\ config \in Configs
  /\ phase \in {"start", "server_valid", "storage_valid", "region", "storage",
                "binding", "serving", "exited"}
  /\ tried \in {"no", "ok", "refused", "failed"}
  /\ bound \in BOOLEAN
  /\ found \in BOOLEAN
  /\ selfProbe \in {"off", "waiting", "checking"}
  /\ reachable \in {"none", "present", "absent", "error"}
  /\ s3 \in {"up", "refusing", "down"}
  /\ probeKey \in BOOLEAN

Init ==
  /\ config \in Configs
  /\ phase = "start"
  /\ tried = "no"
  /\ bound = TRUE
  /\ found = TRUE
  /\ selfProbe = "off"
  /\ reachable = "none"
  /\ s3 \in {"up", "refusing", "down"}
  /\ probeKey = FALSE

-----------------------------------------------------------------------------
(* ServerConfig::validate. *)
ServerValid(c) ==
  /\ c.service_access_token # ""
  /\ c.read_only_access_token # ""
  /\ c.read_only_access_token # c.service_access_token
  /\ c.port # 0

(* AwsStorageConfig::validate, all but the region. *)
StorageValid(c) ==
  /\ c.bucket_name # ""
  /\ c.endpoint_url \in {"none", "http"}
  /\ c.access_key_id = c.secret_access_key

(* Mutant: `main` returns the error instead of exiting. *)
ContinueWithError(ok, place) == phase' = IF ok THEN place ELSE "error"

Continue(ok, place) == phase' = IF ok THEN place ELSE "exited"

ValidateServer ==
  /\ phase = "start"
  /\ Continue(ServerValid(config.server), "server_valid")
  /\ UNCHANGED <<config, tried, bound, found, probeVars, s3, probeKey>>

(* A region that is given is found; discovery (environment, profile, IMDS) *)
(* may find one or not, each time it is asked.                             *)
Region == found' \in IF config.storage.region THEN {TRUE} ELSE BOOLEAN

ValidateStorage ==
  /\ phase = "server_valid"
  /\ IF StorageValid(config.storage) THEN Region ELSE UNCHANGED found
  /\ Continue(StorageValid(config.storage) /\ found', "storage_valid")
  /\ UNCHANGED <<config, tried, bound, probeVars, s3, probeKey>>

(* S3Storage::new asks for the region again. *)
ResolveRegion ==
  /\ phase = "storage_valid"
  /\ Region
  /\ Continue(found', "region")
  /\ UNCHANGED <<config, tried, bound, probeVars, s3, probeKey>>

(* Whether a call can be signed: with the static pair always, with what    *)
(* the default chain finds (environment, profile, role) perhaps.           *)
Credentials(c) == IF c.access_key_id /\ c.secret_access_key THEN {TRUE} ELSE BOOLEAN

(* Mutants: any failure of the startup probe stops the boot; none does.    *)
StopsOnAny(outcome) == outcome # "ok"
StopsNever(outcome) == FALSE

(* Only a definite refusal, a 4xx, stops the boot.                         *)
Stops(outcome) == outcome = "refused"

(* The startup probe: PutObject of PROBE_KEY. A call that fails without an *)
(* answer may have been executed; one that is not signed is not sent.      *)
StartupProbe ==
  /\ phase = "region"
  /\ \E signed \in Credentials(config.storage) :
       \/ signed /\ s3 = "up" /\ tried' = "ok" /\ probeKey' = TRUE
       \/ signed /\ s3 = "refusing" /\ tried' = "refused" /\ UNCHANGED probeKey
       \/ tried' = "failed" /\ probeKey' \in {probeKey, probeKey \/ (signed /\ s3 = "up")}
  /\ Continue(~Stops(tried'), "storage")
  /\ UNCHANGED <<config, bound, found, probeVars, s3>>

(* run_server spawns the self-probe, then binds. *)
RunServer ==
  /\ phase = "storage"
  /\ phase' = "binding"
  /\ selfProbe' = "waiting"
  /\ UNCHANGED <<config, tried, bound, found, reachable, s3, probeKey>>

(* When `main` returns, its tasks end with it. *)
Bind ==
  /\ phase = "binding"
  /\ bound' \in BOOLEAN
  /\ Continue(bound', "serving")
  /\ selfProbe' = IF bound' THEN selfProbe ELSE "off"
  /\ UNCHANGED <<config, tried, found, reachable, s3, probeKey>>

(* The interval ticks: one HeadObject of PROBE_KEY. *)
SelfProbeTick ==
  /\ selfProbe = "waiting"
  /\ selfProbe' = "checking"
  /\ UNCHANGED <<config, bootVars, reachable, s3, probeKey>>

(* Mutant: the outcome is unwrapped, and the task dies of an error. *)
AfterProbeUnwrapped(outcome) == IF outcome = "error" THEN "off" ELSE "waiting"

(* self_probe_once logs the outcome, whatever it is, and the loop goes on. *)
AfterProbe(outcome) == "waiting"

(* A bucket that refuses our writes may allow the HeadObject or refuse it. *)
SelfProbeOnce ==
  /\ selfProbe = "checking"
  /\ reachable' \in {"error"} \cup (IF s3 = "down" THEN {}
                                   ELSE {IF probeKey THEN "present" ELSE "absent"})
  /\ selfProbe' = AfterProbe(reachable')
  /\ UNCHANGED <<config, bootVars, s3, probeKey>>

(* S3, the network or the bucket policy changes. *)
S3Changes ==
  /\ s3' \in {"up", "refusing", "down"} \ {s3}
  /\ UNCHANGED <<config, bootVars, probeVars, probeKey>>

(* The task is killed or has exited, and the scheduler starts it again. *)
Restart ==
  /\ phase # "start"
  /\ phase' = "start"
  /\ tried' = "no"
  /\ bound' = TRUE
  /\ found' = TRUE
  /\ selfProbe' = "off"
  /\ reachable' = "none"
  /\ UNCHANGED <<config, s3, probeKey>>

Next ==
  \/ ValidateServer \/ ValidateStorage \/ ResolveRegion \/ StartupProbe
  \/ RunServer \/ Bind \/ SelfProbeTick \/ SelfProbeOnce
  \/ S3Changes \/ Restart

(* `main` goes on, the interval ticks and the SDK ends every HeadObject.   *)
Fairness ==
  /\ WF_vars(ValidateServer \/ ValidateStorage \/ ResolveRegion
             \/ StartupProbe \/ RunServer \/ Bind)
  /\ WF_vars(SelfProbeTick)
  /\ WF_vars(SelfProbeOnce)

Spec == Init /\ [][Next]_vars /\ Fairness

-----------------------------------------------------------------------------
(* Properties. *)

(* "Refuses to start on a bucket that rejects writes", and never serves    *)
(* with what the validators are there to keep out: an empty token, a       *)
(* read-only token that is empty or could write, port 0, no bucket, an     *)
(* endpoint that is no http(s) URL, half a key pair. Nor without a region, *)
(* though the one that validation found is looked up a second time.        *)
ServesOnlyWhatPassed ==
  phase = "serving" =>
    /\ tried \in {"ok", "failed"}
    /\ found
    /\ config.server.service_access_token # ""
    /\ config.server.read_only_access_token \notin {"", config.server.service_access_token}
    /\ config.server.port # 0
    /\ config.storage.bucket_name # ""
    /\ config.storage.endpoint_url # "other"
    /\ config.storage.access_key_id <=> config.storage.secret_access_key

(* A boot ends only for a reason the operator can mend: "refusing to start *)
(* then would turn an S3 blip ... into an ECS crash loop". A region that   *)
(* is configured is never such a reason.                                   *)
ExitsHaveCause ==
  phase = "exited" =>
    \/ ~ServerValid(config.server)
    \/ ~StorageValid(config.storage)
    \/ ~found /\ ~config.storage.region
    \/ tried = "refused"
    \/ ~bound

(* The self-probe of a task that goes on serving never stops, through any  *)
(* number of outages ("a panicking spawned task would silence it").        *)
SelfProbeGoesOn ==
  <>[](phase = "serving") => []<>(selfProbe = "waiting") /\ []<>(selfProbe = "checking")
=============================================================================
