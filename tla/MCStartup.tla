----------------------------- MODULE MCStartup ------------------------------
(* Startup with every configuration. *)
EXTENDS Startup

AllConfigs ==
  [server : {c \in ServerConfig : c.service_access_token # "b"}, storage : AwsStorageConfig]
=============================================================================
