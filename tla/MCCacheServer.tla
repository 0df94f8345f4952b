--------------------------- MODULE MCCacheServer ----------------------------
(* CacheServer on small instances. *)
EXTENDS CacheServer
=============================================================================
