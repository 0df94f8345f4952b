---------------------------- MODULE MCProbeCache ----------------------------
(* ProbeCache on small instances. *)
EXTENDS ProbeCache, TLC

(* Requests are interchangeable, and so are hashes. Only for the runs      *)
(* without a liveness property.                                            *)
Interchangeable == Permutations(Requests) \cup Permutations(Hashes)
=============================================================================
