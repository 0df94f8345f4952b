----------------------------- MODULE MCS3Store ------------------------------
(* S3Store on small instances. *)
EXTENDS S3Store
=============================================================================
