------------------------- MODULE MCRequestHandling --------------------------
(* RequestHandling on small instances. *)
EXTENDS RequestHandling

A       == [char |-> "alnum", encoded |-> FALSE]
Enc(c)  == [char |-> c, encoded |-> TRUE]

(* The same key twice, a key with a dot and one that is no UTF-8; then the *)
(* edges of the length limit, in bytes and in characters, and the other    *)
(* ways to write what is not allowed.                                      *)
Plain  == {<<A>>, <<Enc("alnum")>>, <<Enc("dot")>>, <<Enc("notUtf8")>>}
Edges  == {<<Enc("letter")>>, <<A, A>>, <<A, A, A>>, <<A, Enc("letter")>>, <<A, Enc("slash")>>,
           <<[char |-> "dot", encoded |-> FALSE]>>, <<[char |-> "dash", encoded |-> FALSE]>>}
MCPaths == Plain \cup Edges

AllKinds ==
  [method : {"GET", "HEAD", "PUT", "POST"}, token : {"rw", "ro", "none"}, path : Plain]
  \cup [method : {"GET", "PUT"}, token : {"rw"}, path : Edges]
=============================================================================
